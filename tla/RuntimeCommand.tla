--------------------------- MODULE RuntimeCommand ---------------------------
(***************************************************************************)
(* One KAT command that has a Runtime work for it, from its first file to  *)
(* its exit code: kat query (cli/src/query.rs), kat inspect workflow and   *)
(* provider (cli/src/lib.rs), and kat run (cli/src/run.rs and              *)
(* run/execution.rs).  They share the Operation log (operation_log.rs),    *)
(* the exchange with the Runtime over a private directory                  *)
(* (workflow_runtime.rs) and the Response (response.rs).                   *)
(*                                                                         *)
(* Each command promises an artefact: an NDJSON file, a piece of archived  *)
(* evidence, a published Run.  Every step may fail and the process may be  *)
(* killed, and what the caller is told must be true of what is on disk.    *)
(* Sessions, nested Runs, the control channel and the Analysis Record are  *)
(* the subject of other modules; here they succeed or fail.                *)
(***************************************************************************)

CONSTANT Kinds \* the commands: a subset of {"query", "inspect", "run"}

ASSUME KindsAssumption == Kinds \subseteq {"query", "inspect", "run"}

VARIABLES
  kind,      \* the command
  archive,   \* the option --archive of kat query
  stage,     \* how far the command is
  verdict,   \* what it has come to so far
  log,       \* the Operation log: "none", "whole", or "torn" by a write that failed
  tail,      \* the last line of it that reports progress
  control,   \* the private directory with request and Response
  runtime,   \* the Runtime process, "ok" and "bad" are exit codes
  response,  \* response.json
  result,    \* the NDJSON file of a query
  guard,     \* the PendingResponseFile that removes that file
  stuck,     \* what could not be removed: of "control", "result", "candidate"
  candidate, \* the directory of a Run
  evidence,  \* whether the Analysis Record has the result
  reply,     \* the Response that is prepared
  delivered, \* whether the caller got it
  exit       \* the exit code

input == <<kind, archive>>
journal == <<log, tail>>
process == <<runtime, response>>
artefacts == <<result, guard, candidate, evidence>>
outcome == <<reply, delivered, exit>>
vars == <<input, stage, verdict, journal, control, stuck, process, artefacts, outcome>>

Stages == {"start", "resolve", "facts", "allocate", "prepare", "spawn", "wait", "collect", "status",
           "validate", "archive", "remove", "cleanup", "gate", "line", "finish", "commit", "drop",
           "publish", "end", "dead"}
Verdicts == {"inline", "file", "report", "diagnostic", "error", "log"}
Answers == {"inline", "file", "report", "diagnostic", "unreadable"}
Good == {"inline", "file", "report"}
NoReply == [status |-> "none", cause |-> "none", names |-> FALSE]
Replies == [status : {"none", "success", "failure"}, cause : Verdicts \cup {"none"}, names : BOOLEAN]

TypeOK ==
  /\ kind \in Kinds /\ archive \in BOOLEAN
  /\ stage \in Stages
  /\ verdict \in Verdicts \cup {"none"}
  /\ log \in {"none", "whole", "torn"}
  /\ tail \in {"none", "progress", "runtimeOk", "runtimeFailed", "ready", "success", "failure"}
  /\ control \in BOOLEAN
  /\ runtime \in {"none", "running", "answering", "ok", "bad"}
  /\ response \in Answers \cup {"none", "partial"}
  /\ result \in {"none", "partial", "whole"}
  /\ guard \in {"none", "armed", "handed", "retained"}
  /\ stuck \subseteq {"control", "result", "candidate"}
  /\ candidate \in {"none", "candidate", "published"}
  /\ evidence \in BOOLEAN
  /\ reply \in Replies
  /\ delivered \in {"no", "yes", "broken"}
  /\ exit \in {"none", "success", "failure"}

Init ==
  /\ kind \in Kinds
  /\ archive \in BOOLEAN /\ (archive => kind = "query")
  /\ stage = "start" /\ verdict = "none"
  /\ log = "none" /\ tail = "none"
  /\ control = FALSE
  /\ runtime = "none" /\ response = "none"
  /\ result = "none" /\ guard = "none" /\ stuck = {}
  /\ candidate = "none" /\ evidence = FALSE
  /\ reply = NoReply /\ delivered = "no" /\ exit = "none"

-----------------------------------------------------------------------------
(* Helpers. *)

\* The command goes on to the next stage.
Goes(from, to) == stage = from /\ stage' = to /\ UNCHANGED verdict

\* The command fails for cause v.  A Run that was allocated is cleaned up
\* first (finish_execution); a log that cannot be written gets no last line.
FailAs(v, allocated) ==
  /\ verdict' = v
  /\ stage' = IF allocated = "candidate" THEN "cleanup" ELSE IF v = "log" THEN "finish" ELSE "line"

Fails(v) == FailAs(v, candidate)

\* Mutation of AppendLine: an error of the write is discarded.
AppendLineUnseen(to, line) ==
  /\ stage' = to /\ tail' = line
  /\ log' \in {log, "torn"}
  /\ UNCHANGED verdict

\* OperationLog::append on the way to stage to.  A write that fails may leave
\* a part of the line.
AppendLine(to, line) ==
  \/ stage' = to /\ tail' = line /\ UNCHANGED <<verdict, log>>
  \/ Fails("log") /\ log' = "torn" /\ UNCHANGED tail

\* What should go, a file or a directory, may stay: a drop reports no error.
Removed(there, gone, what) ==
  \/ there' = gone /\ UNCHANGED stuck
  \/ there # gone /\ UNCHANGED there /\ stuck' = stuck \cup {what}

\* The Response that reports verdict v; names says whether it has a log path.
ReplyOf(v, names) ==
  [status |-> IF v \in Good THEN "success" ELSE "failure", cause |-> v, names |-> names]

-----------------------------------------------------------------------------
(* Before the Runtime. *)

\* The Data Home is located and the log is created with its header.
OpenLog ==
  /\ stage = "start"
  /\ \/ /\ Goes("start", "resolve")
        /\ log' = "whole" /\ tail' = "progress"
        /\ UNCHANGED reply
     \/ /\ stage' = "drop" /\ verdict' = "error"
        /\ reply' = ReplyOf("error", FALSE)
        /\ UNCHANGED journal
     \/ /\ stage' = "finish" /\ verdict' = "log"
        /\ log' \in {"none", "torn"}
        /\ UNCHANGED <<tail, reply>>
  /\ UNCHANGED <<input, control, stuck, process, artefacts, delivered, exit>>

\* What the command names is looked up: the Session, the record, the Run, the
\* PACK.  kat run allocates its candidate after the Session and before the PACK.
Resolve ==
  /\ stage = "resolve"
  /\ candidate' \in IF kind = "run" THEN {"none", "candidate"} ELSE {"none"}
  /\ \/ Goes("resolve", "facts") /\ (kind = "run" => candidate' = "candidate")
     \/ FailAs("error", candidate')
  /\ UNCHANGED <<input, journal, control, stuck, process, result, guard, evidence, outcome>>

\* The facts found are put in the log.
LogFacts ==
  /\ stage = "facts"
  /\ AppendLine(IF kind = "query" THEN "allocate" ELSE "prepare", "progress")
  /\ UNCHANGED <<input, control, stuck, process, artefacts, outcome>>

\* allocate_result_candidate: the name must be free, and from now on the file
\* is removed unless the Response that names it is delivered.
AllocateResult ==
  /\ stage = "allocate"
  /\ \/ Goes("allocate", "prepare") /\ guard' = "armed"
     \/ Fails("error") /\ guard' \in {"none", "armed"}
  /\ UNCHANGED <<input, journal, control, stuck, process, result, candidate, evidence, outcome>>

\* prepare_runtime_control and RuntimeOutputSpool::create.  If they fail, a
\* directory already made is dropped again.
PrepareControl ==
  /\ stage = "prepare"
  /\ \/ Goes("prepare", "spawn") /\ control' = TRUE /\ UNCHANGED stuck
     \/ Fails("error") /\ UNCHANGED <<control, stuck>>
     \/ Fails("error") /\ control' = TRUE /\ stuck' = stuck \cup {"control"}
  /\ UNCHANGED <<input, journal, process, artefacts, outcome>>

\* The Runtime is started; on failure the private directory is dropped.
Spawn ==
  /\ stage = "spawn"
  /\ \/ Goes("spawn", "wait") /\ runtime' = "running" /\ UNCHANGED <<control, stuck>>
     \/ Fails("error") /\ Removed(control, FALSE, "control") /\ UNCHANGED runtime
  /\ UNCHANGED <<input, journal, response, artefacts, outcome>>

-----------------------------------------------------------------------------
(* The Runtime: workflow/runtime/__main__.py and query.py. *)

\* frame.write_json writes the result of a query, in more than one write.
WriteResult ==
  /\ runtime = "running" /\ kind = "query" /\ result # "whole"
  /\ result' = IF result = "none" THEN "partial" ELSE "whole"
  /\ UNCHANGED <<input, stage, verdict, journal, control, stuck, process, guard, candidate, evidence,
                 outcome>>

\* What _execute can answer: a result, which for a query is inline or in the
\* file by then, or a diagnostic.
Answer ==
  /\ runtime = "running" /\ runtime' = "answering"
  /\ response' = "partial"
  /\ UNCHANGED <<input, stage, verdict, journal, control, stuck, artefacts, outcome>>

\* _write_response is through.  The reader may still refuse what was written:
\* it limits the depth of values.
Answered ==
  /\ runtime = "answering" /\ response = "partial"
  /\ response' \in {"diagnostic", "unreadable"} \cup
       (IF kind # "query" THEN {"report"} ELSE IF result = "whole" THEN {"inline", "file"} ELSE {})
  /\ UNCHANGED <<input, stage, verdict, journal, control, stuck, runtime, artefacts, outcome>>

\* The process ends: with 0 after its answer, or at any time otherwise.
RuntimeExits ==
  /\ \/ runtime = "answering" /\ response # "partial" /\ runtime' = "ok"
     \/ runtime \in {"running", "answering"} /\ runtime' = "bad"
  /\ UNCHANGED <<input, stage, verdict, journal, control, stuck, response, artefacts, outcome>>

-----------------------------------------------------------------------------
(* The exchange and the gates after it. *)

\* child.wait.  If it fails the Runtime is killed and waited for, and the
\* exchange is over: kat run still takes over what the Runtime printed, and
\* kills the Runtime likewise when its control pump fails.
Wait ==
  /\ stage = "wait"
  /\ \/ runtime \in {"ok", "bad"} /\ Goes("wait", "collect") /\ UNCHANGED <<runtime, control, stuck>>
     \/ /\ runtime' = "bad"
        /\ IF kind = "run"
           THEN Goes("wait", "collect") /\ UNCHANGED <<control, stuck>>
           ELSE Fails("error") /\ Removed(control, FALSE, "control")
  /\ UNCHANGED <<input, journal, response, artefacts, outcome>>

\* Mutation of Usable: a Response counts whatever the exit code says.
UsableAnyhow == response \in {"inline", "file", "report", "diagnostic"}

\* The Runtime has ended with 0 and its Response can be decoded.
Usable == runtime = "ok" /\ response \in {"inline", "file", "report", "diagnostic"}

\* What the Runtime printed goes to the log; then its status is looked at and
\* its Response read.  The private directory is dropped with the exchange.
Collect ==
  /\ stage = "collect" /\ Removed(control, FALSE, "control")
  /\ \/ /\ log' = "torn"
        /\ Fails("log")
     \/ /\ UNCHANGED log
        /\ IF Usable THEN stage' = "status" /\ verdict' = response ELSE Fails("error")
  /\ UNCHANGED <<input, tail, process, artefacts, outcome>>

\* runtime_status is logged; kat inspect goes straight to its last line.
Status ==
  /\ stage = "status"
  /\ IF kind = "inspect"
     THEN Goes("status", "line") /\ UNCHANGED journal
     ELSE AppendLine(IF kind = "run" THEN "cleanup" ELSE IF verdict \in Good THEN "validate" ELSE "line",
                 IF verdict \in Good THEN "runtimeOk" ELSE "runtimeFailed")
  /\ UNCHANGED <<input, control, stuck, process, artefacts, outcome>>

\* validate_result_file.
ValidateResult ==
  /\ stage = "validate"
  /\ \/ result # "none" /\ Goes("validate", "archive")
     \/ Fails("error")
  /\ UNCHANGED <<input, journal, control, stuck, process, artefacts, outcome>>

\* With --archive the file is read and appended to the record.
Archive ==
  /\ stage = "archive"
  /\ \/ ~archive /\ Goes("archive", "remove") /\ UNCHANGED evidence
     \/ archive /\ Goes("archive", "remove") /\ evidence' = TRUE
     \/ archive /\ Fails("error") /\ UNCHANGED evidence
  /\ UNCHANGED <<input, journal, control, stuck, process, result, guard, candidate, outcome>>

\* The file of an inline result must go before it is delivered.
RemoveInline ==
  /\ stage = "remove"
  /\ \/ Goes("remove", "line") /\ result' = IF verdict = "inline" THEN "none" ELSE result
     \/ verdict = "inline" /\ Fails("error") /\ UNCHANGED result
  /\ UNCHANGED <<input, journal, control, stuck, process, guard, candidate, evidence, outcome>>

\* finish_execution: the scratch directory must go, whatever the verdict is,
\* and the log tells; a failure overrides success only, and one of the log
\* overrides all.
Cleanup ==
  /\ stage = "cleanup"
  /\ \E v \in {verdict, IF verdict \in Good THEN "error" ELSE verdict} :
       \/ /\ verdict' = v
          /\ stage' = IF v \in Good THEN "gate" ELSE IF v = "error" THEN "line" ELSE "finish"
          /\ UNCHANGED log
       \/ verdict' = "log" /\ stage' = "finish" /\ log' = "torn"
  /\ UNCHANGED <<input, tail, control, stuck, process, artefacts, outcome>>

\* The manifest is assembled from the Outputs found and the ledger.
Gate ==
  /\ stage = "gate" /\ stage' = "line"
  /\ verdict' \in {verdict, "error"}
  /\ UNCHANGED <<input, journal, control, stuck, process, artefacts, outcome>>

\* The last line: the status, or for a Run that the gate is open.
LastLine ==
  /\ stage = "line" /\ stage' = "finish"
  /\ \/ /\ tail' = IF verdict \notin Good THEN "failure" ELSE IF kind = "run" THEN "ready" ELSE "success"
        /\ UNCHANGED <<verdict, log>>
     \/ verdict' = "log" /\ log' = "torn" /\ UNCHANGED tail
  /\ UNCHANGED <<input, control, stuck, process, artefacts, outcome>>

\* OperationLog::finish, and the Response is prepared.  A log that could not
\* be completed is named if it can still be read (readable_path).
FinishLog ==
  /\ stage = "finish"
  /\ \/ /\ verdict # "log"
        /\ reply' = ReplyOf(verdict, TRUE)
        /\ stage' = IF verdict \in Good /\ kind = "run" THEN "commit" ELSE "drop"
        /\ UNCHANGED verdict
     \/ /\ verdict' = "log" /\ stage' = "drop"
        /\ \E names \in BOOLEAN : (names => log # "none") /\ reply' = ReplyOf("log", names)
  /\ UNCHANGED <<input, journal, control, stuck, process, artefacts, delivered, exit>>

\* publish_run_manifest renames the manifest into place.
Commit ==
  /\ stage = "commit" /\ stage' = "drop"
  /\ \/ candidate' = "published" /\ UNCHANGED <<verdict, reply>>
     \/ verdict' = "error" /\ reply' = ReplyOf("error", TRUE) /\ UNCHANGED candidate
  /\ UNCHANGED <<input, journal, control, stuck, process, result, guard, evidence, delivered, exit>>

\* What the command still owns is dropped before the Response is written; the
\* guard of a file result goes with the Response.
Drop ==
  /\ stage = "drop" /\ Goes("drop", "publish")
  /\ CASE kind = "query" /\ guard = "armed" /\ reply.cause = "file" ->
             guard' = "handed" /\ UNCHANGED <<result, stuck, candidate>>
       [] kind = "query" /\ guard = "armed" /\ reply.cause # "file" ->
             guard' = "none" /\ Removed(result, "none", "result") /\ UNCHANGED candidate
       [] kind = "run" /\ candidate = "candidate" ->
             Removed(candidate, "none", "candidate") /\ UNCHANGED <<guard, result>>
       [] OTHER -> UNCHANGED <<guard, result, stuck, candidate>>
  /\ UNCHANGED <<input, journal, control, process, evidence, outcome>>

\* Mutation of Publish: the file is let go before the Response is written.
PublishRetained ==
  /\ stage = "publish" /\ Goes("publish", "end")
  /\ guard' = IF guard = "handed" THEN "retained" ELSE guard
  /\ delivered' \in {"yes", "broken"}
  /\ exit' = IF delivered' = "yes" THEN reply.status ELSE "failure"
  /\ UNCHANGED <<input, journal, control, stuck, process, result, candidate, evidence, reply>>

\* publish_to: the Response is written and flushed; only then is the result
\* file kept.  If it cannot be delivered there is no second one.
Publish ==
  /\ stage = "publish" /\ Goes("publish", "end")
  /\ \/ /\ delivered' = "yes" /\ exit' = reply.status
        /\ guard' = IF guard = "handed" THEN "retained" ELSE guard
        /\ UNCHANGED <<result, stuck>>
     \/ /\ delivered' = "broken" /\ exit' = "failure"
        /\ IF guard = "handed"
           THEN guard' = "none" /\ Removed(result, "none", "result")
           ELSE UNCHANGED <<guard, result, stuck>>
  /\ UNCHANGED <<input, journal, control, process, candidate, evidence, reply>>

\* The process of the command is killed; the Runtime goes on by itself.
Kill ==
  /\ stage \notin {"end", "dead"}
  /\ stage' = "dead"
  /\ UNCHANGED <<input, verdict, journal, control, stuck, process, artefacts, outcome>>

-----------------------------------------------------------------------------

Before == OpenLog \/ Resolve \/ LogFacts \/ AllocateResult \/ PrepareControl \/ Spawn
RuntimeNext == WriteResult \/ Answer \/ Answered \/ RuntimeExits
After ==
  \/ Wait \/ Collect \/ Status \/ ValidateResult \/ Archive \/ RemoveInline \/ Cleanup \/ Gate
  \/ LastLine \/ FinishLog \/ Commit \/ Drop \/ Publish

Next == Before \/ RuntimeNext \/ After \/ Kill

Spec == Init /\ [][Next]_vars

-----------------------------------------------------------------------------
(* Properties. *)

\* The last line of the log agrees with verdict v: of a Run, the gate is open
\* once it is to be published, and a diagnostic of the Workflow is the last
\* word.
LogAgrees(v) ==
  /\ log = "whole"
  /\ tail \in CASE kind = "run" /\ v \in Good -> {"ready"}
                [] kind = "run" /\ v = "diagnostic" -> {"runtimeFailed"}
                [] kind = "run" /\ v = "error" -> {"failure", "ready"}
                [] kind # "run" /\ v \in Good -> {"success"}
                [] OTHER -> {"failure"}

\* What a delivered Response says is so.  After success the file it names is
\* there in full, the evidence is archived, the Run published; after failure
\* no Run is.  A log it names exists, and unless the failure is that of the
\* log, it is complete and ends with the same verdict.
AnswerIsTrue ==
  delivered = "yes" =>
    /\ reply.cause = "file" => result = "whole" /\ guard = "retained"
    /\ reply.status = "success" => (archive => evidence) /\ (kind = "run" => candidate = "published")
    /\ reply.status = "failure" => candidate # "published"
    /\ reply.names => log # "none"
    /\ reply.names /\ reply.cause # "log" => LogAgrees(reply.cause)
    /\ reply.status = "success" => reply.names

\* A command that was not killed leaves nothing behind but what it has
\* delivered and what could not be removed: no Runtime, no private directory
\* or candidate but one whose removal failed, and no result file unless its
\* removal failed or the caller was given its name.  Its exit code is that of
\* the Response if that was delivered, else a failure.
NothingIsLeft ==
  stage = "end" =>
    /\ runtime \notin {"running", "answering"}
    /\ control => "control" \in stuck
    /\ candidate = "candidate" => "candidate" \in stuck
    /\ result # "none" => "result" \in stuck \/ (delivered = "yes" /\ reply.cause = "file")
    /\ exit = "success" <=> delivered = "yes" /\ reply.status = "success"

\* The exchange with the Runtime is behind: the command is past the stages
\* that prepare and conduct it, and its directory was dropped.
ExchangeOver ==
  /\ stage \notin {"start", "resolve", "facts", "allocate", "prepare", "spawn", "wait", "collect"}
  /\ control => "control" \in stuck

\* What outlives the command without its Response is done last: evidence and
\* a Run are published only once the Runtime has ended with 0, the exchange is
\* over and the log holds every line so far; a Run only when its log is
\* complete and the Response prepared.
EffectsComeLast ==
  [][/\ evidence' # evidence => runtime = "ok" /\ ExchangeOver /\ log = "whole" /\ result = "whole"
     /\ candidate # "published" /\ candidate' = "published" =>
          runtime = "ok" /\ ExchangeOver /\ LogAgrees("report") /\ reply.status = "success"]_vars
=============================================================================
