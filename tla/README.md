# KAT: TLA+ models, checks and proofs

KAT (`kat/platform`) analyses system traces. An analyst creates an *Analysis Session*, runs
*Workflows* of *PACKs* in it, queries and inspects their *Runs*, and keeps a record of the analysis.
A Workflow is Python code, run by a Runtime process that the Rust command line starts; it may call
other Workflows, and its datasources write Parquet catalogs. Everything the parts share is on disk or
in pipes, and any process may be killed at any time.

This directory models the parts of KAT whose correctness depends on an order of steps: TLA+ modules,
TLC configurations that check them on small instances, and TLAPS proofs for all instances.
`PROJECT.json` holds, for each definition, the source lines it stands for; paths below are relative to
`kat/platform` unless they begin with `docs/`.

## 1. Inventory

| Part | State | Operations | Hard behaviour | What makes it correct |
|---|---|---|---|---|
| Session store, `cli/src/session_store.rs` | directory trees, tombstones, lease files, locks | create, open, allocate and drop a Run, clean scratch, delete | commands of other processes at every step, crash, failed removals | a command never loses the Session it has validated; deletion is complete or resumable |
| Run execution, `run.rs`, `run/execution.rs` | candidate and scratch directory, manifest | execute, finish, publish, drop | a Workflow that tampers with its directories, crash around the rename | published once, by the gate only, never with a scratch directory |
| Published Run facts, `run_manifest.rs`, `inspect.rs` | none of its own | resolve, enumerate, complete the children | enumeration while Runs are published | a healthy Session is never reported as corrupted; the result is closed and complete |
| Nested Run coordinator, `run/nested.rs` | active chain, ledger of children, test sessions | execute a child, deliver it; begin and end test sessions | concurrent children, failing parents | the manifest lists exactly the published children; no recursion |
| Host control channel, `workflow_runtime.rs`, `workflow_runtime/` | worker threads, seen ids, the Runtime process | pump requests, answer, kill, accept | worker order, full pipes, threads that cannot start, a dead Runtime | every call is executed at most once, and none outlives the exchange |
| Runtime control client, `workflow/runtime/rpc.py` | pending calls, poison flag, reader on demand | call, read, dispatch, poison, close | hand-off of the reader, failed writes | no call waits for ever, every answer goes to its own call |
| Context and main thread, `workflow/runtime/execution.py`, `__main__.py` | OPEN, CLOSING, CLOSED; active calls | run, close, respond, exit | threads a Workflow leaves behind | such a Workflow is never accepted |
| Analysis archive, `analysis_store.rs`, `analysis_record.rs`, `analysis.rs` | one record with a revision, a lock | show, save, append, adopt, update | several writers, stale readers, crash | no lost write; receipts hold; the report can be shown |
| Query, `query.rs`, `runtime/query.py` | result files | execute, archive | a failure after the archive | see a command, and the archive |
| PACK knowledge, `knowledge.rs`, `knowledge_read.rs` | none | list, read, adopt | see the archive | one snapshot for a topic |
| Provider write transaction, `workflow/api/dataprovider/_write.py` | buffers, queue, staging directory, two threads | enter, append, finish, cancel, publish | a writer that fails, interrupts, a competing destination | all that was accepted is published in one step, or nothing |
| kat test, `test.rs`, `run/nested.rs`, `runtime/testing.py` | test sessions, shares of them, temporary storage, log notes | begin, run, end, conclude | ending a session that is in use, a Runtime that dies between two answers | a closed session is quiet; success means that nothing was lost |
| PACK discovery, `pack_discovery.rs`, `sdk.rs`, `runtime/pack.py` | none that outlives a command | find a PACK in several places; inspect its modules, call one of them | an author who edits meanwhile, aliases, workers that die | a name stands for one directory; only what was inspected is called |
| Outputs of a Run, `runtime/outputs.py`, `run_manifest.rs` | files and manifest of a Run | normalize, write, judge, publish, read | two languages with rules of their own; one refused Run makes its Session unreadable | what is published is readable everywhere |
| A command and its answer, `lib.rs`, `query.rs`, `run.rs`, `response.rs`, `operation_log.rs` | log, private directory, result file, Response | every step from the log to the exit code | every step may fail, a line may be torn, the caller may be gone, kill | the answer is true and nothing is left behind |
| Text projection, `text_projection.rs`, output spool | a few pending bytes | push, finish | text cut anywhere | the log shows the text as a whole |
| Trace decoders, `datasource/src` | relations in a staging directory, clock summary, header | read a record, finish, publish | order of the records, full buffers, last row ids, a competing destination | what is published is what the trace says |
| Protobuf source generator, `datasource/build/protobuf_source_codegen` | the plan it builds, a memo | validate, plan, generate | cycles, name collisions, messages inside messages | no payload loses anything in the relations |
| Data provider values | none | conversions | none across steps | only the rule of identifiers |
| Configuration, build and release tooling | none that outlives a call | read settings, pack, verify | none | not modelled |

The parts meet at five places. Commands share the Session on disk under its lease (`SessionStore`).
One `kat run` process executes a tree of Runs whose published members any command may enumerate
(`NestedRuns`, which takes from `SessionStore` that the Session stays). Each Run of a tree has a
Runtime, joined to the Host by the control channel (`ControlChannel`, from which `NestedRuns` takes
that no call outlives its exchange). Commands share the Analysis Record under its own lock
(`AnalysisArchive`, which takes from the first two that published Runs are never fewer). And every
command that has a Runtime joins its log, the exchange with the Runtime, its result and its Response
(`RuntimeCommand`, in which what the other modules are about succeeds or fails as a whole).

## 2. Modules

| Module | Models | Uses |
|---|---|---|
| `SessionContract` | what a Session promises, abstractly | |
| `SessionStore` | session store, the publication gate, the lease until the Response is out | implements `SessionContract` |
| `NestedRuns` | trees of Runs, their ledgers and manifests, an enumerating process | |
| `ControlPipes` | the two pipes of the control channel | |
| `RpcClient` | the Runtime: callers, reader thread, main thread, Context | `ControlPipes` |
| `ControlPump` | the Host: pump and workers | `ControlPipes` |
| `ControlChannel` | both sides together, and the verdict on the Runtime | `RpcClient`, `ControlPump`; implements `CallContract` |
| `CallContract` | what a nested call promises, abstractly | |
| `AnalysisArchive` | the Analysis Record and the commands that read and replace it | |
| `MaterializationContract` | what a Datasource write promises, abstractly | |
| `WriteTransaction` | owner and writer thread of a Datasource write | implements `MaterializationContract` |
| `TestSessions` | `kat test`: its sessions, their calls, the end of the command | |
| `DecodeOutput` | relations, staging and publication of a decoder | |
| `HitraceDecode` | sections, frames, rows and clocks of a Hitrace | `DecodeOutput` |
| `TextFtraceDecode` | header and events of a text ftrace | `DecodeOutput` |
| `TraceDecode` | one run of either decoder beside a rival | the two above |
| `TextProjection` | Runtime output on its way to the log | |
| `RelationalPlan` | the planner of relations for protobuf messages | |
| `RelationalRows` | the rows that the emitters of a plan write | `RelationalPlan` |
| `RuntimeCommand` | one command from its log to its exit code: query, inspect, run | |
| `PackDiscovery` | which directory a PACK name stands for | |
| `ProductionPack` | which Workflow of a PACK is inspected and called | |
| `RunFacts` | the Outputs of a Run, from the Workflow to every reader | |
| `<Module>Proofs` | the theorems about `SessionStore`, `NestedRuns`, `ControlChannel`, `AnalysisArchive`, `WriteTransaction` and `TestSessions` | the module, TLAPS |
| `CommandsProofs` | the theorems about `RuntimeCommand`, `RunFacts`, `ProductionPack`, `PackDiscovery` and `TextProjection` | these five, TLAPS |
| `DatasourceProofs` | the theorems about `TraceDecode` and `RelationalPlan` | these two, TLAPS |
| `MC*` | the instances for TLC | |

Definitions called `<Name><Something>` under a comment "Mutation of Name" are faulty variants of an
action. No specification uses them; each shows that one property would notice that fault.

### SessionStore

State: what is on disk for ONE Session (`leaseFile`, `session`, `tombstone`, `runs`, `scratch`), the
lock each process holds, and its next step (`pc`). Sessions do not interact: their names are fresh
UUIDs, so one is enough. One action is one file-system call, or a run of calls nobody else can tell
apart. `Create`, `Open`, `Read`, `RunWorkflow` and `Delete` group the actions of a command; `Crash`
kills a process anywhere and leaves the disk as it is; the operating system frees its lock. A Workflow
is a black box that may remove or replace its scratch directory and forge a manifest in its candidate
(`Execute`). Readers resolve any well-formed manifest (`ResolveRun`), and so also a forged one, until the
gate refuses that Run or its candidate is dropped; after a crash it stays. That is the one way in which a
Run that is being read may be withdrawn, and `forged` remembers it: `TargetRunIsPublished` says that no Run
goes from under a reader unless its own Workflow had put the manifest there. Failed calls and crashes are counted by `faults`.

Choices: storage roots exist. The marker decides whether a tree is a Session, for it is published last
(`Validation`). Removing a candidate or a scratch entry succeeds or fails as a whole; removing a
tombstone goes entry by entry (`DeleteEntry`), since there a partial removal matters. An orphaned
Runtime of a killed Host is out of scope, as in `docs/adr/0077`.

### NestedRuns

State: the progress (`stage`), directory (`disk`), manifest and ledger of each Run, its place in the
tree (`parent`, `host`, `target`, `chain`), and one process that enumerates (`look`, `unseen`, `view`).
`Call` is `execute` and `execute_child`; any number of calls of one parent may be under way. `Quit` is a
Runtime that ends while the Host still executes calls of it; `Finish` waits for them (`Drained`), which
is what `NoCallOutlivesPump`, a part of `ExchangeIsQuiet` of `ControlChannel`, establishes. `Scan` opens
the directory: an entry that comes while it is read may be listed or not. The run gate is short here, for `SessionStore` has it in
full. A forged manifest that is visible for a moment (see `SessionStore`) and PACK resolution are left
out, as is a ledger whose mutex is poisoned by a panic.

### ControlChannel

State of the client: the stage, id and answer of each call, `nextId`, `poisoned`, the reader thread and
the frame it has read, the Context and the main thread. State of the Host: a worker per call id, the
pump and its error. An action is one critical section of `_state_lock` or of the Context's condition,
or one call on a stream. The Host's reader thread and event queue are merged into the request pipe: the
pump takes a frame when its event comes up, and nobody looks at frames after it has left its loop.
A write that fails may leave nothing, a part, or the whole frame (`Leftovers`). `answers` has a
capacity, so that a worker may block; requests always fit. `begun` counts the workers that were ever
started for a call, which `CallContract` bounds by one. The streams are unbuffered and a frame whose write
failed is never repeated, so that the Host's branch for an id it has seen is a precaution. `context = "none"` is `kat test`, whose calls
no Context counts. Left out: answers of a wrong kind, and an interrupt in a waiting caller.

### AnalysisArchive

State: `record` (revision 0 is its absence), the lock on `write.lock`, the command each process is in,
and what its user has been shown (`known`), which is the revision a save names. The commands wait for
the lock; a decision made under it may always be a refusal (`Refuse`); `Commit` is the atomic
replacement and the unlocking; `Stop` is a kill or a failed replacement. A node of the report is the
Run it is about; goals, texts and selectors are left out.

### WriteTransaction

State of the owner: its step, `buffer`, the batch in its `hand`; of the writer: its step, the batch it
has `taken`, the state and rows of each file; between them the queue, its shutdown and the recorded
failure; on disk the staging directory and the destination. A row is the number of the append that
brought it, so that a file shows which rows it holds and in which order. `_enqueue` is `Look`, `Put`,
`PutTimeout` and `PutFails`, for the failure is recorded and the queue shut down in two steps of the
writer (`Write`, `Fail`). The estimate of bytes is a free choice to cut a batch early (`Flush`).
Interrupts are taken where the owner waits, in `mkdtemp`, and around the rename; inside the few calls
of the clean-up they are not. The writer thread exists (`Start`) before it runs (`Bootstrap`), and
`Thread.start()` waits for that (`Started`). If this wait is interrupted, `is_alive()` may still be false and
the clean-up goes on beside the thread: then creating and closing files may fail for want of the directory
(`Bereft`), and so may removing it (`Cleanup`). `Catches` says whether the body may handle an interrupt and go on.

### TestSessions

State of the Runtime: `scope`, what each fixture knows of its session, and the session and stage of each
call; of the Host: the map `sessions`, `held`, the calls whose worker shares a scope (the strong count of
its `Arc` is one more than those), and the log notes on their way from a session's coordinator (`notes`)
by the test coordinator (`kept`) to the Operation log (`logged`); of the command: the pump, the Runtime,
its verdict and report, the mirror of its output, the answer. A worker is split where another worker may
come between: look up, execute, collect the notes, release the share, answer. The Runtime may die at any
time; workers go on, but an answer that cannot be written makes the pump fail (`Deliver`), and then
requests may stay unread (`Drained`). Ids and pipes are those of `ControlChannel`; what a Workflow does
is `NestedRuns`.

### TraceDecode

State: the decoder's `step`; `source`, the records it has read; `out`, the relations with their buffers,
files and next row ids; `staging` and `destination`; the `report` of what is not supported. A Hitrace is
read section by section and frame by frame (`ReadSection`, `ReadFrame`, `EndSection`), a text ftrace line
by line (`ReadHeader`, `ReadEvent`); then the relations are closed, validated and published by one rename.
A row is its id, the row it belongs to, and the record it comes from. What a field says is left out:
`BadFrame`, `BadEvent` and their like stand for every record that does not parse. `early` stands for the
estimate of bytes, `MaxId` for 2^64 - 1, which one decoder gives out as a row id and the other does not. An
error ends a decoder, so that the poison flags of the captures are not needed; it drops the staging
directory, which may stay all the same (`staging = "stuck"`: `TempDir` ignores a failed removal). `Rival` is another process that makes the
destination, `Kill` the end of this one. What the rows should be is said of the trace and not computed
from it: a relation has an item for every row that a record yields (`Items`), the id of a row is the number
of items before it (`Rank`), and it is joined to the row of its record one level up (`Parent`).

### TextProjection

An algorithm whose state is its input. `Arrive` takes a piece of output, `proj` is what the
projection keeps between two, `logged` what it has written; bytes are kinds of bytes, by their part in
UTF-8 and in line ends. A `Round` takes one character, or what is none, from the bytes that wait, and
`Decode` makes rounds until nothing more can be taken. The reference definition speaks of the whole text
(`Expected`). ANSI sequences are left out.

### RelationalPlan and RelationalRows

The three recursive functions of `plan.rs` are machines with a stack of calls each, so that what is true
in the middle of a walk can be said, checked and proved: `closure` for `validate_closure` (`CheckField`,
`LeaveMessage`), `calls` for `plan_message_relation` and `plan_message_columns` (`PlanRoot`, `PlanChild`,
`PlanColumn`, `EndColumns`), and on top of the latter `asking` for `message_has_relations` (`Ask`,
`AskField`, `AskEnd`), which writes "no" into `memo` before it looks. `schema` is any graph of messages and
never changes; roots are built one after another with one memo and one set of names, and one that is
refused (`Refuse`) leaves its relations where they are, as `build` does. A column is the way to its value
inside of a message; the columns of a struct are put into their relation when their field is planned
and not when the struct ends, which nobody can see before the plan is done. A name is a sequence of words,
so that two ways may give one name. What a plan should be is said of the ways through the
graph (`Ways`, `Supported`, `Spread`, `Places`, `ColumnsAt`, `Acceptable`) and not computed as the code does.

`RelationalRows` adds what the generated emitters write for a payload (`RowsOf`): one function of
the plan and the payload, with row ids only where a relation has children. Enum origins, the binding to Rust
identifiers and the generated text are left out.

### RuntimeCommand

State: how far the command is (`stage`), what it has come to (`verdict`), its Operation log with the last
line of it, the private directory (`control`) with the Runtime and its Response, the result file and the
guard that removes it, the candidate of a Run, the archived evidence, and what the caller gets (`reply`,
`delivered`, `exit`). `Kinds` are `kat query`, `kat inspect` of a Workflow or Provider, and `kat run`,
which differ in where they go next. An action is one step with its failure: each write to the log may be
torn, the Runtime may end at any moment with or without a Response; the private directory, the result file
and the candidate may stay when they are dropped, for a drop reports no error (`stuck` says which of them);
the caller may be gone when the Response is written, and `Kill` ends the process anywhere. `Drop` stands
for what is dropped between the decision and the Response, in the order of Rust's scopes. That the exchange
is over (`ExchangeOver`) is said by the stage, since the directory may outlast it.

### PackDiscovery, ProductionPack and RunFacts

Three parts that keep no state beyond a command, each beside somebody who interferes. `PackDiscovery`
works off the places in the order of the code (`todo`), one file-system read per action, while `Edit`
changes directories; a layout says which entries and aliases lead where. An entry of a search root is
listed if it is there when the root is read, and probed later. `ProductionPack` lists
the modules, inspects one after another in processes that may die, always the first of those that are
still `pending`, and imports the chosen one again
(`Load`), while `Change` edits modules and guides; a module is what inspection sees of it.
`RunFacts` has the two rules of Output names as they are written, the regular expression of the Runtime as
an automaton (`Step`, `Matches`) and the segments of the CLI, on texts of characters, and carries the Outputs through
writing, judging, the gate and the readers. A thread of the Workflow may leave a file (`LeaveStray`)
until the gate looks; after the gate the Runtime is gone. Field syntax of manifests, parameters, and
Providers are left out.

## 3. Runs

| Run | Instance | Shows |
|---|---|---|
| `session_store` | 3 processes, 2 Runs, 2 faults | the invariants and `ImplementsContract` |
| `session_store_live` | 2 processes, 1 Run, 2 faults | a deletion answers; a retried one completes |
| `nested_runs` | 3 Runs, 3 targets, 1 crash | exact manifests, closed and complete enumerations, no recursion, trees of Runs end |
| `control_channel` | 3 calls, 2 ids, pipe for 1 answer, 1 fault | no stranded call, quiet ends, `ImplementsCalls`: own answers, at most one execution of each call |
| `control_channel_live` | 2 calls, 2 ids, pipe for 1 answer, 1 fault | every call returns; the exchange ends |
| `analysis_archive` | 2 processes, 1 Run, 1 topic, 2 material ids, 3 revisions, 1 fault | no lost update, receipts hold, one snapshot |
| `write_transaction` | 2 relations, 3 rows each, batches of 2, queue of 1, 2 faults | all or nothing; a writer that started keeps its directory; the owner never waits for ever |
| `test_sessions` | 2 tests, 2 calls | closed sessions are quiet, orderly tests close, success is true, the command ends |
| `trace_decode` | 2 formats, traces of 3 frames in 2 sections or 4 events, 3 row ids, batches of 2 | `DecodeIsFaithful`, `DecodeIsAtomic` |
| `algorithms` | texts of 4 bytes in pieces of up to 3; 3 messages, 2 roots, 3 fields | the log shows the text; a plan is refused with reason and has a place for everything; rows tell the payload |
| `commands` | a command of each kind; 5 layouts of 3 directories and 4 modules with 2 edits each; Output names of up to 4 characters, pairs of up to 2 | the answer is true, nothing is left, effects come last; a PACK name stands for one directory; only what was inspected is called; what is published is readable |
| `write_transaction_interrupted` | 1 relation, 3 rows, 1 interrupt that the body handles | a finding, see below |

Why the bounds are enough. `session_store`: the lease separates two roles, and the third process is
the one that must see neither in between; two Runs are one published and one failing; two faults are
a crash and the failure of the clean-up after it. `nested_runs`: with three Runs there is a grandchild,
a pair of concurrent children, or two trees at once. `control_channel`: the third call finds the ids
exhausted, two are answered in either order, and the pipe is full with one answer.
`control_channel_live`: two registered calls share the reader and fill the pipe. `analysis_archive`:
a conflict needs two writers, and the revision after the last is refused. `write_transaction`: with two
relations one file may fail while the other is whole; three rows in batches of two leave a full
batch and a rest. `test_sessions`: two calls of one session overlap each other and its end, and two
sessions show that a look at one does not count the other. `trace_decode`: two clocks that differ need a
configuration and two batches, or the reverse; two batches with two events each exhaust the row ids, and
two rows fill a buffer. `algorithms`: a carriage return before a broken character of three bytes is the
longest thing that is held back; three fields, of two elements where they repeat, make a relation inside a message inside a message, a cycle
of any length there is, and a name that two paths give. `commands`: a command makes each of its steps
once, so that its bounds are those of the code; the layouts have a link, directories that
two or three places lead to, an unreadable root and an SDK that cannot be located; two edits let a directory change and
change back between two reads; four modules have an initializer, a module that is a package, and two that
may take one name; four characters hold a doubled, a leading and a trailing underscore and both device
names. A behaviour of `MCCommands` is about one of its four subjects while the others rest, for they share
no state.

All runs but those of `SessionStore` switch the deadlock check off: a Run, an exchange, a write, a
command may simply be over, and a command need not be followed by another. Type correctness is
proved of every module with theorems; of the runs only `session_store` repeats it.

Fairness. `SessionStore`: a command that has started goes on, except in `Execute`, for nothing bounds a
Workflow. `NestedRuns`: the threads of the Host go on, and a Workflow whose calls have returned returns
some day. `ControlChannel`: the same for every thread on both sides, and for the thread that waits for
the Runtime or kills it; nobody has to make a call. `WriteTransaction`: both threads go on, so that a
call of the Parquet library returns; the body takes as long as it likes. `TestSessions`: tests and their
Workflows end, threads go on; nobody has to call, to die or to reject. `AnalysisArchive` claims no
liveness: file locks are not fair and a user need not go on. A decoder is sequential and ends with its
trace, a command with its last step; neither waits for anyone but the Runtime, whose end is an
assumption of `ControlChannel`.

### Two disagreements with the documents

`write_transaction_interrupted` shows that rows may be missing from a Datasource that was written
without an error. `_enqueue_buffer` (`_write.py:200-207`) empties the buffer before it puts the batch
into the queue. If the owner is interrupted while it waits for room, and the `with` body handles the
`KeyboardInterrupt` and ends normally, the batch is lost with rows whose `append()` had returned, while
`docs/adr/0076` promises that such a row belongs to the materialization once the `with` statement has
ended normally. With bodies that let the interrupt pass (`Catches = FALSE`) the contract holds.

`docs/adr/0076` also says that a cancelled write waits for the writer before it closes files and removes
the candidate directory. `_cancel_and_join` (`_write.py:279-280`) waits for a thread that `is_alive()`, and a
thread whose `start()` was interrupted before it ran is not yet. Its directory is then removed while it
creates and closes its files, and what it creates in time may keep the directory from going. No row and
no published file is touched by this: `WriterKeepsItsDirectory`, a part of `PublicationIsWhole`, says that
this is the only writer to lose its directory, and that it never writes a row.

## 4. Proofs

Eight modules hold theorems, for every value of the constants that the named `ASSUME`s admit; TLC
evaluates these in the runs. None of the properties is inductive as it stands. Each module strengthens
them to an invariant `IInv`, shows with one lemma per action (or per actor) that every step keeps it, and
draws the properties from it; the last step of each theorem is temporal and short. What the invariants add:

- `SessionStoreProofs`: who holds which lock at which step (a process that uses the Session holds a shared
  lock, one beyond `deleteLock` the exclusive one, and both exclude others); how far creation is, by
  the step of `Creator`; where the tree is during a deletion; and that a Run is owned by at most one
  process, in the state its owner's step implies. From the lock discipline follows that nobody uses the
  Session while it is moved, and from ownership that leftovers are accounted for. With it every safety
  property of the module and the refinement of `SessionContract`.
- `NestedRunsProofs`: a Run's ledger holds the published children whose answer was recorded, a Run beyond
  `Drained` has no active child, and chains grow strictly from parent to child, so that no view has a
  child that is its own ancestor. `NoRecursion` (`NeverInsideItself`) speaks of all lines of calls.
  `LineInv` avoids an induction along them: a line has one end, and all targets of the line are in the
  chain of that end, which is the only Run from which a call can make the line longer.
- `ControlChannelProofs`: an id belongs to one call for good (`IdInv`); every frame in a pipe, in a hand or
  with a worker speaks of the call that has its id (`FrameInv`); and the end of the exchange is what the
  main thread and the pump left behind (`EndInv`). With `NoCallIsStranded` itself these are inductive. A call
  has a worker only if its one frame was taken, so that the workers begun for it are none or one
  (`BegunInv`), and client, pipes and pump together implement `CallContract`.
- `AnalysisArchiveProofs`: who is inside the lock (`LockInv`); every copy of the record is a past of it,
  by revision (`CopyInv`), so that the copy whose revision is current is the record; what a commit
  will write (`CommitInv`); and that receipts and counts follow the revisions (`ReceiptInv`, `CountInv`).
- `WriteTransactionProofs`: how the owner's step bounds the writer's, the queue and the failure
  (`OwnerInv`, `WriterInv`), and where the directory is, with what a writer can have got whose `start()` has
  not returned, which is nothing (`StagingInv`). For the rows `FlowInv` says that
  file, batch taken, queue, hand and buffer together hold the accepted rows of a relation in their order,
  unless the write is lost. The refinement of `MaterializationContract` and `AcceptedArePublished` are
  proved under `~Catches`; so the first disagreement above is due to that interrupt alone.
- `TestSessionsProofs`: a scope's share is held by exactly the workers between look-up and release
  (`ShareInv`); a call under way when its test ends belongs to a test
  that does not wait (`HasteInv`); notes go from
  coordinator to log and are not dropped (`NoteInv`); what the command concludes from (`EndInv`).
- `DatasourceProofs`, of `TraceDecode`: an answer and the destination agree (`AnswerInv`), whence `DecodeIsAtomic`; and the
  four clocks a decoder remembers are enough to judge all it has read (`ClockInv`): it is finished, or
  refused for its clocks, as the whole trace deserves (`ClocksJudged`). `DecodedFaithfully` adds the rows
  (`StagedInv`): file and buffer of a relation together are the rows that `RowsAre` gives for the records
  read so far, and the next id, where rows have one, is their number. A new record is the last of the trace,
  so that the rank of an old item stays and those of the new ones follow; where ids run out the decoder ends
  and nothing is published. The facts of the text header follow its lines (`HeaderInv`), and closing
  leaves each file what was staged (`FilesInv`).
  Of `RelationalPlan`: the set of validated messages is closed under fields and nothing in it is on
  the way being validated, so that every root that gets as far as a relation is `Supported`, and no way through it
  is longer than there are messages (`VisitedInv`, `ClosureInv`, `SupportedInv`). The memo says whether a
  message is `Spread` but for the messages being asked about, where "no" is premature; none of those is
  met again, since all that is asked about is supported (`MemoInv`, `AskingInv`). So a field is planned as a
  relation or as a column exactly as its graph demands. Each call of the planner stands at the end of the way that the
  calls below it have gone, for a place of that way (`CallsInv`). The ways that lie behind the stack of calls,
  or end in it, are `Seen`: relations and columns are exactly those of the places and ways seen, names
  differ and are legal (`RelationsInv`, `ColumnsInv`). Each action moves one way from the unseen to the
  seen, or refuses for a reason that makes the schema not `Acceptable`; when the stack is empty everything is
  seen, which is `PlanIsFaithful`.
- `CommandsProofs` has one invariant for each of its five modules.
  `RuntimeCommand`: what the Runtime and its directory may be at a step, what a verdict implies of the
  Response, of the file and its guard, of the log, and of the reply (`RuntimeInv`, `VerdictInv`, `FileInv`,
  `LogInv`, `ReplyInv`).
  `RunFacts`: automaton and segments accept the same names, of any length (`NamesAgree`; both say that a
  name begins with a letter, has nothing but letters, digits and single underscores, and does not end with
  one). Then `FactsInv` follows the Outputs from step to step.
  `ProductionPack`: no two entries that were inspected have one name, and what is loaded is the only one of
  the name asked for (`ReadInv`); as long as nothing was edited, what was inspected is what there is
  (`AsItWas`), which decides when the operation must succeed.
  `PackDiscovery`: a directory in reach is taken or lies ahead in `todo`, nothing out of reach is ever
  there, and the PACKs found are those of the directories taken, with one name each (`SearchInv`,
  `FoundInv`). The order of `todo` does not occur in it.
  `TextProjection`: some place of the text lies between two characters (`Settled`), the projection holds
  the bytes after it, and log, warning and held carriage return are what the text up to it shows
  (`FollowsAt`); a `Round` moves the place by one character, which what arrives later does not change
  (`UptoSame`), and when no round helps at most two bytes wait (`Waits`).

What the theorems assume of the constants are the named `ASSUME`s: that markers such as `NoRun`, `NoId` or
`Nowhere` are none of the things they stand beside, that bounds are numbers and buffers, queues and pipes
have room for one element, that kinds of commands, bytes and enum origins are those the modules treat, that other
kinds of events than those decoded do not have the name of a relation, that an underscore is neither letter
nor digit, that a Workflow returns Outputs by name, and that a PACK layout leads to directories, that messages are finitely
many and each root of a plan is one of them.

Where a proof needs an induction (along a text, a trace, or the rounds of `Decode`), it takes the least
number for which the claim fails and refutes it, for the theorems of the library that take a predicate as
parameter cannot be instantiated by the installed provers.

Only model-checked. Liveness, which is out of the prover's reach: `DeletionAnswers`,
`RetriedDeletionCompletes`, `TreesEnd`, `EveryCallReturns`, `ExchangeEnds`, `OwnerReturns`,
`TestConcludes`. And `RowsTellThePayload`: an emitter recurs along a payload that may be nested as deep as
its schema, which is written with a `RECURSIVE` operator, and about those nothing can be proved; what the
emitter relies on, that its plan is the right one, is. Every other property that a passing run checks is a theorem.

## 5. Not modelled

The configuration file, build scripts and release tooling keep no state across steps. Documentation and
skills are text; decisions in `docs/adr` are quoted where a property follows one. Within the parts that
are modelled: the syntax and validation of manifests and requests, SQL, the fields of trace records and
their Parquet schemas, ANSI sequences, parameters and Providers of a PACK, argument parsing and the
wording of diagnostics. An orphaned Runtime of a killed Host, a mutex poisoned by a panic, and a second
interrupt inside a clean-up are named where they matter and stay outside. `PROJECT.json` says for each
component what is left out of it.

## 6. Plan

1. Done: the twenty-three modules of section 2 and the eight modules of proofs. Every safety property of a
   passing run is proved, `RowsTellThePayload` apart, and so are three refinements.
2. Next proofs: `RelationalRows` with the emitters as a machine over a payload, as `RelationalPlan` is one
   over a schema, so that rows can be followed from step to step.
3. Next modules: answers of a wrong kind on the control channel; inspection of Providers and their
   parameters; `report_tree`; the field validation of a manifest beside that of names.
