---------------------------- MODULE DecodeOutput ----------------------------
(***************************************************************************)
(* What the two trace decoders of the datasource library share: Parquet    *)
(* relations that are written in a private staging directory, and their    *)
(* publication as one directory, which never replaces another one:         *)
(* relation_writer.rs, buffered_relation.rs, text_ftrace/writer.rs,        *)
(* directory_publish.rs.                                                   *)
(***************************************************************************)
EXTENDS Integers, Sequences, SequencesExt, FiniteSets

CONSTANTS
  MaxId,       \* stands for 2^64 - 1, the largest row id
  BatchRows    \* rows a relation buffers before it writes them

ASSUME BoundsAssumption == MaxId \in Nat /\ BatchRows \in Nat \ {0}

VARIABLES
  step,         \* progress of the decoder
  source,       \* the records it has read, in the order of the trace
  out,          \* the relations in its staging directory
  staging,      \* that directory
  destination,  \* the directory it is asked for
  report,       \* what it could not decode
  why,          \* the cause of a failure that a property tells apart
  answer

outputVars == <<staging, destination>>

\* A row of a relation: its own id, the row it belongs to, and the record of the
\* trace it comes from.
NoId == -1
Row(id, parent, of) == [id |-> id, parent |-> parent, of |-> of]

\* A row for each member of S, in an order of theirs.
Listed(S) ==
  LET members == SetToSeq(S)
  IN [i \in 1..Cardinality(S) |-> Row(NoId, NoId, members[i])]

-----------------------------------------------------------------------------
(* The relations of a staging directory.  begun: files that exist; closed:  *)
(* files with a footer; next: the next row id, MaxId + 1 when there is none *)
(* left; ok: no call has failed.                                            *)

NewOutput(names) ==
  [begun |-> {}, closed |-> {}, ok |-> TRUE,
   buffer |-> [r \in names |-> <<>>], file |-> [r \in names |-> <<>>],
   next |-> [r \in names |-> 0]]

\* RelationWriter::begin: no relation is begun twice.
Begin(o, r) == [o EXCEPT !.begun = @ \cup {r}, !.ok = @ /\ r \notin o.begun]

\* The relation of a slot is begun with its first row.
Activate(o, r) == IF r \in o.begun THEN o ELSE Begin(o, r)

Flush(o, r) == [o EXCEPT !.file[r] = @ \o o.buffer[r], !.buffer[r] = <<>>]

\* finish: the rest is written, then the footer.
Close(o, r) == [Flush(o, r) EXCEPT !.closed = @ \cup {r}]

\* A row is buffered; full buffers are written.  early stands for the estimate
\* of bytes, which may find the buffer full at any row.
Push(o, r, row, early) ==
  LET active == Activate(o, r)
      pushed == [active EXCEPT !.buffer[r] = Append(@, row)]
  IN IF early \/ Len(pushed.buffer[r]) >= BatchRows THEN Flush(pushed, r) ELSE pushed

\* A relation with its only rows, as the decoders write them at the end.
Fill(o, r, rows) == [Begin(o, r) EXCEPT !.buffer[r] = rows]
Whole(o, r, rows) == Close(Fill(o, r, rows), r)

\* The rest of the relations rs, one after the other.
CloseAll(o, rs) ==
  [o EXCEPT !.file = [r \in DOMAIN @ |-> IF r \in rs THEN @[r] \o o.buffer[r] ELSE @[r]],
            !.buffer = [r \in DOMAIN @ |-> IF r \in rs THEN <<>> ELSE @[r]],
            !.closed = @ \cup rs]

-----------------------------------------------------------------------------
(* The directory.                                                           *)

OutputInit ==
  /\ step = "new" /\ source = <<>>
  /\ staging = "none" /\ destination = "absent"
  /\ why = "none" /\ answer = "none"

\* TempDir is dropped with every other local variable; a removal that fails is
\* ignored, and leaves what it could not remove.
Fail(cause) ==
  /\ step' = "over" /\ answer' = "failure" /\ why' = cause
  /\ staging' \in IF staging = "private" THEN {"removed", "stuck"} ELSE {staging}
  /\ UNCHANGED destination

\* Every call on the file system may fail.
Broken ==
  /\ step # "over"
  /\ Fail("io")
  /\ UNCHANGED <<source, out, report>>

\* ensure_destination_absent, then a staging directory beside the destination.
Stage(next) ==
  /\ step = "new"
  /\ IF destination # "absent"
     THEN Fail("exists") /\ UNCHANGED <<source, out, report>>
     ELSE /\ staging' = "private" /\ step' = next
          /\ UNCHANGED <<source, out, destination, report, why, answer>>

\* RelationWriter::validate reopens every relation that was begun.
Sound == out.begun = out.closed

\* Mutation of Publish: the rename replaces what is there.
PublishOver ==
  /\ step = "publish"
  /\ destination' = "ours" /\ staging' = "moved"
  /\ step' = "over" /\ answer' = "success" /\ UNCHANGED <<source, out, report, why>>

\* publish_directory_no_replace: one rename that fails if anything is there.
Publish ==
  /\ step = "publish"
  /\ IF destination # "absent"
     THEN Fail("exists")
     ELSE /\ destination' = "ours" /\ staging' = "moved"
          /\ step' = "over" /\ answer' = "success" /\ UNCHANGED why
  /\ UNCHANGED <<source, out, report>>

\* Another process, or another decoder, makes the destination.
Rival ==
  /\ destination = "absent" /\ destination' = "rival"
  /\ UNCHANGED <<step, source, out, staging, report, why, answer>>

\* The process is killed, and its staging directory stays where it is.
Kill ==
  /\ step # "over" /\ step' = "over"
  /\ UNCHANGED <<source, out, outputVars, report, why, answer>>
=============================================================================
