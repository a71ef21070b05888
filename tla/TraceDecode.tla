----------------------------- MODULE TraceDecode -----------------------------
(***************************************************************************)
(* One run of one of the two decoders, beside other processes that want    *)
(* the same destination.                                                   *)
(***************************************************************************)
EXTENDS HitraceDecode, TextFtraceDecode

VARIABLE format  \* of the trace, "hitrace" or "text"

vars == <<format, step, source, out, outputVars, report, why, answer, hitraceVars, textVars>>

Names == IF format = "hitrace" THEN HitraceRelations ELSE TextRelations

NoReport == [sections |-> {}, plugins |-> {}, events |-> {}]

TypeOK ==
  /\ format \in {"hitrace", "text"}
  /\ step \in {"new", "section", "frame", "lines", "validate", "publish", "over"}
  /\ \A i \in 1..Len(source) : source[i] \in IF format = "hitrace" THEN Envelopes ELSE Events
  /\ out.closed \subseteq out.begun /\ out.begun \subseteq Names /\ out.ok
  /\ \A r \in Names : out.next[r] \in 0..MaxId + 1 /\ Len(out.buffer[r]) < BatchRows
  /\ staging \in {"none", "private", "moved", "removed", "stuck"}
  /\ destination \in {"absent", "ours", "rival"}
  /\ report \in [sections : SUBSET SectionTypes, plugins : SUBSET Plugins, events : SUBSET OtherKinds]
  /\ answer \in {"none", "success", "failure"}

Init ==
  /\ OutputInit /\ HitraceInit /\ TextInit
  /\ format \in {"hitrace", "text"}
  /\ out = NewOutput(Names)
  /\ report = NoReport

Next ==
  \/ format = "hitrace" /\ HitraceStep /\ UNCHANGED <<format, textVars>>
  \/ format = "text" /\ TextStep /\ UNCHANGED <<format, hitraceVars>>
  \/ (Publish \/ Broken \/ Rival \/ Kill) /\ UNCHANGED <<format, hitraceVars, textVars>>

Spec == Init /\ [][Next]_vars

-----------------------------------------------------------------------------
(* Properties. *)

\* The rows that the records of the trace have in the relation r, each of them the
\* place of its record and its number there.
RowCount(m, r) == IF format = "hitrace" THEN HitraceRowCount(m, r) ELSE TextRowCount(m, r)
Items(r) == UNION {{p} \X (1..RowCount(source[p], r)) : p \in 1..Len(source)}

\* They are numbered in the order of the trace.
Before(x, y) == x[1] < y[1] \/ (x[1] = y[1] /\ x[2] < y[2])
Rank(r, x) == Cardinality({y \in Items(r) : Before(y, x)})

\* A row is joined to the row of its own record one level up.
Above(r) == IF format = "hitrace" THEN HitraceAbove(r) ELSE TextAbove(r)
Parent(r, x) == IF Above(r) = "none" THEN NoId ELSE Rank(Above(r), <<x[1], 1>>)

RowsAre(r, rows) ==
  /\ Len(rows) = Cardinality(Items(r))
  /\ \A x \in Items(r) : rows[Rank(r, x) + 1] = Row(Rank(r, x), Parent(r, x), x[1])

\* The relations with such rows, and the rows of the others.
Joined == IF format = "hitrace" THEN HitraceJoined ELSE TextJoined
OtherRows(r) ==
  CASE r = "protobuf_enum_symbol" -> Listed({e \in EnumOrigins : Items(e) # {}})
    [] r = "text_ftrace_header" -> <<Row(NoId, NoId, lines[Len(lines)].tgid)>>
    [] r = "text_ftrace_unsupported_event" -> Listed(OtherEvents)
    [] OTHER -> <<Row(NoId, NoId, 0)>>

\* The files are what the trace says.
FilesAreRight ==
  /\ out.closed = {r \in Names : out.file[r] # <<>>}
  /\ \A r \in Names : IF r \in Joined THEN RowsAre(r, out.file[r]) ELSE out.file[r] = OtherRows(r)

\* What is published is what the trace says, whatever was buffered when: every
\* relation has a row for each record that belongs to it, ids are dense, rows
\* are joined to the row of their own record, empty relations are absent and the
\* others have their footer; and the report names what has no rows.
PublishedIsWhatWasRead ==
  destination = "ours" =>
    /\ FilesAreRight
    /\ format = "hitrace" => ClocksAgree /\ report.plugins = HitracePlugins
    /\ format = "text" => lines \in Headers /\ report.events = OtherEvents

\* A trace is refused for its clocks or for its header only if they are at
\* fault, in whichever order their parts come.
RefusalsAreJust ==
  /\ why = "clocks" => ~ClocksAgree
  /\ why = "header" => lines \notin Headers

\* The decoders are faithful to the trace.
DecodeIsFaithful == PublishedIsWhatWasRead /\ RefusalsAreJust

\* A destination appears whole and is never replaced.  A decoder that reports
\* success has published, one that reports failure has published nothing and
\* keeps no staging directory: it has removed it, or has tried to and failed.
DecodeIsAtomic ==
  /\ [](answer = "success" => destination = "ours" /\ staging = "moved")
  /\ [](answer = "failure" => destination # "ours" /\ staging # "private")
  /\ [](destination = "ours" => answer = "success")
  /\ [][/\ destination # "absent" => UNCHANGED destination
        /\ destination = "ours" => UNCHANGED out]_vars
=============================================================================
