-------------------------- MODULE TextFtraceDecode --------------------------
(***************************************************************************)
(* decode_text_ftrace: a header in comment lines, then one event per line. *)
(* Events of known kinds become rows, others are reported: text_ftrace/.   *)
(***************************************************************************)
EXTENDS DecodeOutput

CONSTANTS
  Kinds,       \* kinds of events with a relation of their own
  OtherKinds,  \* kinds of events without
  MaxLines     \* events in a trace of an instance

ASSUME KindsAssumption ==
  Kinds \cap (OtherKinds \cup {"text_ftrace_event_occurrence", "text_ftrace_event",
                              "text_ftrace_header", "text_ftrace_unsupported_event"}) = {}

VARIABLES
  header,  \* HeaderParser
  lines    \* the header lines it has taken, in order

textVars == <<header, lines>>

-----------------------------------------------------------------------------
(* Lines.  Blank lines, the buffer statistics and comments of no known form *)
(* change nothing at any place and are left out.                            *)

Legends == 0..5
LegendLine(n) == [is |-> "legend", legend |-> n]
Tracer == [is |-> "tracer"]
Columns(tgid) == [is |-> "columns", tgid |-> tgid]
HeaderLines == {Tracer} \cup {LegendLine(n) : n \in Legends} \cup {Columns(b) : b \in BOOLEAN}

\* An event names the process of its thread or does not.
Events == [kind : Kinds \cup OtherKinds, tgid : BOOLEAN]

TextJoined == Kinds \cup {"text_ftrace_event_occurrence", "text_ftrace_event"}
TextRelations == TextJoined \cup {"text_ftrace_header", "text_ftrace_unsupported_event"}

-----------------------------------------------------------------------------
(* The header. *)

NoHeader == [tracer |-> FALSE, legends |-> 0, columns |-> FALSE, tgid |-> FALSE]

\* The legends come in their order; the last but one may be missing.
Expected(h, n) ==
  \/ h.legends <= 5 /\ n = h.legends
  \/ h.legends = 4 /\ n = 5

\* HeaderParser::consume: whether the line may come now, and what it leaves.
Takes(h, l) ==
  CASE l.is = "tracer" -> ~h.tracer /\ h.legends = 0 /\ ~h.columns
    [] l.is = "legend" -> h.tracer /\ Expected(h, l.legend)
    [] OTHER -> ~h.columns /\ h.legends = 6

Taken(h, l) ==
  CASE l.is = "tracer" -> [h EXCEPT !.tracer = TRUE]
    [] l.is = "legend" -> [h EXCEPT !.legends = l.legend + 1]
    [] OTHER -> [h EXCEPT !.columns = TRUE, !.tgid = l.tgid]

\* HeaderParser::finish
Complete(h) == h.tracer /\ h.legends = 6 /\ h.columns

\* is_structured_header_line: lines that may not follow an event.
Structured(l) == l.is \in {"tracer", "columns"} \/ l = LegendLine(0)

-----------------------------------------------------------------------------
(* Rows. *)

\* take_next: MaxId is never given.
TakeNext(o, r) == [o EXCEPT !.ok = @ /\ o.next[r] < MaxId, !.next[r] = @ + 1]

\* OutputTables::push: an occurrence with the place of the event in the trace,
\* the event, its payload.
PushEvent(o, e) ==
  LET of == Len(source) + 1
      root == o.next["text_ftrace_event"]
      o1 == TakeNext(o, "text_ftrace_event")
      o2 == Push(o1, "text_ftrace_event_occurrence", Row(root, NoId, of), FALSE)
      o3 == Push(o2, "text_ftrace_event", Row(root, root, of), FALSE)
      o4 == TakeNext(o3, e.kind)
  IN Push(o4, e.kind, Row(o.next[e.kind], root, of), FALSE)

-----------------------------------------------------------------------------

TextInit == header = NoHeader /\ lines = <<>>

\* A comment line before the first event.
ReadHeader(l) ==
  /\ step = "lines" /\ source = <<>>
  /\ lines' = Append(lines, l)
  /\ IF Takes(header, l)
     THEN header' = Taken(header, l) /\ UNCHANGED <<step, outputVars, why, answer>>
     ELSE Fail("header") /\ UNCHANGED header
  /\ UNCHANGED <<source, out, report>>

\* A comment line after it.
ReadLateHeader(l) ==
  /\ step = "lines" /\ source # <<>> /\ Structured(l)
  /\ Fail("late")
  /\ UNCHANGED <<source, out, report, textVars>>

\* A line that is too long or no UTF-8.
BadLine ==
  /\ step = "lines"
  /\ Fail("malformed")
  /\ UNCHANGED <<source, out, report, textVars>>

\* An event with a field that does not parse, after a complete header.
BadEvent ==
  /\ step = "lines" /\ Complete(header)
  /\ Fail("event")
  /\ UNCHANGED <<source, out, report, textVars>>

\* parse_emitter: a thread is followed by its process as the columns say.
Parses(e) == e.tgid = header.tgid

\* The header is closed by the first event; the columns say whether threads are
\* followed by their process.
ReadEvent(e) ==
  LET pushed == PushEvent(out, e)
  IN /\ step = "lines" /\ Len(source) < MaxLines
     /\ IF ~Complete(header)
        THEN Fail("header") /\ UNCHANGED <<source, out, report>>
        ELSE IF ~Parses(e)
        THEN Fail("event") /\ UNCHANGED <<source, out, report>>
        ELSE IF e.kind \in OtherKinds
        THEN /\ report' = [report EXCEPT !.events = @ \cup {e.kind}]
             /\ source' = Append(source, e)
             /\ UNCHANGED <<step, out, outputVars, why, answer>>
        ELSE IF ~pushed.ok
        THEN Fail("ids") /\ UNCHANGED <<source, out, report>>
        ELSE /\ out' = pushed /\ source' = Append(source, e)
             /\ UNCHANGED <<step, outputVars, report, why, answer>>
     /\ UNCHANGED textVars

\* The names of the other events, in their order, then the header, then the rest
\* of every relation.
Tabled(o) ==
  LET o1 == IF report.events = {} THEN o
            ELSE Fill(o, "text_ftrace_unsupported_event", Listed(report.events))
      o2 == Whole(o1, "text_ftrace_header", <<Row(NoId, NoId, header.tgid)>>)
  IN CloseAll(o2, o2.begun \ {"text_ftrace_header"})

\* The end of the trace, OutputTables::finish and the validation.  The
\* destination is not looked at again.
FinishText ==
  /\ step = "lines"
  /\ LET tabled == Tabled(out)
     IN IF ~Complete(header)
        THEN Fail("header") /\ UNCHANGED out
        ELSE IF source = <<>>
        THEN Fail("empty") /\ UNCHANGED out
        ELSE /\ out' = tabled
             /\ IF tabled.ok /\ tabled.begun = tabled.closed
                THEN step' = "publish" /\ UNCHANGED <<outputVars, why, answer>>
                ELSE Fail("invalid")
  /\ UNCHANGED <<source, report, textVars>>

TextStep ==
  \/ Stage("lines") /\ UNCHANGED textVars
  \/ \E l \in HeaderLines : ReadHeader(l) \/ ReadLateHeader(l)
  \/ \E e \in Events : ReadEvent(e)
  \/ BadLine \/ BadEvent \/ FinishText

-----------------------------------------------------------------------------
(* What a trace means, said of the whole trace at once. *)

\* The headers there are: a tracer, the legends without or with the fifth, and
\* the columns.
Headers ==
  {<<Tracer, LegendLine(0), LegendLine(1), LegendLine(2), LegendLine(3), LegendLine(5), Columns(b)>> :
     b \in BOOLEAN}
  \cup
  {<<Tracer, LegendLine(0), LegendLine(1), LegendLine(2), LegendLine(3), LegendLine(4), LegendLine(5),
     Columns(b)>> : b \in BOOLEAN}

\* How many rows an event has in the relation r, and the relation whose rows those
\* belong to.
TextRowCount(e, r) ==
  IF e.kind \in Kinds /\ r \in {"text_ftrace_event_occurrence", "text_ftrace_event", e.kind}
  THEN 1 ELSE 0

TextAbove(r) == IF r = "text_ftrace_event_occurrence" THEN "none" ELSE "text_ftrace_event"

OtherEvents == {source[i].kind : i \in 1..Len(source)} \cap OtherKinds
=============================================================================
