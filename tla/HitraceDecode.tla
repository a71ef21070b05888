---------------------------- MODULE HitraceDecode ----------------------------
(***************************************************************************)
(* decode_hitrace: sections of length-prefixed frames, each of them an     *)
(* envelope with the payload of a profiler plugin.  Payloads of known      *)
(* plugins become rows; their clocks must agree; what is unknown is        *)
(* reported: hitrace_decode.rs, formats/hitrace, protobuf_source.          *)
(***************************************************************************)
EXTENDS DecodeOutput

CONSTANTS
  Clocks,        \* clocks a native hook configuration may name
  NoClock,       \* also a clock name that is not known
  Plugins,       \* plugins nobody claims
  SectionTypes,  \* section types other than protobuf
  EnumOrigins,   \* relations with enum columns
  EventCounts,   \* how many events a payload may have
  MaxFrames, MaxSections  \* bounds of the traces of an instance

ASSUME NoClockAssumption == NoClock \notin Clocks
ASSUME EventCountsAssumption == EventCounts \subseteq Nat
ASSUME EnumOriginsAssumption ==
  EnumOrigins \subseteq {"data", "config", "ftrace_data", "ftrace_config", "event", "occurrence"}

VARIABLES
  clocks,    \* NativeHookClockAdmission
  facts,     \* clock facts of the file header
  sections   \* sections begun so far

hitraceVars == <<clocks, facts, sections>>

-----------------------------------------------------------------------------
(* Envelopes. *)

Data == [route : {"data"}, events : EventCounts, clock : Clocks]
Config == [route : {"config"}, clock : Clocks \cup {NoClock}]
Ftrace == [route : {"ftrace_data", "ftrace_config"}]
Unclaimed == [route : {"none"}, plugin : Plugins, config : BOOLEAN]
Envelopes == Data \cup Config \cup Ftrace \cup Unclaimed

Claims(m) == m.route # "none"
Roots == {"data", "config", "ftrace_data", "ftrace_config"}
HitraceJoined == Roots \cup {"event", "occurrence"}
HitraceRelations ==
  HitraceJoined \cup {"protobuf_enum_symbol", "clock_domain", "clock_snapshot"}

-----------------------------------------------------------------------------
(* Rows. *)

\* allocate_row_id: MaxId is still given, and nothing after it.
Allocate(o, r) == [o EXCEPT !.ok = @ /\ o.next[r] <= MaxId, !.next[r] = @ + 1]

\* The repeated values of a payload.
Repeated(m) == IF m.route = "data" THEN m.events ELSE 0

\* The generated emitter of a root: its row, and the repeated rows that belong
\* to it.
EmitEvent(o, parent, of, early) ==
  Push(Allocate(o, "event"), "event", Row(o.next["event"], parent, of), early)

EmitRoot(o, m, parent, early) ==
  LET of == Len(source) + 1
      id == o.next[m.route]
      root == Push(Allocate(o, m.route), m.route, Row(id, parent, of), early)
      after[i \in 0..Repeated(m)] == IF i = 0 THEN root ELSE EmitEvent(after[i - 1], id, of, early)
  IN after[Repeated(m)]

\* append_bound_payload: the occurrence of the payload, and its root.
Emit(o, m, early) ==
  LET id == o.next["occurrence"]
      row == Row(id, NoId, Len(source) + 1)
  IN EmitRoot(Push(Allocate(o, "occurrence"), "occurrence", row, early), m, id, early)

-----------------------------------------------------------------------------
(* Clocks.  The first value is kept, and the first that differs from it.    *)

NoClocks ==
  [requires |-> FALSE, config |-> NoClock, otherConfig |-> NoClock, unknown |-> FALSE,
   envelope |-> NoClock, otherEnvelope |-> NoClock]

\* Mutation of Remember: only the latest value is kept.
RememberLatest(pair, seen) == <<seen, pair[2]>>

\* remember_first_difference
Remember(pair, seen) ==
  IF pair[1] = NoClock THEN <<seen, pair[2]>>
  ELSE IF pair[1] # seen /\ pair[2] = NoClock THEN <<pair[1], seen>>
  ELSE pair

ObserveBatch(c, m) ==
  LET pair == Remember(<<c.envelope, c.otherEnvelope>>, m.clock)
  IN IF m.events = 0 THEN c
     ELSE [c EXCEPT !.requires = TRUE, !.envelope = pair[1], !.otherEnvelope = pair[2]]

ObserveConfig(c, m) ==
  LET pair == Remember(<<c.config, c.otherConfig>>, m.clock)
  IN IF m.clock = NoClock THEN [c EXCEPT !.unknown = TRUE]
     ELSE [c EXCEPT !.config = pair[1], !.otherConfig = pair[2]]

Observe(c, m) ==
  CASE m.route = "data" -> ObserveBatch(c, m)
    [] m.route = "config" -> ObserveConfig(c, m)
    [] OTHER -> c

\* NativeHookClockAdmission::validate
Admitted(c) ==
  c.requires =>
    /\ ~c.unknown
    /\ c.config # NoClock /\ c.otherConfig = NoClock
    /\ c.envelope \in {NoClock, c.config} /\ c.otherEnvelope \in {NoClock, c.config}

-----------------------------------------------------------------------------

HitraceInit ==
  /\ clocks = NoClocks /\ facts = 0 /\ sections = 0

\* The magic or the length of a section is wrong.
BadSection ==
  /\ step = "section"
  /\ Fail("malformed")
  /\ UNCHANGED <<source, out, report, hitraceVars>>

\* The header of the first section holds the clock facts, whatever its type.
HeaderFacts == IF sections = 0 THEN facts + 1 ELSE facts

\* The next section is skipped for its type, or its frames follow.
ReadSection ==
  /\ step = "section" /\ sections < MaxSections
  /\ sections' = sections + 1
  /\ facts' = HeaderFacts
  /\ \/ step' = "frame" /\ UNCHANGED report
     \/ \E t \in SectionTypes :
          report' = [report EXCEPT !.sections = @ \cup {t}] /\ UNCHANGED step
  /\ UNCHANGED <<source, out, outputVars, clocks, why, answer>>

\* A frame that is cut off, no envelope, or with a payload that does not decode.
BadFrame ==
  /\ step = "frame"
  /\ Fail("malformed")
  /\ UNCHANGED <<source, out, report, hitraceVars>>

\* try_claim, and the note of a plugin that is not known.  A configuration is
\* noted under the name of its plugin.
ReadFrame(m, early) ==
  LET emitted == Emit(out, m, early)
  IN /\ step = "frame" /\ Len(source) < MaxFrames
     /\ IF ~Claims(m)
        THEN /\ report' = [report EXCEPT !.plugins = @ \cup {m.plugin}]
             /\ source' = Append(source, m)
             /\ UNCHANGED <<step, out, outputVars, why, answer, hitraceVars>>
        ELSE IF ~emitted.ok
        THEN Fail("ids") /\ UNCHANGED <<source, out, report, hitraceVars>>
        ELSE /\ out' = emitted
             /\ clocks' = Observe(clocks, m)
             /\ source' = Append(source, m)
             /\ UNCHANGED <<step, outputVars, report, why, answer, facts, sections>>

EndSection ==
  /\ step = "frame" /\ step' = "section"
  /\ UNCHANGED <<source, out, outputVars, report, why, answer, hitraceVars>>

\* collect_enum_definitions: the symbols of the relations that have rows.
SymbolRows(o) == Listed(EnumOrigins \cap o.begun)

\* SourceRelationCapture::finish
Finished(o) ==
  LET closed == CloseAll(o, o.begun)
  IN IF SymbolRows(o) = <<>> THEN closed ELSE Whole(closed, "protobuf_enum_symbol", SymbolRows(o))

\* write_clock_relations
WithClocks(o) ==
  LET rows == [i \in 1..facts |-> Row(NoId, NoId, 0)]
  IN Whole(Whole(o, "clock_domain", rows), "clock_snapshot", rows)

\* The trace is at its end.  The clocks are judged before anything is finished.
FinishCapture ==
  /\ step = "section" /\ sections > 0
  /\ IF ~Admitted(clocks)
     THEN Fail("clocks") /\ UNCHANGED <<source, out, report>>
     ELSE /\ out' = WithClocks(Finished(out))
          /\ step' = "validate"
          /\ UNCHANGED <<source, outputVars, report, why, answer>>
  /\ UNCHANGED hitraceVars

\* The relations are reopened, and the destination is looked at once more.
Validate ==
  /\ step = "validate"
  /\ IF destination # "absent" \/ ~Sound \/ ~out.ok
     THEN Fail("invalid")
     ELSE step' = "publish" /\ UNCHANGED <<outputVars, why, answer>>
  /\ UNCHANGED <<source, out, report, hitraceVars>>

HitraceStep ==
  \/ Stage("section") /\ UNCHANGED hitraceVars
  \/ BadSection \/ ReadSection \/ BadFrame \/ EndSection
  \/ \E m \in Envelopes, early \in BOOLEAN : ReadFrame(m, early)
  \/ FinishCapture \/ Validate

-----------------------------------------------------------------------------
(* What a trace means, said of the whole trace at once.                     *)

\* The clocks of a trace agree: if there are events, all configurations name
\* one known clock, there is one, and every envelope with events uses it.
ClocksAgree ==
  LET named == {source[i].clock : i \in {j \in 1..Len(source) : source[j].route = "config"}}
      used == {source[i].clock : i \in {j \in 1..Len(source) :
                                          source[j].route = "data" /\ source[j].events > 0}}
  IN used # {} => \E c \in Clocks : named = {c} /\ used = {c}

\* How many rows a record has in the relation r, and the relation whose rows those
\* belong to.
HitraceRowCount(m, r) ==
  CASE r = "occurrence" -> IF Claims(m) THEN 1 ELSE 0
    [] r \in Roots -> IF m.route = r THEN 1 ELSE 0
    [] r = "event" -> Repeated(m)
    [] OTHER -> 0

HitraceAbove(r) ==
  CASE r \in Roots -> "occurrence" [] r = "event" -> "data" [] OTHER -> "none"

HitracePlugins == {source[i].plugin : i \in {j \in 1..Len(source) : ~Claims(source[j])}}
=============================================================================
