--------------------------- MODULE DatasourceProofs ---------------------------
(***************************************************************************)
(* Theorems about the datasource library.  The trace decoders, for traces  *)
(* of any length, any row ids, batches, clocks and kinds of events: their  *)
(* publication is atomic; what the Hitrace decoder remembers of the clocks *)
(* while it reads (two of each sort, however many there are) is as good as *)
(* looking at the whole trace; and the relations that are published have   *)
(* exactly the rows that the records of the trace have, with dense ids in  *)
(* the order of the trace and joined to the rows of their own record,      *)
(* however they were buffered.  The plan that makes relations of protobuf  *)
(* messages, for any messages and roots: it is refused exactly if there is *)
(* a reason, and otherwise has a relation for each place of the graph of   *)
(* messages, a column for each field of it, and nothing else.              *)
(***************************************************************************)
EXTENDS TraceDecode, RelationalPlan,
        SequenceTheorems, FiniteSetTheorems, NaturalsInduction, WellFoundedInduction, TLAPS

(* The directory. *)

\* What an answer says of the directory.
AnswerInv ==
  /\ answer \in {"none", "success", "failure"}
  /\ answer # "none" => step = "over"
  /\ answer = "success" <=> destination = "ours"
  /\ answer = "success" => staging = "moved"
  /\ answer = "failure" => staging # "private"

\* Each step of a decoder that goes on leaves the destination alone; the others
\* are failures, publications, a rival or a kill.
LEMMA DirectorySteps ==
  ASSUME Next
  PROVE  \/ /\ step # "over" /\ UNCHANGED <<destination, answer>>
            /\ staging' = staging \/ staging' = "private"
         \/ \E cause \in {"io", "exists", "malformed", "ids", "clocks", "invalid", "header", "late",
                          "event", "empty"} : step # "over" /\ Fail(cause)
         \/ /\ step = "publish" /\ destination = "absent" /\ destination' = "ours"
            /\ staging' = "moved" /\ step' = "over" /\ answer' = "success"
         \/ destination = "absent" /\ destination' = "rival" /\ UNCHANGED <<step, out, staging, answer>>
<1> USE DEF outputVars, hitraceVars, textVars
<1>1. CASE HitraceStep
  <2>1. CASE Stage("section")
    BY <2>1 DEF Stage
  <2>2. CASE BadSection \/ ReadSection \/ BadFrame \/ EndSection
    BY <2>2 DEF BadSection, ReadSection, BadFrame, EndSection
  <2>3. ASSUME NEW m \in Envelopes, NEW early \in BOOLEAN, ReadFrame(m, early)
        PROVE  step # "over" /\ (Fail("ids") \/ UNCHANGED <<staging, destination, answer>>)
    BY <2>3 DEF ReadFrame
  <2>4. CASE FinishCapture \/ Validate
    BY <2>4 DEF FinishCapture, Validate
  <2> QED
    BY <1>1, <2>1, <2>2, <2>3, <2>4 DEF HitraceStep
<1>2. CASE TextStep
  <2>1. CASE Stage("lines")
    BY <2>1 DEF Stage
  <2>2. ASSUME NEW l \in HeaderLines, ReadHeader(l) \/ ReadLateHeader(l)
        PROVE  step # "over" /\ (Fail("header") \/ Fail("late") \/ UNCHANGED <<staging, destination, answer>>)
    BY <2>2 DEF ReadHeader, ReadLateHeader
  <2>3. ASSUME NEW e \in Events, ReadEvent(e)
        PROVE  \/ step # "over" /\ UNCHANGED <<staging, destination, answer>>
               \/ step # "over" /\ (Fail("header") \/ Fail("event") \/ Fail("ids"))
    BY <2>3 DEF ReadEvent
  <2>4. CASE BadLine \/ BadEvent
    BY <2>4 DEF BadLine, BadEvent
  <2>5. CASE FinishText
    BY <2>5 DEF FinishText
  <2> QED
    BY <1>2, <2>1, <2>2, <2>3, <2>4, <2>5 DEF TextStep
<1>3. CASE Publish \/ Broken \/ Rival \/ Kill
  BY <1>3 DEF Publish, Broken, Rival, Kill
<1> QED
  BY <1>1, <1>2, <1>3 DEF Next

LEMMA AnswerStep == AnswerInv /\ [Next]_vars => AnswerInv'
<1> SUFFICES ASSUME AnswerInv, [Next]_vars PROVE AnswerInv'
  OBVIOUS
<1>1. CASE UNCHANGED vars
  BY <1>1 DEF vars, outputVars, AnswerInv
<1>2. CASE Next
  BY <1>2, DirectorySteps DEF AnswerInv, Fail
<1> QED
  BY <1>1, <1>2

\* An answer says what there is, in every state: success only with the directory
\* published, failure only with nothing published and the staging directory
\* removed, or its removal tried in vain.
THEOREM AnswersAreTrue == Spec => []AnswerInv
<1>1. Init => AnswerInv
  BY DEF Init, OutputInit, AnswerInv
<1> QED
  BY <1>1, AnswerStep, PTL DEF Spec

\* A destination appears whole, with the relations as they were validated, and
\* is never replaced; success and failure say what there is.
THEOREM Atomic == Spec => DecodeIsAtomic
<1> DEFINE Kept == /\ destination # "absent" => UNCHANGED destination
                   /\ destination = "ours" => UNCHANGED out
<1>1. AnswerInv => /\ answer = "success" => destination = "ours" /\ staging = "moved"
                   /\ answer = "failure" => destination # "ours" /\ staging # "private"
                   /\ destination = "ours" => answer = "success"
  BY DEF AnswerInv
<1>2. AnswerInv /\ [Next]_vars => [Kept]_vars
  <2> SUFFICES ASSUME AnswerInv, Next PROVE Kept
    BY DEF vars
  <2>1. \/ step # "over" /\ UNCHANGED destination
        \/ destination = "absent"
        \/ step # "over" /\ \E cause \in {"io", "exists", "malformed", "ids", "clocks", "invalid",
                                         "header", "late", "event", "empty"} : Fail(cause)
    BY DirectorySteps
  <2>2. destination # "absent" => step # "over" /\ UNCHANGED destination
    BY <2>1 DEF Fail
  <2> QED
    BY <2>2 DEF AnswerInv
<1> QED
  BY <1>1, <1>2, AnswersAreTrue, PTL DEF Spec, DecodeIsAtomic

-----------------------------------------------------------------------------
(* The clocks of a Hitrace. *)

\* The clocks that configurations have named, and those that envelopes with
\* events have used.
Named == {source[i].clock : i \in {j \in 1..Len(source) : source[j].route = "config"}}
Used ==
  {source[i].clock : i \in {j \in 1..Len(source) : source[j].route = "data" /\ source[j].events > 0}}

\* A pair holds a member of S, and another one if there is one.
Recalls(first, other, S) ==
  /\ S = {} => first = NoClock /\ other = NoClock
  /\ S # {} => first \in S
  /\ S \subseteq {first} => other = NoClock
  /\ ~(S \subseteq {first}) => other \in S \ {first}

\* What the decoder remembers of the clocks in its trace.
ClockInv ==
  format = "hitrace" =>
    /\ source \in Seq(Envelopes)
    /\ clocks.requires \in BOOLEAN /\ clocks.unknown \in BOOLEAN
    /\ clocks \in [requires : BOOLEAN, config : Clocks \cup {NoClock}, otherConfig : Clocks \cup {NoClock},
                   unknown : BOOLEAN, envelope : Clocks \cup {NoClock}, otherEnvelope : Clocks \cup {NoClock}]
    /\ Named \subseteq Clocks \cup {NoClock} /\ Used \subseteq Clocks
    /\ clocks.requires <=> Used # {}
    /\ clocks.unknown <=> NoClock \in Named
    /\ Recalls(clocks.config, clocks.otherConfig, Named \ {NoClock})
    /\ Recalls(clocks.envelope, clocks.otherEnvelope, Used)

\* The plugins without a claim are those that the report names.
PluginInv ==
  /\ report \in [sections : SUBSET SectionTypes, plugins : SUBSET Plugins, events : SUBSET OtherKinds]
  /\ format = "hitrace" => report.plugins = HitracePlugins

\* A capture is finished, or refused for its clocks, as they were found.
VerdictInv ==
  /\ why # "none" => step = "over"
  /\ why = "clocks" => format = "hitrace" /\ ~Admitted(clocks)
  /\ format = "hitrace" /\ (step \in {"validate", "publish"} \/ answer = "success") => Admitted(clocks)

ReadInv == AnswerInv /\ ClockInv /\ PluginInv /\ VerdictInv

LEMMA RememberOne ==
  ASSUME NEW S \in SUBSET Clocks, NEW first, NEW other, Recalls(first, other, S), NEW c \in Clocks
  PROVE  LET pair == Remember(<<first, other>>, c)
         IN /\ Recalls(pair[1], pair[2], S \cup {c})
            /\ pair[1] \in Clocks \cup {NoClock} /\ pair[2] \in Clocks \cup {NoClock}
<1> USE NoClockAssumption DEF Recalls, Remember
<1>1. c # NoClock /\ NoClock \notin S
  OBVIOUS
<1>2. CASE S = {}
  BY <1>1, <1>2
<1>3. CASE S # {} /\ S \subseteq {first}
  BY <1>1, <1>3
<1>4. CASE ~(S \subseteq {first})
  BY <1>1, <1>4
<1> QED
  BY <1>2, <1>3, <1>4

\* The memory of the decoder decides what the whole trace says.
LEMMA MemoryIsEnough ==
  ASSUME ClockInv, format = "hitrace"
  PROVE  Admitted(clocks) <=> ClocksAgree
<1> USE NoClockAssumption
<1>1. ClocksAgree <=> (Used # {} => \E c \in Clocks : Named = {c} /\ Used = {c})
  BY Zenon DEF ClocksAgree, Named, Used
<1>2. CASE Used = {}
  BY <1>1, <1>2 DEF ClockInv, Admitted
<1>3. CASE Used # {}
  <2>1. ASSUME Admitted(clocks) PROVE \E c \in Clocks : Named = {c} /\ Used = {c}
    <3>1. /\ NoClock \notin Named /\ clocks.config # NoClock /\ clocks.otherConfig = NoClock
          /\ clocks.envelope \in {NoClock, clocks.config} /\ clocks.otherEnvelope \in {NoClock, clocks.config}
      BY <1>3, <2>1 DEF ClockInv, Admitted
    <3>2. Named \ {NoClock} = Named /\ Named \subseteq Clocks
      BY <3>1 DEF ClockInv
    <3>3. Named = {clocks.config} /\ clocks.config \in Clocks
      BY <3>1, <3>2 DEF ClockInv, Recalls
    <3>4. clocks.envelope \in Used /\ clocks.envelope = clocks.config
      BY <1>3, <3>1 DEF ClockInv, Recalls
    <3>5. Used = {clocks.config}
      BY <3>1, <3>4 DEF ClockInv, Recalls
    <3> QED
      BY <3>3, <3>5
  <2>2. ASSUME NEW c \in Clocks, Named = {c}, Used = {c} PROVE Admitted(clocks)
    <3>1. Named \ {NoClock} = {c} /\ NoClock \notin Named
      BY <2>2
    <3>2. clocks.config = c /\ clocks.otherConfig = NoClock /\ ~clocks.unknown
      BY <3>1 DEF ClockInv, Recalls
    <3>3. clocks.envelope = c /\ clocks.otherEnvelope = NoClock
      BY <2>2 DEF ClockInv, Recalls
    <3> QED
      BY <3>2, <3>3 DEF Admitted
  <2> QED
    BY <1>1, <1>3, <2>1, <2>2
<1> QED
  BY <1>2, <1>3

\* One more record adds its clock, and its plugin if nobody claims it.
LEMMA OneMore ==
  ASSUME source \in Seq(Envelopes), NEW m \in Envelopes, source' = Append(source, m)
  PROVE  /\ source' \in Seq(Envelopes)
         /\ Named' = Named \cup (IF m.route = "config" THEN {m.clock} ELSE {})
         /\ Used' = Used \cup (IF m.route = "data" /\ m.events > 0 THEN {m.clock} ELSE {})
         /\ HitracePlugins' = HitracePlugins \cup (IF Claims(m) THEN {} ELSE {m.plugin})
<1>1. /\ source' \in Seq(Envelopes) /\ Len(source) \in Nat /\ Len(source') = Len(source) + 1
      /\ \A i \in 1..Len(source) : source'[i] = source[i]
      /\ source'[Len(source) + 1] = m
  OBVIOUS
<1>2. 1..Len(source') = 1..Len(source) \cup {Len(source) + 1}
  BY <1>1
<1>3. Named' = Named \cup (IF m.route = "config" THEN {m.clock} ELSE {})
  BY <1>1, <1>2 DEF Named
<1>4. Used' = Used \cup (IF m.route = "data" /\ m.events > 0 THEN {m.clock} ELSE {})
  BY <1>1, <1>2 DEF Used
<1>5. HitracePlugins' = HitracePlugins \cup (IF Claims(m) THEN {} ELSE {m.plugin})
  BY <1>1, <1>2 DEF HitracePlugins, Claims
<1> QED
  BY <1>1, <1>3, <1>4, <1>5

\* What is said of the trace stays while nothing is read.
LEMMA SameTrace ==
  ASSUME source' = source
  PROVE  Named' = Named /\ Used' = Used /\ HitracePlugins' = HitracePlugins
BY DEF Named, Used, HitracePlugins

\* A frame of the trace.
LEMMA FrameStep ==
  ASSUME ReadInv, format = "hitrace", NEW m \in Envelopes, NEW early \in BOOLEAN,
         ReadFrame(m, early), UNCHANGED format
  PROVE  ClockInv' /\ PluginInv' /\ VerdictInv'
<1> USE NoClockAssumption
<1>0. /\ step = "frame" /\ source \in Seq(Envelopes) /\ answer # "success" /\ why = "none"
  BY DEF ReadFrame, ReadInv, ClockInv, AnswerInv, VerdictInv
<1>1. CASE ~Claims(m)
  <2>1. /\ report' = [report EXCEPT !.plugins = @ \cup {m.plugin}] /\ source' = Append(source, m)
        /\ UNCHANGED <<step, answer, why, clocks>>
    BY <1>1 DEF ReadFrame, hitraceVars
  <2>2. m.route = "none" /\ m.plugin \in Plugins
    BY <1>1 DEF Claims, Envelopes, Unclaimed, Data, Config, Ftrace
  <2>3. /\ source' \in Seq(Envelopes) /\ Named' = Named /\ Used' = Used
        /\ HitracePlugins' = HitracePlugins \cup {m.plugin}
    BY <1>0, <1>1, <2>1, <2>2, OneMore
  <2>4. ClockInv'
    BY <2>1, <2>3 DEF ReadInv, ClockInv
  <2>5. PluginInv'
    BY <2>1, <2>2, <2>3 DEF ReadInv, PluginInv
  <2>6. VerdictInv'
    BY <1>0, <2>1 DEF VerdictInv
  <2> QED
    BY <2>4, <2>5, <2>6
<1>2. CASE Claims(m) /\ Fail("ids") /\ UNCHANGED <<source, report, clocks>>
  <2>1. ClockInv' /\ PluginInv'
    BY <1>2, SameTrace DEF ReadInv, ClockInv, PluginInv
  <2>2. VerdictInv'
    BY <1>2 DEF VerdictInv, Fail
  <2> QED
    BY <2>1, <2>2
<1>3. CASE /\ Claims(m) /\ clocks' = Observe(clocks, m) /\ source' = Append(source, m)
           /\ UNCHANGED <<step, report, answer, why>>
  <2>1. /\ source' \in Seq(Envelopes)
        /\ Named' = Named \cup (IF m.route = "config" THEN {m.clock} ELSE {})
        /\ Used' = Used \cup (IF m.route = "data" /\ m.events > 0 THEN {m.clock} ELSE {})
        /\ HitracePlugins' = HitracePlugins
    BY <1>0, <1>3, OneMore
  <2>2. PluginInv' /\ VerdictInv'
    BY <1>0, <1>3, <2>1 DEF ReadInv, PluginInv, VerdictInv
  <2>3. ASSUME m.route = "config" PROVE ClockInv'
    <3>1. /\ clocks' = ObserveConfig(clocks, m) /\ m.clock \in Clocks \cup {NoClock}
          /\ Used' = Used /\ Named' = Named \cup {m.clock}
      BY <1>3, <2>1, <2>3 DEF Observe, Envelopes, Data, Config, Ftrace, Unclaimed
    <3>2. CASE m.clock = NoClock
      BY <2>1, <3>1, <3>2 DEF ReadInv, ClockInv, ObserveConfig
    <3>3. CASE m.clock # NoClock
      <4> DEFINE pair == Remember(<<clocks.config, clocks.otherConfig>>, m.clock)
                 S == Named \ {NoClock}
      <4>1. /\ Recalls(pair[1], pair[2], S \cup {m.clock})
            /\ pair[1] \in Clocks \cup {NoClock} /\ pair[2] \in Clocks \cup {NoClock}
        <5>1. S \in SUBSET Clocks /\ Recalls(clocks.config, clocks.otherConfig, S)
          BY DEF ReadInv, ClockInv
        <5>2. m.clock \in Clocks
          BY <3>1, <3>3
        <5> HIDE DEF S
        <5> QED
          BY <5>1, <5>2, RememberOne
      <4>2. clocks' = [clocks EXCEPT !.config = pair[1], !.otherConfig = pair[2]]
        BY <3>1, <3>3 DEF ObserveConfig
      <4>3. Named' \ {NoClock} = S \cup {m.clock} /\ (NoClock \in Named' <=> NoClock \in Named)
        BY <3>1, <3>3
      <4> HIDE DEF pair, S
      <4> QED
        BY <2>1, <3>1, <4>1, <4>2, <4>3 DEF ReadInv, ClockInv
    <3> QED
      BY <3>2, <3>3
  <2>4. ASSUME m.route = "data" PROVE ClockInv'
    <3>1. /\ clocks' = ObserveBatch(clocks, m) /\ m.clock \in Clocks /\ Named' = Named
      BY <1>3, <2>1, <2>4 DEF Observe, Envelopes, Data, Config, Ftrace, Unclaimed
    <3>2. CASE ~(m.events > 0)
      <4>1. m.events = 0
        <5>1. m.events \in EventCounts
          BY <2>4 DEF Envelopes, Data, Config, Ftrace, Unclaimed
        <5>2. m.events \in Nat
          BY <5>1, EventCountsAssumption
        <5> QED
          BY <3>2, <5>2
      <4> QED
        BY <2>1, <2>4, <3>1, <3>2, <4>1 DEF ReadInv, ClockInv, ObserveBatch
    <3>3. CASE m.events > 0
      <4> DEFINE pair == Remember(<<clocks.envelope, clocks.otherEnvelope>>, m.clock)
      <4>0. m.events # 0 /\ Used' = Used \cup {m.clock}
        BY <2>1, <2>4, <3>3
      <4>1. /\ Recalls(pair[1], pair[2], Used \cup {m.clock})
            /\ pair[1] \in Clocks \cup {NoClock} /\ pair[2] \in Clocks \cup {NoClock}
        <5>1. Used \in SUBSET Clocks /\ Recalls(clocks.envelope, clocks.otherEnvelope, Used)
          BY DEF ReadInv, ClockInv
        <5> QED
          BY <3>1, <5>1, RememberOne
      <4>2. clocks' = [clocks EXCEPT !.requires = TRUE, !.envelope = pair[1], !.otherEnvelope = pair[2]]
        BY <3>1, <4>0 DEF ObserveBatch
      <4> HIDE DEF pair
      <4> QED
        BY <2>1, <3>1, <4>0, <4>1, <4>2 DEF ReadInv, ClockInv
    <3> QED
      BY <3>2, <3>3
  <2>5. ASSUME m.route \notin {"config", "data"} PROVE ClockInv'
    <3>1. clocks' = clocks /\ Named' = Named /\ Used' = Used
      BY <1>3, <2>1, <2>5 DEF Observe
    <3> QED
      BY <2>1, <3>1 DEF ReadInv, ClockInv
  <2> QED
    BY <2>2, <2>3, <2>4, <2>5
<1> QED
  BY <1>1, <1>2, <1>3 DEF ReadFrame, hitraceVars

LEMMA ReadStep == ReadInv /\ [Next]_vars => ReadInv'
<1> SUFFICES ASSUME ReadInv, [Next]_vars PROVE ReadInv'
  OBVIOUS
<1>1. AnswerInv'
  BY AnswerStep DEF ReadInv
<1>2. UNCHANGED format
  BY DEF Next, vars
\* A step that reads nothing.
<1>3. ASSUME (UNCHANGED <<source, clocks>>) \/ format = "text",
             report' \in [sections : SUBSET SectionTypes, plugins : SUBSET Plugins, events : SUBSET OtherKinds],
             ((UNCHANGED source) /\ report'.plugins = report.plugins) \/ format = "text"
      PROVE  ClockInv' /\ PluginInv'
  BY <1>2, <1>3, SameTrace DEF ReadInv, ClockInv, PluginInv
<1> USE DEF outputVars, hitraceVars, textVars
<1>4. CASE UNCHANGED vars
  <2>1. ClockInv' /\ PluginInv'
    BY <1>3, <1>4 DEF vars, ReadInv, PluginInv
  <2> QED
    BY <1>1, <1>4, <2>1 DEF vars, ReadInv, VerdictInv
<1>5. CASE (Publish \/ Broken \/ Rival \/ Kill) /\ UNCHANGED <<format, hitraceVars, textVars>>
  <2>1. ClockInv' /\ PluginInv'
    BY <1>3, <1>5 DEF Publish, Broken, Rival, Kill, ReadInv, PluginInv
  <2>2. VerdictInv'
    BY <1>5 DEF Publish, Broken, Rival, Kill, Fail, ReadInv, AnswerInv, VerdictInv
  <2> QED
    BY <1>1, <2>1, <2>2 DEF ReadInv
<1>6. CASE format = "hitrace" /\ HitraceStep
  <2>1. CASE Stage("section") /\ UNCHANGED hitraceVars
    <3>1. ClockInv' /\ PluginInv'
      BY <1>3, <2>1 DEF Stage, ReadInv, PluginInv
    <3>2. VerdictInv'
      BY <1>2, <2>1 DEF Stage, Fail, ReadInv, AnswerInv, VerdictInv
    <3> QED
      BY <1>1, <3>1, <3>2 DEF ReadInv
  <2>2. CASE BadSection \/ ReadSection \/ BadFrame \/ EndSection
    <3>1. ClockInv' /\ PluginInv'
      BY <1>3, <2>2 DEF BadSection, ReadSection, BadFrame, EndSection, ReadInv, PluginInv
    <3>2. VerdictInv'
      BY <1>2, <2>2 DEF BadSection, ReadSection, BadFrame, EndSection, Fail, ReadInv, AnswerInv, VerdictInv
    <3> QED
      BY <1>1, <3>1, <3>2 DEF ReadInv
  <2>3. ASSUME NEW m \in Envelopes, NEW early \in BOOLEAN, ReadFrame(m, early) PROVE ReadInv'
    BY <1>1, <1>2, <1>6, <2>3, FrameStep DEF ReadInv
  <2>4. CASE FinishCapture \/ Validate
    <3>1. ClockInv' /\ PluginInv'
      BY <1>3, <2>4 DEF FinishCapture, Validate, ReadInv, PluginInv
    <3>2. VerdictInv'
      BY <1>2, <1>6, <2>4 DEF FinishCapture, Validate, Fail, ReadInv, AnswerInv, VerdictInv
    <3> QED
      BY <1>1, <3>1, <3>2 DEF ReadInv
  <2> QED
    BY <1>6, <2>1, <2>2, <2>3, <2>4 DEF HitraceStep
<1>7. CASE format = "text" /\ TextStep
  <2>1. report' \in [sections : SUBSET SectionTypes, plugins : SUBSET Plugins, events : SUBSET OtherKinds]
    <3>1. ASSUME NEW e \in Events, ReadEvent(e) PROVE report' = report \/
             (e.kind \in OtherKinds /\ report' = [report EXCEPT !.events = @ \cup {e.kind}])
      BY <3>1 DEF ReadEvent
    <3>2. (\E e \in Events : ReadEvent(e)) \/ report' = report
      BY <1>7 DEF TextStep, Stage, ReadHeader, ReadLateHeader, BadLine, BadEvent, FinishText
    <3> QED
      BY <3>1, <3>2 DEF ReadInv, PluginInv
  <2>2. step # "over" /\ (why' = why \/ (step' = "over" /\ why' # "clocks"))
    <3>1. CASE Stage("lines")
      BY <3>1 DEF Stage, Fail
    <3>2. ASSUME NEW l \in HeaderLines, ReadHeader(l) \/ ReadLateHeader(l)
          PROVE  step # "over" /\ (why' = why \/ (step' = "over" /\ why' # "clocks"))
      BY <3>2 DEF ReadHeader, ReadLateHeader, Fail
    <3>3. ASSUME NEW e \in Events, ReadEvent(e)
          PROVE  step # "over" /\ (why' = why \/ (step' = "over" /\ why' # "clocks"))
      BY <3>3 DEF ReadEvent, Fail
    <3>4. CASE BadLine \/ BadEvent
      BY <3>4 DEF BadLine, BadEvent, Fail
    <3>5. CASE FinishText
      BY <3>5 DEF FinishText, Fail, ReadInv, VerdictInv
    <3> QED
      BY <1>7, <3>1, <3>2, <3>3, <3>4, <3>5 DEF TextStep, ReadInv, VerdictInv
  <2>3. ClockInv' /\ PluginInv'
    BY <1>3, <1>7, <2>1
  <2>4. VerdictInv'
    BY <1>2, <1>7, <2>2 DEF ReadInv, VerdictInv
  <2> QED
    BY <1>1, <2>3, <2>4 DEF ReadInv
<1> QED
  BY <1>4, <1>5, <1>6, <1>7 DEF Next

LEMMA ReadAtFirst == Init => ReadInv
<1> SUFFICES ASSUME Init PROVE ReadInv
  OBVIOUS
<1>1. source = <<>> /\ Len(source) = 0
  BY DEF Init, OutputInit
<1>2. Named = {} /\ Used = {} /\ HitracePlugins = {}
  BY <1>1 DEF Named, Used, HitracePlugins
<1>3. AnswerInv /\ VerdictInv
  BY DEF Init, OutputInit, AnswerInv, VerdictInv
<1>4. PluginInv
  BY <1>2 DEF Init, NoReport, PluginInv
<1>5. ClockInv
  BY <1>1, <1>2 DEF Init, HitraceInit, NoClocks, ClockInv, Recalls
<1> QED
  BY <1>3, <1>4, <1>5 DEF ReadInv

\* A Hitrace is refused for its clocks only if they do not agree, and published
\* only if they do, in whichever order its configurations and events come and
\* however many there are; and its report names the plugins that have no rows.
ClocksAreJust ==
  /\ why = "clocks" => ~ClocksAgree
  /\ destination = "ours" /\ format = "hitrace" => ClocksAgree /\ report.plugins = HitracePlugins

\* The decoder's memory of two clocks of each sort loses nothing that its
\* verdict depends on.
THEOREM ClocksJudged == Spec => []ClocksAreJust
<1>1. ReadInv => ClocksAreJust
  BY MemoryIsEnough DEF ReadInv, AnswerInv, PluginInv, VerdictInv, ClocksAreJust
<1> QED
  BY <1>1, ReadAtFirst, ReadStep, PTL DEF Spec

-----------------------------------------------------------------------------
(* Numbers. *)

\* A set of numbers has a least one.
LEMMA LeastNumber ==
  ASSUME NEW T \in SUBSET Nat, T # {}
  PROVE  \E x \in T : \A y \in T : x <= y
<1> DEFINE R == {ss \in Nat \X Nat : ss[1] < ss[2]}
<1>1. IsWellFoundedOn(R, Nat)
  BY NatLessThanWellFounded DEF OpToRel
<1> HIDE DEF R
<1>2. PICK x \in T : \A y \in T : ~ (<<y, x>> \in R)
  BY <1>1, WFMin
<1>3. ASSUME NEW y \in T PROVE x <= y
  <2>1. ~ (<<y, x>> \in R)
    BY <1>2
  <2>2. x \in Nat /\ y \in Nat
    OBVIOUS
  <2>3. ~ (y < x)
    BY <2>1, <2>2 DEF R
  <2> QED
    BY <2>2, <2>3
<1> QED
  BY <1>3

-----------------------------------------------------------------------------
(* Rows and relations. *)

DataRow == [id : Int, parent : Int, of : Nat \cup BOOLEAN \cup OtherKinds \cup HitraceRelations]

\* The relations of a staging directory with the names N.
Outputs(N) ==
  [begun : SUBSET N, closed : SUBSET N, ok : BOOLEAN,
   buffer : [N -> Seq(DataRow)], file : [N -> Seq(DataRow)], next : [N -> Nat]]

\* What a relation holds, in its file and in its buffer.
Content(o, r) == o.file[r] \o o.buffer[r]

\* Members are listed by rows, and nothing is listed of nothing.
LEMMA ListedRows ==
  ASSUME NEW S, IsFiniteSet(S), S \subseteq OtherKinds \cup HitraceRelations
  PROVE  Listed(S) \in Seq(DataRow) /\ (Listed(S) = <<>> <=> S = {})
<1> DEFINE n == Cardinality(S)
           members == SetToSeq(S)
<1>1. n \in Nat /\ (n = 0 <=> S = {})
  BY FS_CardinalityType, FS_EmptySet
<1>2. members \in [1..n -> S]
  <2>1. \E f \in [1..n -> S] : IsInjective(f)
    BY FS_CardinalityType, Zenon DEF ExistsBijection, Bijection, Injection
  <2> QED
    BY <2>1, Zenon DEF SetToSeq
<1>3. ASSUME NEW i \in 1..n PROVE Row(NoId, NoId, members[i]) \in DataRow
  <2>1. members[i] \in OtherKinds \cup HitraceRelations
    BY <1>2
  <2> HIDE DEF members
  <2> QED
    BY <2>1 DEF Row, NoId, DataRow
<1>4. Listed(S) = [i \in 1..n |-> Row(NoId, NoId, members[i])]
  BY DEF Listed
<1> HIDE DEF n, members
<1>5. Listed(S) \in [1..n -> DataRow]
  BY <1>3, <1>4
<1>6. Listed(S) \in Seq(DataRow) /\ Len(Listed(S)) = n
  BY <1>1, <1>5
<1> QED
  BY <1>1, <1>6

LEMMA ContentIs ==
  ASSUME NEW N, NEW o \in Outputs(N), NEW r \in N
  PROVE  /\ o.file[r] \in Seq(DataRow) /\ o.buffer[r] \in Seq(DataRow)
         /\ Content(o, r) \in Seq(DataRow)
         /\ Content(o, r) = <<>> <=> o.file[r] = <<>> /\ o.buffer[r] = <<>>
<1>1. o.file[r] \in Seq(DataRow) /\ o.buffer[r] \in Seq(DataRow)
  BY DEF Outputs
<1> QED
  BY <1>1 DEF Content

LEMMA Began ==
  ASSUME NEW N, NEW o \in Outputs(N), NEW r \in N
  PROVE  /\ Begin(o, r) \in Outputs(N) /\ Begin(o, r).begun = o.begun \cup {r}
         /\ Begin(o, r).closed = o.closed /\ Begin(o, r).next = o.next
         /\ Begin(o, r).buffer = o.buffer /\ Begin(o, r).file = o.file
<1>1. \E b \in BOOLEAN : Begin(o, r) = [o EXCEPT !.begun = @ \cup {r}, !.ok = b]
  <2>1. (o.ok /\ r \notin o.begun) \in BOOLEAN
    BY Zenon
  <2> QED
    BY <2>1, Zenon DEF Begin
<1>2. PICK b \in BOOLEAN : Begin(o, r) = [o EXCEPT !.begun = @ \cup {r}, !.ok = b]
  BY <1>1
<1> DEFINE c == Begin(o, r)
<1>3. c.begun = o.begun \cup {r} /\ c.begun \in SUBSET N /\ c.ok = b
  BY <1>2 DEF Outputs
<1>4. c.closed = o.closed /\ c.next = o.next /\ c.buffer = o.buffer /\ c.file = o.file
  BY <1>2 DEF Outputs
<1>5. c = [o EXCEPT !.begun = c.begun, !.ok = c.ok]
  BY <1>2, <1>3
<1> HIDE DEF c
<1>6. c \in Outputs(N)
  BY <1>3, <1>5 DEF Outputs
<1> QED
  BY <1>3, <1>4, <1>6 DEF c

LEMMA Activated ==
  ASSUME NEW N, NEW o \in Outputs(N), NEW r \in N
  PROVE  /\ Activate(o, r) \in Outputs(N) /\ Activate(o, r).begun = o.begun \cup {r}
         /\ Activate(o, r).closed = o.closed /\ Activate(o, r).next = o.next
         /\ Activate(o, r).buffer = o.buffer /\ Activate(o, r).file = o.file
<1>1. CASE r \in o.begun
  <2>1. Activate(o, r) = o /\ o.begun \cup {r} = o.begun
    BY <1>1 DEF Activate
  <2> QED
    BY <2>1
<1>2. CASE r \notin o.begun
  BY <1>2, Began DEF Activate
<1> QED
  BY <1>1, <1>2

LEMMA Flushed ==
  ASSUME NEW N, NEW o \in Outputs(N), NEW r \in N
  PROVE  /\ Flush(o, r) \in Outputs(N) /\ Flush(o, r).begun = o.begun
         /\ Flush(o, r).closed = o.closed /\ Flush(o, r).next = o.next
         /\ Flush(o, r).file[r] = Content(o, r) /\ Flush(o, r).buffer[r] = <<>>
         /\ \A s \in N \ {r} : Flush(o, r).file[s] = o.file[s] /\ Flush(o, r).buffer[s] = o.buffer[s]
         /\ \A s \in N : Content(Flush(o, r), s) = Content(o, s)
<1>1. Content(o, r) \in Seq(DataRow) /\ <<>> \in Seq(DataRow)
  BY ContentIs
<1>2. Flush(o, r) = [o EXCEPT !.file = [@ EXCEPT ![r] = Content(o, r)], !.buffer = [@ EXCEPT ![r] = <<>>]]
  BY DEF Flush, Content, Outputs
<1>3. o.file \in [N -> Seq(DataRow)] /\ o.buffer \in [N -> Seq(DataRow)]
  BY DEF Outputs
<1>4. /\ Flush(o, r) \in Outputs(N) /\ Flush(o, r).begun = o.begun
      /\ Flush(o, r).closed = o.closed /\ Flush(o, r).next = o.next
      /\ Flush(o, r).file[r] = Content(o, r) /\ Flush(o, r).buffer[r] = <<>>
      /\ \A s \in N \ {r} : Flush(o, r).file[s] = o.file[s] /\ Flush(o, r).buffer[s] = o.buffer[s]
  <2> DEFINE f == [o.file EXCEPT ![r] = Content(o, r)]
             g == [o.buffer EXCEPT ![r] = <<>>]
  <2>1. f \in [N -> Seq(DataRow)] /\ f[r] = Content(o, r) /\ \A s \in N \ {r} : f[s] = o.file[s]
    BY <1>1, <1>3
  <2>2. g \in [N -> Seq(DataRow)] /\ g[r] = <<>> /\ \A s \in N \ {r} : g[s] = o.buffer[s]
    BY <1>1, <1>3
  <2>3. Flush(o, r) = [o EXCEPT !.file = f, !.buffer = g]
    BY <1>2
  <2> HIDE DEF f, g
  <2>4. Flush(o, r) \in Outputs(N) /\ Flush(o, r).file = f /\ Flush(o, r).buffer = g
    BY <2>1, <2>2, <2>3 DEF Outputs
  <2>5. Flush(o, r).begun = o.begun /\ Flush(o, r).closed = o.closed /\ Flush(o, r).next = o.next
    BY <2>3 DEF Outputs
  <2> QED
    BY <2>1, <2>2, <2>4, <2>5
<1>5. ASSUME NEW s \in N PROVE Content(Flush(o, r), s) = Content(o, s)
  <2>1. CASE s = r
    <3>1. Content(Flush(o, r), s) = Content(o, r) \o <<>>
      BY <1>4, <2>1, Zenon DEF Content
    <3> HIDE DEF Content
    <3> QED
      BY <1>1, <2>1, <3>1
  <2>2. CASE s # r
    BY <1>4, <2>2 DEF Content
  <2> QED
    BY <2>1, <2>2
<1> QED
  BY <1>4, <1>5

\* A row is the last of its relation, whether it is written at once or not.
LEMMA Pushed ==
  ASSUME NEW N, NEW o \in Outputs(N), NEW r \in N, NEW row \in DataRow, NEW early
  PROVE  LET p == Push(o, r, row, early)
         IN /\ p \in Outputs(N) /\ p.begun = o.begun \cup {r}
            /\ p.closed = o.closed /\ p.next = o.next
            /\ Content(p, r) = Append(Content(o, r), row)
            /\ \A s \in N \ {r} : Content(p, s) = Content(o, s)
<1> DEFINE a == Activate(o, r)
           q == [a EXCEPT !.buffer[r] = Append(@, row)]
<1>1. a \in Outputs(N) /\ a.begun = o.begun \cup {r} /\ a.closed = o.closed /\ a.next = o.next
      /\ a.buffer = o.buffer /\ a.file = o.file
  BY Activated
<1> HIDE DEF a
<1>2. /\ o.file \in [N -> Seq(DataRow)] /\ o.buffer \in [N -> Seq(DataRow)]
      /\ Append(o.buffer[r], row) \in Seq(DataRow)
  BY DEF Outputs
<1>3. q = [a EXCEPT !.buffer = [@ EXCEPT ![r] = Append(o.buffer[r], row)]]
  BY <1>1 DEF Outputs
<1> HIDE DEF q
<1>4. /\ q \in Outputs(N) /\ q.begun = o.begun \cup {r} /\ q.closed = o.closed /\ q.next = o.next
      /\ q.buffer[r] = Append(o.buffer[r], row) /\ q.file = o.file
      /\ \A s \in N \ {r} : q.buffer[s] = o.buffer[s]
  BY <1>1, <1>2, <1>3 DEF Outputs
<1>5. Content(q, r) = Append(Content(o, r), row)
  <2>1. o.file[r] \in Seq(DataRow) /\ o.buffer[r] \in Seq(DataRow)
    BY <1>2
  <2>2. \A a1 \in Seq(DataRow), a2 \in Seq(DataRow) : a1 \o Append(a2, row) = Append(a1 \o a2, row)
    OBVIOUS
  <2> QED
    BY <1>4, <2>1, <2>2 DEF Content
<1>6. \A s \in N \ {r} : Content(q, s) = Content(o, s)
  BY <1>4 DEF Content
<1>7. Push(o, r, row, early) = q \/ Push(o, r, row, early) = Flush(q, r)
  BY DEF Push, a, q
<1> QED
  BY <1>4, <1>5, <1>6, <1>7, Flushed

\* An id is taken, and nothing else changes.
MovedOn(o, a, r) ==
  /\ a.begun = o.begun /\ a.closed = o.closed /\ a.next = [o.next EXCEPT ![r] = @ + 1]
  /\ a.file = o.file /\ a.buffer = o.buffer

LEMMA OneTaken ==
  ASSUME NEW N, NEW o \in Outputs(N), NEW r \in N, NEW b \in BOOLEAN,
         NEW a, a = [o EXCEPT !.ok = b, !.next[r] = @ + 1]
  PROVE  a \in Outputs(N) /\ MovedOn(o, a, r)
<1>1. a.next = [o.next EXCEPT ![r] = @ + 1] /\ a.next \in [N -> Nat] /\ a.ok = b
  BY DEF Outputs
<1>2. a.begun = o.begun /\ a.closed = o.closed /\ a.file = o.file /\ a.buffer = o.buffer
  BY DEF Outputs
<1>3. a = [o EXCEPT !.ok = a.ok, !.next = a.next]
  BY <1>1 DEF Outputs
<1> QED
  BY <1>1, <1>2, <1>3 DEF Outputs, MovedOn

LEMMA Allocated ==
  ASSUME NEW N, NEW o \in Outputs(N), NEW r \in N
  PROVE  Allocate(o, r) \in Outputs(N) /\ MovedOn(o, Allocate(o, r), r)
<1>1. (o.ok /\ o.next[r] <= MaxId) \in BOOLEAN
  BY Zenon
<1>2. \E b \in BOOLEAN : Allocate(o, r) = [o EXCEPT !.ok = b, !.next[r] = @ + 1]
  BY <1>1, Zenon DEF Allocate
<1> QED
  BY <1>2, OneTaken

LEMMA TookNext ==
  ASSUME NEW N, NEW o \in Outputs(N), NEW r \in N
  PROVE  TakeNext(o, r) \in Outputs(N) /\ MovedOn(o, TakeNext(o, r), r)
<1>1. (o.ok /\ o.next[r] < MaxId) \in BOOLEAN
  BY Zenon
<1>2. \E b \in BOOLEAN : TakeNext(o, r) = [o EXCEPT !.ok = b, !.next[r] = @ + 1]
  BY <1>1, Zenon DEF TakeNext
<1> QED
  BY <1>2, OneTaken

-----------------------------------------------------------------------------
(* The rows that a trace has, and one more record. *)

\* Places of p come after those of earlier records.
LEMMA LaterPlaces ==
  ASSUME NEW p \in Nat, NEW k \in Nat
  PROVE  IsFiniteSet({p} \X (1..k)) /\ Cardinality({p} \X (1..k)) = k
<1>1. IsFiniteSet({p}) /\ Cardinality({p}) = 1
  BY FS_Singleton
<1>2. IsFiniteSet(1..k) /\ Cardinality(1..k) = k
  BY FS_Interval
<1>3. IsFiniteSet({p} \X (1..k)) /\ Cardinality({p} \X (1..k)) = Cardinality({p}) * Cardinality(1..k)
  BY <1>1, <1>2, FS_Product, Zenon
<1>4. Cardinality(1..k) = k
  BY <1>2
<1> QED
  BY <1>1, <1>3, <1>4

LEMMA DisjointSum ==
  ASSUME NEW S, NEW T, IsFiniteSet(S), IsFiniteSet(T), S \cap T = {}
  PROVE  /\ IsFiniteSet(S \cup T) /\ Cardinality(S) \in Nat /\ Cardinality(T) \in Nat
         /\ Cardinality(S \cup T) = Cardinality(S) + Cardinality(T)
<1>1. Cardinality(S) \in Nat /\ Cardinality(T) \in Nat /\ Cardinality(S \cap T) = 0
  BY FS_CardinalityType, FS_EmptySet
<1>2. /\ IsFiniteSet(S \cup T)
      /\ Cardinality(S \cup T) = Cardinality(S) + Cardinality(T) - Cardinality(S \cap T)
  BY FS_Union, Zenon
<1> QED
  BY <1>1, <1>2

\* The rows of one more record come after the others, whose ranks stay.
LEMMA MoreItems ==
  ASSUME NEW X, source \in Seq(X), NEW m \in X, source' = Append(source, m), format' = format,
         NEW p, p = Len(source) + 1, NEW r, NEW c \in Nat, RowCount(m, r) = c, IsFiniteSet(Items(r))
  PROVE  /\ Cardinality(Items(r)) \in Nat
         /\ Items(r)' = Items(r) \cup ({p} \X (1..c))
         /\ IsFiniteSet(Items(r)') /\ Cardinality(Items(r)') = Cardinality(Items(r)) + c
         /\ \A x : x[1] \in 1..Len(source) => Rank(r, x)' = Rank(r, x)
         /\ \A j \in Nat \ {0} :
              j = 1 \/ j \in 1..c => Rank(r, <<p, j>>)' = Cardinality(Items(r)) + j - 1
<1> DEFINE new == {p} \X (1..c)
<1>1. /\ Len(source) \in Nat /\ p \in Nat /\ 1..Len(source') = 1..Len(source) \cup {p}
      /\ source'[p] = m /\ \A i \in 1..Len(source) : source'[i] = source[i]
  OBVIOUS
<1>2. Items(r)' = Items(r) \cup new
  <2>1. \A i \in 1..Len(source) : RowCount(source[i], r)' = RowCount(source[i], r)
    BY <1>1 DEF RowCount, HitraceRowCount, Claims, Roots, Repeated, TextRowCount
  <2>2. RowCount(source[p], r)' = c
    BY <1>1 DEF RowCount, HitraceRowCount, Claims, Roots, Repeated, TextRowCount
  <2>3. Items(r)' = UNION {{i} \X (1..(RowCount(source[i], r)')) : i \in 1..Len(source')}
    BY DEF Items
  <2>4. Items(r) = UNION {{i} \X (1..RowCount(source[i], r)) : i \in 1..Len(source)}
    BY DEF Items
  <2> QED
    BY <1>1, <2>1, <2>2, <2>3, <2>4
<1>3. \A y \in Items(r) : y[1] \in 1..Len(source)
  BY DEF Items
<1>4. \A y \in new : y[1] = p /\ y[2] \in 1..c
  OBVIOUS
<1>5. Items(r) \cap new = {}
  BY <1>1, <1>3, <1>4
<1>6. IsFiniteSet(new) /\ Cardinality(new) = c
  BY <1>1, LaterPlaces
<1>7. /\ Cardinality(Items(r)) \in Nat
      /\ IsFiniteSet(Items(r)') /\ Cardinality(Items(r)') = Cardinality(Items(r)) + c
  <2> HIDE DEF new
  <2> QED
    BY <1>2, <1>5, <1>6, DisjointSum
<1>8. ASSUME NEW x, x[1] \in 1..Len(source)
      PROVE  Rank(r, x)' = Rank(r, x)
  <2>1. {y \in Items(r)' : Before(y, x)} = {y \in Items(r) : Before(y, x)}
    <3>1. \A y \in new : ~Before(y, x)
      BY <1>1, <1>4, <1>8 DEF Before
    <3> HIDE DEF new
    <3> QED
      BY <1>2, <3>1
  <2> QED
    BY <2>1 DEF Rank, Before
<1>9. ASSUME NEW j \in Nat \ {0}, j = 1 \/ j \in 1..c
      PROVE  Rank(r, <<p, j>>)' = Cardinality(Items(r)) + j - 1
  <2> DEFINE x == <<p, j>>
             first == {p} \X (1..(j - 1))
  <2>1. \A y \in Items(r) : Before(y, x)
    BY <1>1, <1>3 DEF Before
  <2>2. \A y \in new : Before(y, x) <=> y \in first
    BY <1>1 DEF Before
  <2>3. first \subseteq new
    BY <1>9
  <2>4. {y \in Items(r)' : Before(y, x)} = Items(r) \cup first
    <3> HIDE DEF new, first, x
    <3> QED
      BY <1>2, <2>1, <2>2, <2>3
  <2>5. Items(r) \cap first = {}
    <3> HIDE DEF new, first
    <3> QED
      BY <1>5, <2>3
  <2>6. IsFiniteSet(first) /\ Cardinality(first) = j - 1
    <3>1. j - 1 \in Nat
      OBVIOUS
    <3> QED
      BY <1>1, <3>1, LaterPlaces
  <2>7. Cardinality(Items(r) \cup first) = Cardinality(Items(r)) + (j - 1)
    <3> HIDE DEF first
    <3> QED
      BY <2>5, <2>6, DisjointSum
  <2>8. Rank(r, x)' = Cardinality({y \in Items(r)' : Before(y, x)})
    BY <1>1 DEF Rank, Before
  <2> QED
    BY <1>7, <2>4, <2>7, <2>8
<1> QED
  BY <1>2, <1>7, <1>8, <1>9

\* What a relation holds after one more record.
Grown(old, new, c, parent, p) ==
  /\ Len(new) = Len(old) + c
  /\ \A i \in 1..Len(old) : new[i] = old[i]
  /\ \A j \in 1..c : new[Len(old) + j] = Row(Len(old) + j - 1, parent, p)

LEMMA RowsGrow ==
  ASSUME NEW X, source \in Seq(X), NEW m \in X, source' = Append(source, m), format' = format,
         NEW p, p = Len(source) + 1, NEW r, NEW c \in Nat, RowCount(m, r) = c, IsFiniteSet(Items(r)),
         Above(r) # "none" => IsFiniteSet(Items(Above(r))) /\ RowCount(m, Above(r)) \in Nat,
         NEW old \in Seq(DataRow), NEW new \in Seq(DataRow), RowsAre(r, old),
         Grown(old, new, c, IF Above(r) = "none" THEN NoId ELSE Cardinality(Items(Above(r))), p)
  PROVE  RowsAre(r, new)'
<1> DEFINE n == Cardinality(Items(r))
           parent == IF Above(r) = "none" THEN NoId ELSE Cardinality(Items(Above(r)))
<1>1. /\ n \in Nat /\ Items(r)' = Items(r) \cup ({p} \X (1..c))
      /\ IsFiniteSet(Items(r)') /\ Cardinality(Items(r)') = n + c
      /\ \A x : x[1] \in 1..Len(source) => Rank(r, x)' = Rank(r, x)
      /\ \A j \in 1..c : Rank(r, <<p, j>>)' = n + j - 1
  BY MoreItems
<1>2. Above(r)' = Above(r)
  BY DEF Above, HitraceAbove, Roots, TextAbove
<1>3. ASSUME NEW x, x[1] \in 1..Len(source) PROVE Parent(r, x)' = Parent(r, x)
  <2>1. CASE Above(r) = "none"
    BY <1>2, <2>1 DEF Parent
  <2>2. CASE Above(r) # "none"
    <3>0. PICK a : a = Above(r)
      OBVIOUS
    <3>1. \A z : z[1] \in 1..Len(source) => Rank(a, z)' = Rank(a, z)
      BY <2>2, <3>0, MoreItems
    <3>2. Parent(r, x) = Rank(a, <<x[1], 1>>)
      BY <2>2, <3>0 DEF Parent
    <3>3. Parent(r, x)' = Rank(a, <<x[1], 1>>)'
      BY <1>2, <2>2, <3>0 DEF Parent
    <3> QED
      BY <1>3, <3>1, <3>2, <3>3
  <2> QED
    BY <2>1, <2>2
<1>4. ASSUME NEW j \in 1..c PROVE Parent(r, <<p, j>>)' = parent
  <2>1. CASE Above(r) = "none"
    BY <1>2, <2>1 DEF Parent, NoId
  <2>2. CASE Above(r) # "none"
    <3>0. PICK a : a = Above(r)
      OBVIOUS
    <3>1. Rank(a, <<p, 1>>)' = Cardinality(Items(a)) /\ Cardinality(Items(a)) \in Nat
      <4>1. Rank(a, <<p, 1>>)' = Cardinality(Items(a)) + 1 - 1 /\ Cardinality(Items(a)) \in Nat
        BY <2>2, <3>0, MoreItems
      <4> QED
        BY <4>1
    <3>2. Parent(r, <<p, j>>)' = Rank(a, <<p, 1>>)'
      BY <1>2, <2>2, <3>0 DEF Parent
    <3> QED
      BY <2>2, <3>0, <3>1, <3>2
  <2> QED
    BY <2>1, <2>2
<1>5. Len(old) = n /\ \A x \in Items(r) : old[Rank(r, x) + 1] = Row(Rank(r, x), Parent(r, x), x[1])
  BY DEF RowsAre
<1>6. /\ Len(new) = n + c
      /\ \A i \in 1..n : new[i] = old[i]
      /\ \A j \in 1..c : new[n + j] = Row(n + j - 1, parent, p)
  BY <1>5 DEF Grown
<1>7. \A x \in Items(r) : x[1] \in 1..Len(source) /\ Rank(r, x) + 1 \in 1..n
  <2> SUFFICES ASSUME NEW x \in Items(r) PROVE x[1] \in 1..Len(source) /\ Rank(r, x) + 1 \in 1..n
    OBVIOUS
  <2>1. x[1] \in 1..Len(source) /\ x[2] \in Nat
    BY DEF Items
  <2>2. ~Before(x, x)
    BY <2>1 DEF Before
  <2> DEFINE T == {y \in Items(r) : Before(y, x)}
  <2>3. T \in SUBSET Items(r) /\ T # Items(r)
    BY <2>2
  <2>4. IsFiniteSet(T) /\ Cardinality(T) <= n /\ Cardinality(T) # n
    BY <2>3, FS_Subset
  <2>5. Cardinality(T) \in Nat
    BY <2>4, FS_CardinalityType
  <2> QED
    BY <1>1, <2>1, <2>4, <2>5 DEF Rank
<1>8. ASSUME NEW x \in Items(r)
      PROVE  new[Rank(r, x)' + 1] = Row(Rank(r, x)', Parent(r, x)', x[1])
  BY <1>1, <1>3, <1>5, <1>6, <1>7, <1>8
<1>9. ASSUME NEW j \in 1..c
      PROVE  new[Rank(r, <<p, j>>)' + 1] = Row(Rank(r, <<p, j>>)', Parent(r, <<p, j>>)', p)
  <2>1. (n + j - 1) + 1 = n + j
    BY <1>1
  <2> QED
    BY <1>1, <1>4, <1>6, <1>9, <2>1
<1>10. Len(new) = Cardinality(Items(r)')
  BY <1>1, <1>6
<1>11. ASSUME NEW x \in Items(r)'
       PROVE  new[Rank(r, x)' + 1] = Row(Rank(r, x)', Parent(r, x)', x[1])
  <2>1. CASE x \in Items(r)
    BY <1>8, <2>1
  <2>2. CASE x \in {p} \X (1..c)
    <3>1. PICK j \in 1..c : x = <<p, j>>
      BY <2>2
    <3> QED
      BY <1>9, <3>1
  <2> QED
    BY <1>1, <1>11, <2>1, <2>2
<1> QED
  BY <1>10, <1>11 DEF RowsAre, Row

-----------------------------------------------------------------------------
(* A payload and its repeated values. *)

\* The outputs after each of them exist.
OutputsAfter(f, o, parent, of, early, k) ==
  f = [i \in 0..k |-> IF i = 0 THEN o ELSE EmitEvent(f[i - 1], parent, of, early)]

LEMMA OutputsAfterExist ==
  ASSUME NEW o, NEW parent, NEW of, NEW early, NEW k \in Nat
  PROVE  \E f : OutputsAfter(f, o, parent, of, early, k)
<1> DEFINE Is(f, n) == f = [i \in 0..n |-> IF i = 0 THEN o ELSE EmitEvent(f[i - 1], parent, of, early)]
           T == {n \in Nat : ~ \E f : Is(f, n)}
<1>1. ASSUME T # {} PROVE FALSE
  <2>1. PICK n \in T : \A y \in T : n <= y
    <3>1. T \in SUBSET Nat
      OBVIOUS
    <3> HIDE DEF T
    <3> QED
      BY <1>1, <3>1, LeastNumber
  <2>2. CASE n = 0
    <3> DEFINE f == [i \in 0..0 |-> o]
    <3>1. Is(f, 0)
      OBVIOUS
    <3> HIDE DEF f, Is
    <3> QED
      BY <2>1, <2>2, <3>1
  <2>3. CASE n # 0
    <3>1. n \in Nat /\ n - 1 \in Nat /\ ~(n <= n - 1)
      BY <2>1, <2>3
    <3>2. \E f : Is(f, n - 1)
      <4> HIDE DEF Is
      <4> QED
        BY <2>1, <3>1
    <3>3. PICK f : Is(f, n - 1)
      BY <3>2
    <3> DEFINE g == [i \in 0..n |-> IF i = n THEN EmitEvent(f[n - 1], parent, of, early) ELSE f[i]]
    <3>4. DOMAIN f = 0..(n - 1)
      BY <3>3
    <3>5. \A i \in 0..(n - 1) : g[i] = f[i]
      BY <3>1
    <3>6. ASSUME NEW i \in 0..n
          PROVE  g[i] = IF i = 0 THEN o ELSE EmitEvent(g[i - 1], parent, of, early)
      <4>1. CASE i = n
        <5>1. g[i] = EmitEvent(f[n - 1], parent, of, early) /\ i # 0 /\ g[i - 1] = f[n - 1]
          BY <2>3, <3>1, <3>5, <4>1
        <5> QED
          BY <5>1, <4>1
      <4>2. CASE i # n
        <5>1. i \in 0..(n - 1) /\ g[i] = f[i] /\ (i # 0 => i - 1 \in 0..(n - 1))
          BY <3>1, <3>5, <4>2
        <5>2. f[i] = IF i = 0 THEN o ELSE EmitEvent(f[i - 1], parent, of, early)
          BY <3>3, <5>1
        <5>3. i # 0 => g[i - 1] = f[i - 1]
          BY <3>5, <5>1
        <5> HIDE DEF g
        <5> QED
          BY <5>1, <5>2, <5>3
      <4> QED
        BY <4>1, <4>2
    <3>7. Is(g, n)
      <4>1. g = [i \in 0..n |-> g[i]]
        OBVIOUS
      <4> HIDE DEF g
      <4> QED
        BY <3>6, <4>1
    <3> HIDE DEF g, Is
    <3> QED
      BY <2>1, <3>7
  <2> QED
    BY <2>2, <2>3
<1> HIDE DEF Is
<1>2. \E f : Is(f, k)
  BY <1>1
<1> QED
  BY <1>2 DEF Is, OutputsAfter

\* What one relation has after k rows of a record at p.
Extended(o, q, r, parent, p, k) ==
  /\ Grown(Content(o, r), Content(q, r), k, parent, p)
  /\ q.next = [o.next EXCEPT ![r] = @ + k]
  /\ q.begun = IF k = 0 THEN o.begun ELSE o.begun \cup {r}

\* A row whose id is taken first.
LEMMA RowPushed ==
  ASSUME NEW N, NEW o \in Outputs(N), NEW r \in N, NEW row \in DataRow, NEW early,
         NEW a \in Outputs(N), MovedOn(o, a, r)
  PROVE  LET q == Push(a, r, row, early)
         IN /\ q \in Outputs(N) /\ q.begun = o.begun \cup {r}
            /\ q.closed = o.closed /\ q.next = [o.next EXCEPT ![r] = @ + 1]
            /\ Content(q, r) = Append(Content(o, r), row)
            /\ \A s \in N \ {r} : Content(q, s) = Content(o, s)
<1>1. \A s \in N : Content(a, s) = Content(o, s)
  BY DEF MovedOn, Content
<1> DEFINE q == Push(a, r, row, early)
<1>2. /\ q \in Outputs(N) /\ q.begun = a.begun \cup {r}
      /\ q.closed = a.closed /\ q.next = a.next
      /\ Content(q, r) = Append(Content(a, r), row)
      /\ \A s \in N \ {r} : Content(q, s) = Content(a, s)
  BY Pushed
<1> HIDE DEF q
<1>3. /\ q \in Outputs(N) /\ q.begun = o.begun \cup {r}
      /\ q.closed = o.closed /\ q.next = [o.next EXCEPT ![r] = @ + 1]
      /\ Content(q, r) = Append(Content(o, r), row)
      /\ \A s \in N \ {r} : Content(q, s) = Content(o, s)
  BY <1>1, <1>2 DEF MovedOn
<1> QED
  BY <1>3 DEF q

LEMMA AppendGrows ==
  ASSUME NEW c \in Seq(DataRow), NEW parent, NEW p, NEW d, d = Append(c, Row(Len(c), parent, p))
  PROVE  Grown(c, d, 1, parent, p)
<1> DEFINE row == Row(Len(c), parent, p)
<1>1. d = Append(c, row)
  OBVIOUS
<1>2. \A j \in 1..1 : j = 1
  OBVIOUS
<1>3. row = Row(Len(c) + 1 - 1, parent, p)
  OBVIOUS
<1> HIDE DEF row
<1>4. Len(d) = Len(c) + 1 /\ d[Len(c) + 1] = row /\ \A i \in 1..Len(c) : d[i] = c[i]
  BY <1>1
<1> QED
  BY <1>2, <1>3, <1>4 DEF Grown

LEMMA RowExtends ==
  ASSUME NEW N, NEW o \in Outputs(N), NEW r \in N, NEW q \in Outputs(N), NEW parent, NEW p,
         q.begun = o.begun \cup {r}, q.next = [o.next EXCEPT ![r] = @ + 1],
         Content(q, r) = Append(Content(o, r), Row(o.next[r], parent, p)),
         o.next[r] = Len(Content(o, r))
  PROVE  Extended(o, q, r, parent, p, 1)
<1> DEFINE c == Content(o, r)
           d == Content(q, r)
<1>1. c \in Seq(DataRow) /\ d = Append(c, Row(Len(c), parent, p))
  BY ContentIs
<1>2. Grown(c, d, 1, parent, p)
  <2> HIDE DEF c, d
  <2> QED
    BY <1>1, AppendGrows
<1> QED
  BY <1>2 DEF Extended

\* Two extensions of one relation are one.
LEMMA ExtendedTwice ==
  ASSUME NEW N, NEW o \in Outputs(N), NEW q \in Outputs(N), NEW t \in Outputs(N), NEW r \in N,
         NEW parent, NEW p, NEW k \in Nat,
         Extended(o, q, r, parent, p, k), Extended(q, t, r, parent, p, 1)
  PROVE  Extended(o, t, r, parent, p, k + 1)
<1> DEFINE a == Content(o, r)
           b == Content(q, r)
           c == Content(t, r)
<1>1. a \in Seq(DataRow) /\ b \in Seq(DataRow) /\ c \in Seq(DataRow)
  BY ContentIs
<1>2. Grown(a, b, k, parent, p) /\ Grown(b, c, 1, parent, p)
  BY DEF Extended
<1>3. Grown(a, c, k + 1, parent, p)
  <2> HIDE DEF a, b, c
  <2>1. Len(a) \in Nat /\ Len(b) = Len(a) + k /\ Len(c) = Len(a) + (k + 1)
    BY <1>1, <1>2 DEF Grown
  <2>2. \A i \in 1..Len(a) : c[i] = a[i]
    BY <1>1, <1>2, <2>1 DEF Grown
  <2>3. ASSUME NEW j \in 1..(k + 1) PROVE c[Len(a) + j] = Row(Len(a) + j - 1, parent, p)
    <3>1. CASE j \in 1..k
      <4>1. Len(a) + j \in 1..Len(b)
        BY <2>1, <3>1
      <4>2. c[Len(a) + j] = b[Len(a) + j]
        BY <1>2, <4>1 DEF Grown
      <4> QED
        BY <1>2, <3>1, <4>2 DEF Grown
    <3>2. CASE j = k + 1
      <4>1. Len(a) + j = Len(b) + 1
        BY <2>1, <3>2
      <4>2. c[Len(b) + 1] = Row(Len(b) + 1 - 1, parent, p)
        BY <1>2 DEF Grown
      <4> QED
        BY <4>1, <4>2
    <3> QED
      BY <3>1, <3>2
  <2> QED
    BY <2>1, <2>2, <2>3 DEF Grown
<1>4. t.next = [o.next EXCEPT ![r] = @ + (k + 1)]
  <2>1. o.next \in [N -> Nat]
    BY DEF Outputs
  <2>2. q.next = [o.next EXCEPT ![r] = @ + k] /\ t.next = [q.next EXCEPT ![r] = @ + 1]
    BY DEF Extended
  <2>3. q.next[r] = o.next[r] + k /\ o.next[r] \in Nat
    BY <2>1, <2>2
  <2>4. t.next[r] = o.next[r] + (k + 1) /\ \A s \in N \ {r} : t.next[s] = o.next[s]
    BY <2>1, <2>2, <2>3
  <2>5. t.next \in [N -> Nat]
    BY DEF Outputs
  <2> QED
    BY <2>1, <2>4, <2>5
<1>5. t.begun = o.begun \cup {r} /\ k + 1 # 0
  BY DEF Extended
<1> QED
  BY <1>3, <1>4, <1>5 DEF Extended

\* The id of a row is taken, and the row is pushed.
AddsRow(N, o, q, r, parent, p, early) ==
  /\ o \in Outputs(N) /\ r \in N /\ parent \in Int /\ p \in Nat
  /\ \E a \in Outputs(N) : MovedOn(o, a, r) /\ q = Push(a, r, Row(o.next[r], parent, p), early)

LEMMA RowAdded ==
  ASSUME NEW N, NEW o, NEW q, NEW r, NEW parent, NEW p, NEW early, AddsRow(N, o, q, r, parent, p, early)
  PROVE  /\ q \in Outputs(N) /\ q.closed = o.closed
         /\ o.next[r] = Len(Content(o, r)) => Extended(o, q, r, parent, p, 1)
         /\ \A s \in N \ {r} : Content(q, s) = Content(o, s)
<1> DEFINE row == Row(o.next[r], parent, p)
<1>1. row \in DataRow /\ o \in Outputs(N) /\ r \in N
  <2>1. o \in Outputs(N) /\ r \in N /\ parent \in Int /\ p \in Nat
    BY DEF AddsRow
  <2>2. o.next[r] \in Nat
    BY <2>1 DEF Outputs
  <2> QED
    BY <2>1, <2>2 DEF Row, DataRow
<1>2. PICK a \in Outputs(N) : MovedOn(o, a, r) /\ q = Push(a, r, row, early)
  BY DEF AddsRow
<1> HIDE DEF row
<1>3. /\ q \in Outputs(N) /\ q.begun = o.begun \cup {r}
      /\ q.closed = o.closed /\ q.next = [o.next EXCEPT ![r] = @ + 1]
      /\ Content(q, r) = Append(Content(o, r), row)
      /\ \A s \in N \ {r} : Content(q, s) = Content(o, s)
  BY <1>1, <1>2, RowPushed
<1>4. ASSUME o.next[r] = Len(Content(o, r)) PROVE Extended(o, q, r, parent, p, 1)
  BY <1>1, <1>3, <1>4, RowExtends DEF row
<1> QED
  BY <1>3, <1>4

\* All the repeated values of a record.
LEMMA EventsAdded ==
  ASSUME NEW N, NEW o \in Outputs(N), "event" \in N, NEW parent \in Int, NEW p \in Nat, NEW early,
         o.next["event"] = Len(Content(o, "event")), NEW k \in Nat,
         NEW f, OutputsAfter(f, o, parent, p, early, k)
  PROVE  /\ f[k] \in Outputs(N) /\ f[k].closed = o.closed
         /\ Extended(o, f[k], "event", parent, p, k)
         /\ \A s \in N \ {"event"} : Content(f[k], s) = Content(o, s)
<1> DEFINE Good(i) == /\ f[i] \in Outputs(N) /\ f[i].closed = o.closed
                      /\ Extended(o, f[i], "event", parent, p, i)
                      /\ \A s \in N \ {"event"} : Content(f[i], s) = Content(o, s)
           T == {i \in 0..k : ~Good(i)}
<1>0. Content(o, "event") \in Seq(DataRow) /\ o.next \in [N -> Nat]
  BY ContentIs DEF Outputs
<1>1. Good(0)
  <2>1. f[0] = o
    BY DEF OutputsAfter
  <2>2. Grown(Content(o, "event"), Content(o, "event"), 0, parent, p)
    BY <1>0 DEF Grown
  <2>3. o.next = [o.next EXCEPT !["event"] = @ + 0]
    <3>1. o.next["event"] \in Nat /\ o.next["event"] + 0 = o.next["event"]
      BY <1>0
    <3>2. o.next = [o.next EXCEPT !["event"] = o.next["event"]]
      BY <1>0
    <3> QED
      BY <3>1, <3>2
  <2> QED
    BY <2>1, <2>2, <2>3 DEF Extended
<1>2. ASSUME NEW i \in 1..k, Good(i - 1) PROVE Good(i)
  <2> DEFINE q == f[i - 1]
  <2>1. i - 1 \in 0..k /\ i - 1 \in Nat /\ (i - 1) + 1 = i /\ i # 0 /\ i \in 0..k
    OBVIOUS
  <2>2. f[i] = EmitEvent(q, parent, p, early)
    BY <2>1 DEF OutputsAfter
  <2>3. /\ q \in Outputs(N) /\ q.closed = o.closed /\ Extended(o, q, "event", parent, p, i - 1)
        /\ \A s \in N \ {"event"} : Content(q, s) = Content(o, s)
    BY <1>2
  <2> HIDE DEF q, Good
  <2>4. q.next["event"] = Len(Content(q, "event"))
    BY <1>0, <2>3 DEF Extended, Grown
  <2> DEFINE t == f[i]
  <2>5. /\ t \in Outputs(N) /\ t.closed = q.closed
        /\ Extended(q, t, "event", parent, p, 1)
        /\ \A s \in N \ {"event"} : Content(t, s) = Content(q, s)
    <3>1. AddsRow(N, q, t, "event", parent, p, early)
      <4>1. Allocate(q, "event") \in Outputs(N) /\ MovedOn(q, Allocate(q, "event"), "event")
        BY <2>3, Allocated
      <4>2. t = Push(Allocate(q, "event"), "event", Row(q.next["event"], parent, p), early)
        BY <2>2 DEF EmitEvent
      <4> HIDE DEF t
      <4> QED
        BY <2>3, <4>1, <4>2 DEF AddsRow
    <3> HIDE DEF t
    <3> QED
      BY <2>4, <3>1, RowAdded
  <2>6. Extended(o, t, "event", parent, p, i)
    <3> HIDE DEF t
    <3>1. Extended(o, t, "event", parent, p, (i - 1) + 1)
      BY <2>1, <2>3, <2>5, ExtendedTwice
    <3> QED
      BY <2>1, <3>1
  <2> QED
    BY <2>3, <2>5, <2>6 DEF Good
<1> HIDE DEF Good
<1>3. ASSUME T # {} PROVE FALSE
  <2>1. PICK i \in T : \A y \in T : i <= y
    <3>1. T \in SUBSET Nat
      OBVIOUS
    <3> HIDE DEF T
    <3> QED
      BY <1>3, <3>1, LeastNumber
  <2>2. i # 0 /\ i \in 1..k /\ i - 1 \in 0..k /\ ~(i <= i - 1)
    BY <1>1, <2>1
  <2>3. Good(i - 1)
    BY <2>1, <2>2
  <2> QED
    BY <1>2, <2>1, <2>2, <2>3
<1>4. Good(k)
  BY <1>3
<1> QED
  BY <1>4 DEF Good

\* One record that is claimed: its occurrence, its root, its repeated values.
LEMMA Emitted ==
  ASSUME NEW m \in Envelopes, Claims(m), NEW o \in Outputs(HitraceRelations), NEW early, Len(source) \in Nat,
         \A r \in HitraceJoined : o.next[r] = Len(Content(o, r)),
         NEW q, q = Emit(o, m, early)
  PROVE  /\ q \in Outputs(HitraceRelations) /\ q.closed = o.closed
         /\ \A r \in HitraceJoined :
              Grown(Content(o, r), Content(q, r), HitraceRowCount(m, r),
                    IF HitraceAbove(r) = "none" THEN NoId ELSE Len(Content(o, HitraceAbove(r))),
                    Len(source) + 1)
         /\ \A r \in HitraceRelations \ HitraceJoined : Content(q, r) = Content(o, r)
         /\ \A r \in HitraceJoined : q.next[r] = Len(Content(q, r))
         /\ q.begun = o.begun \cup {r \in HitraceJoined : HitraceRowCount(m, r) > 0}
<1> DEFINE N == HitraceRelations
           p == Len(source) + 1
           id == o.next["occurrence"]
           k == Repeated(m)
<1>1. m.route \in Roots /\ k \in Nat
  BY EventCountsAssumption DEF Claims, Envelopes, Data, Config, Ftrace, Unclaimed, Roots, Repeated
<1>2. /\ "occurrence" \in N /\ m.route \in N /\ "event" \in N
      /\ m.route # "occurrence" /\ m.route # "event"
      /\ "occurrence" \in HitraceJoined /\ m.route \in HitraceJoined /\ "event" \in HitraceJoined
  BY <1>1 DEF HitraceRelations, HitraceJoined, Roots
<1>3. id \in Nat /\ o.next[m.route] \in Nat
  BY <1>2 DEF Outputs
\* The occurrence.
<1> DEFINE o1 == Push(Allocate(o, "occurrence"), "occurrence", Row(id, NoId, p), early)
<1>4. /\ o1 \in Outputs(N) /\ o1.closed = o.closed /\ Extended(o, o1, "occurrence", NoId, p, 1)
      /\ \A s \in N \ {"occurrence"} : Content(o1, s) = Content(o, s)
  <2>1. AddsRow(N, o, o1, "occurrence", NoId, p, early)
    <3>1. Allocate(o, "occurrence") \in Outputs(N) /\ MovedOn(o, Allocate(o, "occurrence"), "occurrence")
      BY <1>2, Allocated
    <3>2. NoId \in Int /\ p \in Nat /\ o \in Outputs(N)
      BY DEF NoId
    <3>3. o1 = Push(Allocate(o, "occurrence"), "occurrence", Row(o.next["occurrence"], NoId, p), early)
      OBVIOUS
    <3> HIDE DEF p, N, o1
    <3> QED
      BY <1>2, <3>1, <3>2, <3>3 DEF AddsRow
  <2>2. o.next["occurrence"] = Len(Content(o, "occurrence"))
    BY <1>2
  <2> HIDE DEF p, N, o1
  <2> QED
    BY <2>1, <2>2, RowAdded
\* The root.
<1>5. o1.next = [o.next EXCEPT !["occurrence"] = @ + 1] /\ o1.begun = o.begun \cup {"occurrence"}
  BY <1>4 DEF Extended
<1>6. o1.next[m.route] = o.next[m.route] /\ o1.next["event"] = o.next["event"]
  BY <1>2, <1>5 DEF Outputs
<1> DEFINE o2 == Push(Allocate(o1, m.route), m.route, Row(o1.next[m.route], id, p), early)
<1> HIDE DEF o1
<1>7. /\ o2 \in Outputs(N) /\ o2.closed = o.closed /\ Extended(o1, o2, m.route, id, p, 1)
      /\ \A s \in N \ {m.route} : Content(o2, s) = Content(o1, s)
  <2>1. AddsRow(N, o1, o2, m.route, id, p, early)
    <3>1. Allocate(o1, m.route) \in Outputs(N) /\ MovedOn(o1, Allocate(o1, m.route), m.route)
      BY <1>2, <1>4, Allocated
    <3>2. id \in Int /\ p \in Nat /\ o1 \in Outputs(N)
      BY <1>3, <1>4
    <3> HIDE DEF p, N, id
    <3> QED
      BY <1>2, <3>1, <3>2 DEF AddsRow
  <2>2. o1.next[m.route] = Len(Content(o1, m.route)) /\ o1.closed = o.closed
    BY <1>2, <1>4, <1>6
  <2> HIDE DEF p, N, id, o2
  <2> QED
    BY <2>1, <2>2, RowAdded
<1>8. o2.next = [o1.next EXCEPT ![m.route] = @ + 1] /\ o2.begun = o1.begun \cup {m.route}
  BY <1>7 DEF Extended
<1> DEFINE f == CHOOSE after :
                  after = [i \in 0..k |-> IF i = 0 THEN o2 ELSE EmitEvent(after[i - 1], o1.next[m.route], p, early)]
\* The repeated values.
<1>9. q = f[k]
  BY DEF Emit, EmitRoot, o1
<1> HIDE DEF o2
<1>10. OutputsAfter(f, o2, o1.next[m.route], p, early, k)
  <2>1. \E g : OutputsAfter(g, o2, o1.next[m.route], p, early, k)
    BY <1>1, OutputsAfterExist
  <2> QED
    BY <2>1 DEF OutputsAfter
<1> HIDE DEF f
<1>11. /\ q \in Outputs(N) /\ q.closed = o.closed
       /\ Extended(o2, q, "event", o1.next[m.route], p, k)
       /\ \A s \in N \ {"event"} : Content(q, s) = Content(o2, s)
  <2>1. o1.next[m.route] \in Int /\ p \in Nat /\ o2 \in Outputs(N) /\ o2.closed = o.closed
    BY <1>3, <1>6, <1>7
  <2>2. o2.next["event"] = Len(Content(o2, "event"))
    <3>1. o2.next["event"] = o.next["event"]
      BY <1>2, <1>4, <1>6, <1>8 DEF Outputs
    <3>2. Content(o2, "event") = Content(o, "event")
      BY <1>2, <1>4, <1>7
    <3>3. o.next["event"] = Len(Content(o, "event"))
      BY <1>2
    <3> QED
      BY <3>1, <3>2, <3>3
  <2> HIDE DEF p, N, k
  <2> QED
    BY <1>1, <1>2, <1>9, <1>10, <2>1, <2>2, EventsAdded
<1>12. q.next = [o2.next EXCEPT !["event"] = @ + k]
       /\ q.begun = IF k = 0 THEN o2.begun ELSE o2.begun \cup {"event"}
  BY <1>11 DEF Extended
<1> DEFINE c(r) == Content(o, r)
           d(r) == Content(q, r)
           n(r) == HitraceRowCount(m, r)
           above(r) == IF HitraceAbove(r) = "none" THEN NoId ELSE Len(Content(o, HitraceAbove(r)))
<1>13. \A r \in N : c(r) \in Seq(DataRow) /\ d(r) \in Seq(DataRow)
  BY <1>11, ContentIs
\* Relation by relation.
<1>14. /\ n("occurrence") = 1 /\ above("occurrence") = NoId /\ Grown(c("occurrence"), d("occurrence"), 1, NoId, p)
  <2>1. n("occurrence") = 1 /\ above("occurrence") = NoId
    BY <1>1 DEF HitraceRowCount, HitraceAbove, Roots
  <2>2. d("occurrence") = Content(o1, "occurrence")
    BY <1>2, <1>7, <1>11
  <2> QED
    BY <1>4, <2>1, <2>2 DEF Extended
<1>15. n(m.route) = 1 /\ above(m.route) = id /\ Grown(c(m.route), d(m.route), 1, id, p)
  <2>1. n(m.route) = 1 /\ HitraceAbove(m.route) = "occurrence"
    BY <1>1 DEF HitraceRowCount, HitraceAbove, Roots
  <2>2. above(m.route) = id
    BY <1>2, <2>1
  <2>3. d(m.route) = Content(o2, m.route) /\ c(m.route) = Content(o1, m.route)
    BY <1>2, <1>4, <1>11
  <2> QED
    BY <1>7, <2>1, <2>2, <2>3 DEF Extended
<1>16. n("event") = k /\ Grown(c("event"), d("event"), k, above("event"), p)
  <2>1. n("event") = k /\ HitraceAbove("event") = "data"
    BY DEF HitraceRowCount, HitraceAbove, Roots
  <2>2. Content(o2, "event") = c("event")
    BY <1>2, <1>4, <1>7
  <2>3. Grown(c("event"), d("event"), k, o1.next[m.route], p)
    BY <1>11, <2>2 DEF Extended
  <2>4. CASE m.route = "data"
    <3>1. above("event") = o.next["data"] /\ o1.next[m.route] = o.next["data"]
      BY <1>2, <1>6, <2>1, <2>4
    <3> QED
      BY <2>1, <2>3, <3>1
  <2>5. CASE m.route # "data"
    <3>1. k = 0
      BY <2>5 DEF Repeated
    <3> HIDE DEF c, d, above, k, p
    <3> QED
      BY <2>1, <2>3, <3>1 DEF Grown
  <2> QED
    BY <2>4, <2>5
<1>17. ASSUME NEW r \in Roots, r # m.route
       PROVE  n(r) = 0 /\ Grown(c(r), d(r), 0, above(r), p) /\ d(r) = c(r)
  <2>1. n(r) = 0
    BY <1>17 DEF HitraceRowCount, Roots
  <2>2. r \in N /\ r # "event" /\ r # "occurrence"
    BY DEF HitraceRelations, HitraceJoined, Roots
  <2>3. d(r) = c(r)
    BY <1>4, <1>7, <1>11, <1>17, <2>2
  <2>4. c(r) \in Seq(DataRow)
    BY <1>13, <2>2
  <2> HIDE DEF c, d, above, n, p
  <2> QED
    BY <2>1, <2>3, <2>4 DEF Grown
<1>18. \A r \in HitraceJoined : r = "occurrence" \/ r = m.route \/ r = "event" \/ (r \in Roots /\ r # m.route)
  BY DEF HitraceJoined
<1>19. ASSUME NEW r \in HitraceJoined PROVE Grown(c(r), d(r), n(r), above(r), p)
  <2> HIDE DEF c, d, n, above, p, id, k
  <2> QED
    BY <1>14, <1>15, <1>16, <1>17, <1>18
<1>20. ASSUME NEW r \in HitraceRelations \ HitraceJoined PROVE d(r) = c(r)
  BY <1>2, <1>4, <1>7, <1>11
<1>21. ASSUME NEW r \in HitraceJoined PROVE q.next[r] = Len(d(r))
  <2>1. q.next[r] = o.next[r] + n(r)
    <3>1. r \in N /\ o.next[r] \in Nat /\ o1.next \in [N -> Nat] /\ o2.next \in [N -> Nat] /\ o.next \in [N -> Nat]
      BY <1>4, <1>7 DEF HitraceRelations, Outputs
    <3>2. CASE r = "occurrence"
      BY <1>2, <1>5, <1>8, <1>12, <1>14, <3>1, <3>2
    <3>3. CASE r = m.route
      BY <1>2, <1>5, <1>8, <1>12, <1>15, <3>1, <3>3
    <3>4. CASE r = "event"
      BY <1>2, <1>5, <1>8, <1>12, <1>16, <3>1, <3>4
    <3>5. CASE r \in Roots /\ r # m.route
      <4>1. r # "event" /\ r # "occurrence" /\ n(r) = 0
        BY <1>17, <3>5 DEF Roots
      <4> QED
        BY <1>2, <1>5, <1>8, <1>12, <3>1, <3>5, <4>1
    <3> QED
      BY <1>18, <3>2, <3>3, <3>4, <3>5
  <2>2. Len(d(r)) = Len(c(r)) + n(r) /\ o.next[r] = Len(c(r))
    BY <1>19 DEF Grown
  <2> QED
    BY <2>1, <2>2
<1>22. q.begun = o.begun \cup {r \in HitraceJoined : n(r) > 0}
  <2>1. q.begun = o.begun \cup {"occurrence", m.route} \cup (IF k = 0 THEN {} ELSE {"event"})
    BY <1>5, <1>8, <1>12
  <2>2. \A r \in HitraceJoined : n(r) > 0 <=> r = "occurrence" \/ r = m.route \/ (r = "event" /\ k # 0)
    <3> SUFFICES ASSUME NEW r \in HitraceJoined
                 PROVE  n(r) > 0 <=> r = "occurrence" \/ r = m.route \/ (r = "event" /\ k # 0)
      OBVIOUS
    <3>1. CASE r = "occurrence" \/ r = m.route
      BY <1>14, <1>15, <3>1
    <3>2. CASE r = "event"
      BY <1>1, <1>2, <1>16, <3>2
    <3>3. CASE r \in Roots /\ r # m.route
      BY <1>17, <3>3 DEF Roots
    <3> QED
      BY <1>18, <3>1, <3>2, <3>3
  <2> HIDE DEF n, k
  <2> QED
    BY <1>2, <2>1, <2>2
<1> QED
  BY <1>11, <1>19, <1>20, <1>21, <1>22

\* One event of a known kind: its occurrence, its root, its payload.
Occurrence == "text_ftrace_event_occurrence"
Event == "text_ftrace_event"

LEMMA KindsApart ==
  /\ Kinds \subseteq TextRelations /\ Kinds \subseteq TextJoined
  /\ {Occurrence, Event} \subseteq TextRelations /\ {Occurrence, Event} \subseteq TextJoined
  /\ \A k \in Kinds : k # Occurrence /\ k # Event /\ k # "text_ftrace_header"
                      /\ k # "text_ftrace_unsupported_event" /\ k \notin OtherKinds
BY KindsAssumption DEF TextRelations, TextJoined, Occurrence, Event

LEMMA EventPushed ==
  ASSUME NEW e \in Events, e.kind \in Kinds, NEW o \in Outputs(TextRelations), Len(source) \in Nat,
         \A r \in TextJoined \ {Occurrence} : o.next[r] = Len(Content(o, r)),
         Len(Content(o, Occurrence)) = Len(Content(o, Event)),
         NEW q, q = PushEvent(o, e)
  PROVE  /\ q \in Outputs(TextRelations) /\ q.closed = o.closed
         /\ \A r \in TextJoined :
              Grown(Content(o, r), Content(q, r), TextRowCount(e, r),
                    IF TextAbove(r) = "none" THEN NoId ELSE Len(Content(o, TextAbove(r))), Len(source) + 1)
         /\ \A r \in TextRelations \ TextJoined : Content(q, r) = Content(o, r)
         /\ \A r \in TextJoined \ {Occurrence} : q.next[r] = Len(Content(q, r))
         /\ q.begun = o.begun \cup {r \in TextJoined : TextRowCount(e, r) > 0}
<1> DEFINE N == TextRelations
           p == Len(source) + 1
           k == e.kind
           base == o.next[Event]
<1>1. /\ Occurrence \in N /\ Event \in N /\ k \in N /\ p \in Nat
      /\ Occurrence # Event /\ k # Occurrence /\ k # Event
      /\ Occurrence \in TextJoined /\ Event \in TextJoined /\ k \in TextJoined
  BY KindsApart DEF Occurrence, Event
<1>2. /\ base \in Nat /\ o.next[k] \in Nat /\ base = Len(Content(o, Event)) /\ base = Len(Content(o, Occurrence))
      /\ o.next[k] = Len(Content(o, k))
  BY <1>1 DEF Outputs
<1> DEFINE early == FALSE
           o1 == TakeNext(o, Event)
           row2 == Row(base, NoId, p)
           o2 == Push(o1, Occurrence, row2, early)
           row3 == Row(base, base, p)
           o3 == Push(o2, Event, row3, early)
           o4 == TakeNext(o3, k)
           row5 == Row(o.next[k], base, p)
           o5 == Push(o4, k, row5, early)
<1>4. q = o5
  BY DEF PushEvent, Occurrence, Event
<1>3. row2 \in DataRow /\ row3 \in DataRow /\ row5 \in DataRow
  BY <1>1, <1>2 DEF Row, NoId, DataRow
<1> HIDE DEF early, row2, row3, row5
<1>5. o1 \in Outputs(N) /\ MovedOn(o, o1, Event)
  BY <1>1, TookNext
<1> HIDE DEF o1
<1>6. /\ o2 \in Outputs(N) /\ o2.begun = o1.begun \cup {Occurrence} /\ o2.closed = o1.closed /\ o2.next = o1.next
      /\ Content(o2, Occurrence) = Append(Content(o1, Occurrence), row2)
      /\ \A s \in N \ {Occurrence} : Content(o2, s) = Content(o1, s)
  <2> HIDE DEF N, p, base
  <2> QED
    BY <1>1, <1>3, <1>5, Pushed
<1> HIDE DEF o2
<1>7. /\ o3 \in Outputs(N) /\ o3.begun = o2.begun \cup {Event} /\ o3.closed = o2.closed /\ o3.next = o2.next
      /\ Content(o3, Event) = Append(Content(o2, Event), row3)
      /\ \A s \in N \ {Event} : Content(o3, s) = Content(o2, s)
  <2> HIDE DEF N, p, base
  <2> QED
    BY <1>1, <1>3, <1>6, Pushed
<1> HIDE DEF o3
<1>8. o4 \in Outputs(N) /\ MovedOn(o3, o4, k)
  BY <1>1, <1>7, TookNext
<1> HIDE DEF o4
<1>9. /\ o5 \in Outputs(N) /\ o5.begun = o4.begun \cup {k} /\ o5.closed = o4.closed /\ o5.next = o4.next
      /\ Content(o5, k) = Append(Content(o4, k), row5)
      /\ \A s \in N \ {k} : Content(o5, s) = Content(o4, s)
  <2> HIDE DEF N, p, base
  <2> QED
    BY <1>1, <1>3, <1>8, Pushed
<1> HIDE DEF o5
<1>10. \A s \in N : Content(o1, s) = Content(o, s) /\ Content(o4, s) = Content(o3, s)
  BY <1>5, <1>8 DEF MovedOn, Content
<1>11. q \in Outputs(N) /\ q.closed = o.closed /\ q.begun = o.begun \cup {Occurrence, Event, k}
  BY <1>4, <1>5, <1>6, <1>7, <1>8, <1>9 DEF MovedOn
<1> DEFINE c(r) == Content(o, r)
           d(r) == Content(q, r)
           n(r) == TextRowCount(e, r)
           above(r) == IF TextAbove(r) = "none" THEN NoId ELSE Len(Content(o, TextAbove(r)))
<1>12. /\ d(Occurrence) = Append(c(Occurrence), Row(base, NoId, p))
       /\ d(Event) = Append(c(Event), Row(base, base, p))
       /\ d(k) = Append(c(k), Row(o.next[k], base, p))
       /\ \A r \in N \ {Occurrence, Event, k} : d(r) = c(r)
  BY <1>1, <1>4, <1>6, <1>7, <1>9, <1>10 DEF row2, row3, row5
<1>13. \A r \in N : c(r) \in Seq(DataRow) /\ d(r) \in Seq(DataRow)
  BY <1>11, ContentIs
<1>14. \A r \in N : n(r) = IF r \in {Occurrence, Event, k} THEN 1 ELSE 0
  BY DEF TextRowCount, Occurrence, Event
<1>15. above(Occurrence) = NoId /\ \A r \in N \ {Occurrence} : above(r) = base
  BY <1>2 DEF TextAbove, Occurrence, Event
<1>16. ASSUME NEW r \in TextJoined PROVE Grown(c(r), d(r), n(r), above(r), p)
  <2>1. r \in N
    BY DEF TextRelations
  <2>2. CASE r = Occurrence
    <3>1. c(r) \in Seq(DataRow) /\ d(r) = Append(c(r), Row(Len(c(r)), NoId, p)) /\ n(r) = 1 /\ above(r) = NoId
      BY <1>1, <1>2, <1>12, <1>13, <1>14, <1>15, <2>2
    <3> HIDE DEF c, d, n, above, p
    <3> QED
      BY <3>1, AppendGrows
  <2>3. CASE r = Event
    <3>1. c(r) \in Seq(DataRow) /\ d(r) = Append(c(r), Row(Len(c(r)), base, p)) /\ n(r) = 1 /\ above(r) = base
      BY <1>1, <1>2, <1>12, <1>13, <1>14, <1>15, <2>3
    <3> HIDE DEF c, d, n, above, p
    <3> QED
      BY <3>1, AppendGrows
  <2>4. CASE r = k
    <3>1. c(r) \in Seq(DataRow) /\ d(r) = Append(c(r), Row(Len(c(r)), base, p)) /\ n(r) = 1 /\ above(r) = base
      BY <1>1, <1>2, <1>12, <1>13, <1>14, <1>15, <2>4
    <3> HIDE DEF c, d, n, above, p
    <3> QED
      BY <3>1, AppendGrows
  <2>5. CASE r \notin {Occurrence, Event, k}
    <3>1. c(r) \in Seq(DataRow) /\ d(r) = c(r) /\ n(r) = 0
      BY <1>12, <1>13, <1>14, <2>1, <2>5
    <3> HIDE DEF c, d, n, above, p
    <3> QED
      BY <3>1 DEF Grown
  <2> QED
    BY <2>2, <2>3, <2>4, <2>5
<1>17. ASSUME NEW r \in TextRelations \ TextJoined PROVE d(r) = c(r)
  BY <1>1, <1>12
<1>18. ASSUME NEW r \in TextJoined \ {Occurrence} PROVE q.next[r] = Len(d(r))
  <2>1. r \in N
    BY DEF TextRelations
  <2>2. q.next = [[o.next EXCEPT ![Event] = @ + 1] EXCEPT ![k] = @ + 1]
    BY <1>4, <1>5, <1>6, <1>7, <1>8, <1>9 DEF MovedOn
  <2>3. o.next \in [N -> Nat]
    BY DEF Outputs
  <2>4. q.next[r] = o.next[r] + n(r)
    BY <1>1, <1>14, <2>1, <2>2, <2>3
  <2>5. Len(d(r)) = Len(c(r)) + n(r) /\ o.next[r] = Len(c(r))
    BY <1>16 DEF Grown
  <2> QED
    BY <2>4, <2>5
<1>19. q.begun = o.begun \cup {r \in TextJoined : n(r) > 0}
  <2>1. \A r \in TextJoined : n(r) > 0 <=> r \in {Occurrence, Event, k}
    BY <1>14 DEF TextRelations
  <2> HIDE DEF n
  <2> QED
    BY <1>1, <1>11, <2>1
<1> QED
  BY <1>11, <1>16, <1>17, <1>18, <1>19

-----------------------------------------------------------------------------
(* The end of a trace. *)

\* A relation with its only rows.
LEMMA Filled ==
  ASSUME NEW N, NEW o \in Outputs(N), NEW r \in N, NEW rows \in Seq(DataRow)
  PROVE  LET q == Fill(o, r, rows)
         IN /\ q \in Outputs(N) /\ q.begun = o.begun \cup {r} /\ q.closed = o.closed /\ q.file = o.file
            /\ q.buffer[r] = rows /\ \A s \in N \ {r} : q.buffer[s] = o.buffer[s]
<1> DEFINE b == Begin(o, r)
           f == [o.buffer EXCEPT ![r] = rows]
           q == Fill(o, r, rows)
<1>1. /\ b \in Outputs(N) /\ b.begun = o.begun \cup {r}
      /\ b.closed = o.closed /\ b.next = o.next
      /\ b.buffer = o.buffer /\ b.file = o.file
  BY Began
<1>2. f \in [N -> Seq(DataRow)] /\ f[r] = rows /\ \A s \in N \ {r} : f[s] = o.buffer[s]
  BY DEF Outputs
<1>3. q = [b EXCEPT !.buffer = f]
  <2> HIDE DEF b
  <2>1. q = [b EXCEPT !.buffer = [b.buffer EXCEPT ![r] = rows]]
    BY <1>1 DEF Fill, Outputs, b
  <2> QED
    BY <1>1, <2>1
<1> HIDE DEF b, f, q
<1>4. q \in Outputs(N) /\ q.buffer = f /\ q.begun = b.begun /\ q.closed = b.closed /\ q.file = b.file
  BY <1>1, <1>2, <1>3 DEF Outputs
<1>5. /\ q \in Outputs(N) /\ q.begun = o.begun \cup {r} /\ q.closed = o.closed /\ q.file = o.file
      /\ q.buffer[r] = rows /\ \A s \in N \ {r} : q.buffer[s] = o.buffer[s]
  BY <1>1, <1>2, <1>4
<1> QED
  BY <1>5 DEF q

LEMMA Wholly ==
  ASSUME NEW N, NEW o \in Outputs(N), NEW r \in N, NEW rows \in Seq(DataRow), o.file[r] = <<>>
  PROVE  LET q == Whole(o, r, rows)
         IN /\ q \in Outputs(N) /\ q.begun = o.begun \cup {r} /\ q.closed = o.closed \cup {r}
            /\ q.file[r] = rows /\ q.buffer[r] = <<>>
            /\ \A s \in N \ {r} : q.file[s] = o.file[s] /\ q.buffer[s] = o.buffer[s]
<1> DEFINE a == Fill(o, r, rows)
           b == Flush(a, r)
           q == Whole(o, r, rows)
<1>1. /\ a \in Outputs(N) /\ a.begun = o.begun \cup {r} /\ a.closed = o.closed /\ a.file = o.file
      /\ a.buffer[r] = rows /\ \A s \in N \ {r} : a.buffer[s] = o.buffer[s]
  BY Filled
<1> HIDE DEF a
<1>2. /\ b \in Outputs(N) /\ b.begun = a.begun
      /\ b.closed = a.closed /\ b.next = a.next
      /\ b.file[r] = Content(a, r) /\ b.buffer[r] = <<>>
      /\ \A s \in N \ {r} : b.file[s] = a.file[s] /\ b.buffer[s] = a.buffer[s]
  BY <1>1, Flushed
<1>3. q = [b EXCEPT !.closed = @ \cup {r}]
  BY DEF Whole, Close, a
<1> HIDE DEF b, q
<1>4. /\ q \in Outputs(N) /\ q.begun = b.begun /\ q.closed = b.closed \cup {r}
      /\ q.file = b.file /\ q.buffer = b.buffer
  BY <1>2, <1>3 DEF Outputs
<1>5. Content(a, r) = rows
  BY <1>1 DEF Content
<1>6. /\ q \in Outputs(N) /\ q.begun = o.begun \cup {r} /\ q.closed = o.closed \cup {r}
      /\ q.file[r] = rows /\ q.buffer[r] = <<>>
      /\ \A s \in N \ {r} : q.file[s] = o.file[s] /\ q.buffer[s] = o.buffer[s]
  BY <1>1, <1>2, <1>4, <1>5
<1> QED
  BY <1>6 DEF q

\* The relations rs are finished.
Closes(N, o, q, rs) == o \in Outputs(N) /\ rs \in SUBSET N /\ q = CloseAll(o, rs)

LEMMA AllClosed ==
  ASSUME NEW N, NEW o, NEW q, NEW rs, Closes(N, o, q, rs)
  PROVE  /\ q \in Outputs(N) /\ q.begun = o.begun /\ q.closed = o.closed \cup rs
         /\ \A r \in rs : q.file[r] = Content(o, r) /\ q.buffer[r] = <<>>
         /\ \A r \in N \ rs : q.file[r] = o.file[r] /\ q.buffer[r] = o.buffer[r]
<1>0. o \in Outputs(N) /\ rs \in SUBSET N /\ q = CloseAll(o, rs)
  BY DEF Closes
<1> DEFINE f == [r \in N |-> IF r \in rs THEN Content(o, r) ELSE o.file[r]]
           g == [r \in N |-> IF r \in rs THEN <<>> ELSE o.buffer[r]]
<1>1. o.file \in [N -> Seq(DataRow)] /\ o.buffer \in [N -> Seq(DataRow)]
  BY <1>0 DEF Outputs
<1>2. \A r \in N : Content(o, r) \in Seq(DataRow)
  BY <1>0, ContentIs
<1>3. f \in [N -> Seq(DataRow)] /\ g \in [N -> Seq(DataRow)]
  BY <1>1, <1>2
<1>4. q = [o EXCEPT !.file = f, !.buffer = g, !.closed = @ \cup rs]
  <2>1. f = [r \in DOMAIN o.file |-> IF r \in rs THEN o.file[r] \o o.buffer[r] ELSE o.file[r]]
    BY <1>1 DEF Content
  <2>2. g = [r \in DOMAIN o.buffer |-> IF r \in rs THEN <<>> ELSE o.buffer[r]]
    BY <1>1
  <2>3. q = [o EXCEPT !.file = [r \in DOMAIN o.file |-> IF r \in rs THEN o.file[r] \o o.buffer[r] ELSE o.file[r]],
                      !.buffer = [r \in DOMAIN o.buffer |-> IF r \in rs THEN <<>> ELSE o.buffer[r]],
                      !.closed = @ \cup rs]
    BY <1>0 DEF CloseAll, Outputs
  <2> HIDE DEF f, g
  <2> QED
    BY <2>1, <2>2, <2>3
<1>5. /\ \A r \in rs : f[r] = Content(o, r) /\ g[r] = <<>>
      /\ \A r \in N \ rs : f[r] = o.file[r] /\ g[r] = o.buffer[r]
  BY <1>0
<1> HIDE DEF f, g
<1>6. q.file = f /\ q.buffer = g /\ q.closed = o.closed \cup rs /\ q.begun = o.begun
  BY <1>0, <1>4 DEF Outputs
<1>7. q \in Outputs(N)
  BY <1>0, <1>3, <1>4 DEF Outputs
<1> QED
  BY <1>5, <1>6, <1>7

\* The relations of a staging directory while the trace is read.
Open(o, N, J) ==
  /\ o \in Outputs(N) /\ o.closed = {}
  /\ \A r \in N : r \in o.begun <=> Content(o, r) # <<>>
  /\ \A r \in N \ J : Content(o, r) = <<>>

LEMMA HitraceClosed ==
  ASSUME NEW o, Open(o, HitraceRelations, HitraceJoined), facts = 1, NEW q, q = WithClocks(Finished(o))
  PROVE  /\ q.closed = {r \in HitraceRelations : q.file[r] # <<>>}
         /\ \A r \in HitraceJoined : q.file[r] = Content(o, r)
         /\ q.file["protobuf_enum_symbol"] = Listed(EnumOrigins \cap o.begun)
         /\ \A r \in {"clock_domain", "clock_snapshot"} : q.file[r] = <<Row(NoId, NoId, 0)>>
<1> DEFINE N == HitraceRelations
           a == CloseAll(o, o.begun)
           rows == Listed(EnumOrigins \cap o.begun)
           clock == <<Row(NoId, NoId, 0)>>
           sym == "protobuf_enum_symbol"
<1>1. o \in Outputs(N) /\ o.begun \in SUBSET N /\ o.closed = {}
  BY DEF Open, Outputs
<1>2. /\ a \in Outputs(N) /\ a.begun = o.begun /\ a.closed = o.begun
      /\ \A r \in N : a.file[r] = Content(o, r) /\ a.buffer[r] = <<>>
  <2>1. /\ a \in Outputs(N) /\ a.begun = o.begun /\ a.closed = o.closed \cup o.begun
        /\ \A r \in o.begun : a.file[r] = Content(o, r) /\ a.buffer[r] = <<>>
        /\ \A r \in N \ o.begun : a.file[r] = o.file[r] /\ a.buffer[r] = o.buffer[r]
    <3>1. Closes(N, o, a, o.begun)
      BY <1>1 DEF Closes
    <3> HIDE DEF N, a
    <3> QED
      BY <3>1, AllClosed
  <2>2. ASSUME NEW r \in N, r \notin o.begun PROVE o.file[r] = Content(o, r) /\ o.buffer[r] = <<>>
    <3>1. Content(o, r) = <<>>
      BY <2>2 DEF Open
    <3> QED
      BY <1>1, <3>1, ContentIs
  <2> HIDE DEF a, N
  <2> QED
    BY <1>1, <2>1, <2>2
<1> HIDE DEF a
<1>3. /\ sym \in N /\ "clock_domain" \in N /\ "clock_snapshot" \in N
      /\ \A r \in {sym, "clock_domain", "clock_snapshot"} : r \notin HitraceJoined /\ Content(o, r) = <<>>
      /\ \A r \in N : r \in HitraceJoined \/ r \in {sym, "clock_domain", "clock_snapshot"}
      /\ HitraceJoined \subseteq N
  BY DEF HitraceRelations, HitraceJoined, Roots, Open
<1>4. rows \in Seq(DataRow)
  <2>1. IsFiniteSet(EnumOrigins \cap o.begun)
    <3> DEFINE T == {"data", "config", "ftrace_data", "ftrace_config", "event", "occurrence"}
    <3>1. IsFiniteSet(T)
      <4>1. IsFiniteSet({"data"})
        BY FS_Singleton
      <4>2. IsFiniteSet({"data"} \cup {"config"})
        BY <4>1, FS_AddElement
      <4>3. IsFiniteSet({"data", "config"} \cup {"ftrace_data"})
        BY <4>2, FS_AddElement
      <4>4. IsFiniteSet({"data", "config", "ftrace_data"} \cup {"ftrace_config"})
        BY <4>3, FS_AddElement
      <4>5. IsFiniteSet({"data", "config", "ftrace_data", "ftrace_config"} \cup {"event"})
        BY <4>4, FS_AddElement
      <4>6. IsFiniteSet({"data", "config", "ftrace_data", "ftrace_config", "event"} \cup {"occurrence"})
        BY <4>5, FS_AddElement
      <4>7. T = {"data", "config", "ftrace_data", "ftrace_config", "event"} \cup {"occurrence"}
        OBVIOUS
      <4> QED
        BY <4>6, <4>7
    <3>2. EnumOrigins \cap o.begun \in SUBSET T
      BY EnumOriginsAssumption
    <3> HIDE DEF T
    <3> QED
      BY <3>1, <3>2, FS_Subset
  <2>2. EnumOrigins \cap o.begun \subseteq OtherKinds \cup HitraceRelations
    BY <1>1
  <2> QED
    BY <2>1, <2>2, ListedRows
<1>5. clock \in Seq(DataRow) /\ clock # <<>> /\ [i \in 1..facts |-> Row(NoId, NoId, 0)] = clock
  <2>1. Row(NoId, NoId, 0) \in DataRow
    BY DEF Row, NoId, DataRow
  <2>2. facts = 1
    OBVIOUS
  <2> QED
    BY <2>1, <2>2
<1> HIDE DEF rows, clock
<1> DEFINE b == IF rows = <<>> THEN a ELSE Whole(a, sym, rows)
<1>6. b = Finished(o)
  BY DEF Finished, SymbolRows, a, rows
<1>7. /\ b \in Outputs(N) /\ b.closed = o.begun \cup (IF rows = <<>> THEN {} ELSE {sym})
      /\ b.file[sym] = rows
      /\ \A r \in N \ {sym} : b.file[r] = Content(o, r)
  <2>1. a.file[sym] = <<>>
    BY <1>2, <1>3
  <2>2. CASE rows = <<>>
    BY <1>2, <1>3, <2>1, <2>2
  <2>3. CASE rows # <<>>
    <3> DEFINE c == Whole(a, sym, rows)
    <3>1. /\ c \in Outputs(N) /\ c.begun = a.begun \cup {sym} /\ c.closed = a.closed \cup {sym}
          /\ c.file[sym] = rows /\ c.buffer[sym] = <<>>
          /\ \A s \in N \ {sym} : c.file[s] = a.file[s] /\ c.buffer[s] = a.buffer[s]
      <4> HIDE DEF N, sym
      <4> QED
        BY <1>2, <1>3, <1>4, <2>1, Wholly
    <3>2. b = c
      BY <2>3
    <3> HIDE DEF c, b
    <3> QED
      BY <1>2, <2>3, <3>1, <3>2
  <2> QED
    BY <2>2, <2>3
<1> HIDE DEF b
<1> DEFINE d == Whole(b, "clock_domain", clock)
<1>8. /\ d \in Outputs(N) /\ d.closed = b.closed \cup {"clock_domain"}
      /\ d.file["clock_domain"] = clock
      /\ \A s \in N \ {"clock_domain"} : d.file[s] = b.file[s]
  <2>1. b.file["clock_domain"] = <<>>
    BY <1>3, <1>7
  <2> HIDE DEF N
  <2> QED
    BY <1>3, <1>5, <1>7, <2>1, Wholly
<1> HIDE DEF d
<1> DEFINE e == Whole(d, "clock_snapshot", clock)
<1>9. /\ e \in Outputs(N) /\ e.closed = d.closed \cup {"clock_snapshot"}
      /\ e.file["clock_snapshot"] = clock
      /\ \A s \in N \ {"clock_snapshot"} : e.file[s] = d.file[s]
  <2>1. d.file["clock_snapshot"] = <<>>
    BY <1>3, <1>7, <1>8
  <2> HIDE DEF N
  <2> QED
    BY <1>3, <1>5, <1>8, <2>1, Wholly
<1>10. q = e
  BY <1>5, <1>6 DEF WithClocks, d
<1> HIDE DEF e
<1>11. /\ q.closed = o.begun \cup (IF rows = <<>> THEN {} ELSE {sym}) \cup {"clock_domain", "clock_snapshot"}
       /\ q.file[sym] = rows /\ q.file["clock_domain"] = clock /\ q.file["clock_snapshot"] = clock
       /\ \A r \in N \ {sym, "clock_domain", "clock_snapshot"} : q.file[r] = Content(o, r)
  BY <1>3, <1>7, <1>8, <1>9, <1>10
<1>12. \A r \in N : r \in q.closed <=> q.file[r] # <<>>
  <2>1. \A r \in N : r \in o.begun <=> Content(o, r) # <<>>
    BY DEF Open
  <2> HIDE DEF N
  <2> QED
    BY <1>3, <1>5, <1>11, <2>1
<1>13. q.closed \subseteq N
  BY <1>1, <1>3, <1>11
<1> QED
  BY <1>3, <1>11, <1>12, <1>13 DEF rows, clock

LEMMA TextClosed ==
  ASSUME NEW o, Open(o, TextRelations, TextJoined), report.events \subseteq OtherKinds,
         IsFiniteSet(report.events), header.tgid \in BOOLEAN, NEW q, q = Tabled(o)
  PROVE  /\ q.closed = {r \in TextRelations : q.file[r] # <<>>}
         /\ \A r \in TextJoined : q.file[r] = Content(o, r)
         /\ q.file["text_ftrace_unsupported_event"] = Listed(report.events)
         /\ q.file["text_ftrace_header"] = <<Row(NoId, NoId, header.tgid)>>
<1> DEFINE N == TextRelations
           u == "text_ftrace_unsupported_event"
           h == "text_ftrace_header"
           rows == Listed(report.events)
           head == <<Row(NoId, NoId, header.tgid)>>
           a == IF report.events = {} THEN o ELSE Fill(o, u, rows)
<1>1. o \in Outputs(N) /\ o.begun \in SUBSET N /\ o.closed = {}
  BY DEF Open, Outputs
<1>2. /\ u \in N /\ h \in N /\ u # h /\ u \notin TextJoined /\ h \notin TextJoined
      /\ Content(o, u) = <<>> /\ Content(o, h) = <<>>
      /\ TextJoined \subseteq N /\ \A r \in N : r \in TextJoined \/ r \in {u, h}
  BY KindsAssumption DEF TextRelations, TextJoined, Open
<1>3. rows \in Seq(DataRow) /\ (rows = <<>> <=> report.events = {})
  <2>1. report.events \subseteq OtherKinds \cup HitraceRelations
    OBVIOUS
  <2> QED
    BY <2>1, ListedRows
<1>4. head \in Seq(DataRow) /\ head # <<>>
  <2>1. Row(NoId, NoId, header.tgid) \in DataRow
    BY DEF Row, NoId, DataRow
  <2> QED
    BY <2>1
<1> HIDE DEF rows, head
<1>5. /\ a \in Outputs(N) /\ a.closed = {} /\ a.begun = o.begun \cup (IF rows = <<>> THEN {} ELSE {u})
      /\ a.file = o.file /\ a.file[u] = <<>> /\ a.buffer[u] = rows
      /\ \A r \in N \ {u} : a.buffer[r] = o.buffer[r]
  <2>1. o.file[u] = <<>> /\ o.buffer[u] = <<>>
    BY <1>1, <1>2, ContentIs
  <2>2. CASE report.events = {}
    BY <1>1, <1>3, <2>1, <2>2
  <2>3. CASE report.events # {}
    <3> DEFINE b == Fill(o, u, rows)
    <3>1. /\ b \in Outputs(N) /\ b.begun = o.begun \cup {u} /\ b.closed = o.closed /\ b.file = o.file
          /\ b.buffer[u] = rows /\ \A s \in N \ {u} : b.buffer[s] = o.buffer[s]
      <4> HIDE DEF N, u
      <4> QED
        BY <1>1, <1>2, <1>3, Filled
    <3>2. a = b
      BY <2>3
    <3> HIDE DEF a, b
    <3> QED
      BY <1>1, <1>3, <2>1, <2>3, <3>1, <3>2
  <2> QED
    BY <2>2, <2>3
<1> HIDE DEF a
<1> DEFINE c == Whole(a, h, head)
<1>6. /\ c \in Outputs(N) /\ c.begun = a.begun \cup {h} /\ c.closed = a.closed \cup {h}
      /\ c.file[h] = head /\ c.buffer[h] = <<>>
      /\ \A s \in N \ {h} : c.file[s] = a.file[s] /\ c.buffer[s] = a.buffer[s]
  <2>1. a.file[h] = <<>>
    BY <1>1, <1>2, <1>5, ContentIs
  <2> HIDE DEF N
  <2> QED
    BY <1>2, <1>4, <1>5, <2>1, Wholly
<1>7. Closes(N, c, q, c.begun \ {h})
  <2>1. q = CloseAll(c, c.begun \ {h})
    BY DEF Tabled, a, rows, head
  <2> HIDE DEF c
  <2> QED
    BY <1>1, <1>2, <1>5, <1>6, <2>1 DEF Closes
<1> HIDE DEF c
<1> DEFINE rs == c.begun \ {h}
<1>8. /\ q.closed = c.closed \cup rs
      /\ \A r \in rs : q.file[r] = Content(c, r)
      /\ \A r \in N \ rs : q.file[r] = c.file[r]
  <2> HIDE DEF N, rs
  <2>1. Closes(N, c, q, rs)
    BY <1>7 DEF rs
  <2> QED
    BY <2>1, AllClosed
<1>9. rs = (o.begun \ {h}) \cup (IF rows = <<>> THEN {} ELSE {u}) /\ h \notin o.begun /\ u \notin o.begun
  <2>1. h \notin o.begun /\ u \notin o.begun
    BY <1>2 DEF Open
  <2> QED
    BY <1>2, <1>5, <1>6, <2>1
<1> HIDE DEF rs
<1>10. q.closed = o.begun \cup {h} \cup (IF rows = <<>> THEN {} ELSE {u})
  BY <1>5, <1>6, <1>8, <1>9
<1>11. q.file[h] = head
  BY <1>2, <1>6, <1>8, <1>9
<1>12. q.file[u] = rows
  <2>1. c.file[u] = <<>> /\ c.buffer[u] = rows
    BY <1>2, <1>5, <1>6
  <2>2. Content(c, u) = rows
    BY <1>3, <2>1 DEF Content
  <2> QED
    BY <1>2, <1>8, <1>9, <2>1, <2>2
<1>13. ASSUME NEW r \in TextJoined PROVE q.file[r] = Content(o, r)
  <2>1. r \in N /\ r # u /\ r # h
    BY <1>2
  <2>2. c.file[r] = o.file[r] /\ c.buffer[r] = o.buffer[r]
    BY <1>5, <1>6, <2>1
  <2>3. CASE r \in o.begun
    BY <1>8, <1>9, <2>1, <2>2, <2>3 DEF Content
  <2>4. CASE r \notin o.begun
    <3>1. Content(o, r) = <<>>
      BY <2>1, <2>4 DEF Open
    <3>2. o.file[r] = <<>>
      BY <1>1, <2>1, <3>1, ContentIs
    <3>3. r \notin rs
      BY <1>9, <2>1, <2>4
    <3> QED
      BY <1>8, <2>1, <2>2, <3>1, <3>2, <3>3
  <2> QED
    BY <2>3, <2>4
<1>14. \A r \in N : r \in q.closed <=> q.file[r] # <<>>
  <2>1. \A r \in N : r \in o.begun <=> Content(o, r) # <<>>
    BY DEF Open
  <2> HIDE DEF N, u, h
  <2> QED
    BY <1>2, <1>4, <1>9, <1>10, <1>11, <1>12, <1>13, <2>1
<1>15. q.closed \subseteq N
  BY <1>1, <1>2, <1>10
<1> QED
  BY <1>11, <1>12, <1>13, <1>14, <1>15 DEF rows, head

-----------------------------------------------------------------------------
(* The header. *)

\* The lines that a header has taken, as it remembers them.
HeaderLeads(h, ls) ==
  /\ h \in [tracer : BOOLEAN, legends : 0..6, columns : BOOLEAN, tgid : BOOLEAN]
  /\ ls \in Seq(HeaderLines)
  /\ ~h.tracer => Len(ls) = 0 /\ h.legends = 0 /\ ~h.columns
  /\ h.tracer => Len(ls) >= 1 /\ ls[1] = Tracer
  /\ h.tracer /\ h.legends <= 5 =>
       /\ Len(ls) = h.legends + 1 /\ ~h.columns
       /\ \A i \in 1..h.legends : ls[i + 1] = LegendLine(i - 1)
  /\ h.legends = 6 =>
       /\ \A i \in 1..4 : ls[i + 1] = LegendLine(i - 1)
       /\ \E n \in {6, 7} :
            /\ Len(ls) = n + (IF h.columns THEN 1 ELSE 0)
            /\ n = 6 => ls[6] = LegendLine(5)
            /\ n = 7 => ls[6] = LegendLine(4) /\ ls[7] = LegendLine(5)
       /\ h.columns => ls[Len(ls)] = Columns(h.tgid)

\* The sequences that are headers.
LEMMA HeadersAre ==
  ASSUME NEW ls \in Seq(HeaderLines)
  PROVE  ls \in Headers <=>
           /\ Len(ls) \in {7, 8} /\ ls[1] = Tracer
           /\ \A i \in 1..4 : ls[i + 1] = LegendLine(i - 1)
           /\ Len(ls) = 7 => ls[6] = LegendLine(5)
           /\ Len(ls) = 8 => ls[6] = LegendLine(4) /\ ls[7] = LegendLine(5)
           /\ \E b \in BOOLEAN : ls[Len(ls)] = Columns(b)
<1> DEFINE Short(b) == <<Tracer, LegendLine(0), LegendLine(1), LegendLine(2), LegendLine(3),
                         LegendLine(5), Columns(b)>>
           Long(b) == <<Tracer, LegendLine(0), LegendLine(1), LegendLine(2), LegendLine(3), LegendLine(4),
                        LegendLine(5), Columns(b)>>
<1>1. ls \in Headers <=> \E b \in BOOLEAN : ls = Short(b) \/ ls = Long(b)
  BY DEF Headers
<1>2. ASSUME NEW b
      PROVE  ls = Short(b) <=> /\ Len(ls) = 7 /\ ls[1] = Tracer /\ \A i \in 1..4 : ls[i + 1] = LegendLine(i - 1)
                               /\ ls[6] = LegendLine(5) /\ ls[7] = Columns(b)
  <2>1. ASSUME Len(ls) = 7, ls[1] = Tracer, \A i \in 1..4 : ls[i + 1] = LegendLine(i - 1),
               ls[6] = LegendLine(5), ls[7] = Columns(b)
        PROVE  ls = Short(b)
    <3>1. ls[2] = LegendLine(0) /\ ls[3] = LegendLine(1) /\ ls[4] = LegendLine(2) /\ ls[5] = LegendLine(3)
      BY <2>1
    <3> QED
      BY <2>1, <3>1
  <2>2. ASSUME ls = Short(b)
        PROVE  /\ Len(ls) = 7 /\ ls[1] = Tracer /\ \A i \in 1..4 : ls[i + 1] = LegendLine(i - 1)
               /\ ls[6] = LegendLine(5) /\ ls[7] = Columns(b)
    <3>1. \A i \in 1..4 : i = 1 \/ i = 2 \/ i = 3 \/ i = 4
      OBVIOUS
    <3> QED
      BY <2>2, <3>1
  <2> QED
    BY <2>1, <2>2
<1>3. ASSUME NEW b
      PROVE  ls = Long(b) <=> /\ Len(ls) = 8 /\ ls[1] = Tracer /\ \A i \in 1..4 : ls[i + 1] = LegendLine(i - 1)
                              /\ ls[6] = LegendLine(4) /\ ls[7] = LegendLine(5) /\ ls[8] = Columns(b)
  <2>1. ASSUME Len(ls) = 8, ls[1] = Tracer, \A i \in 1..4 : ls[i + 1] = LegendLine(i - 1),
               ls[6] = LegendLine(4), ls[7] = LegendLine(5), ls[8] = Columns(b)
        PROVE  ls = Long(b)
    <3>1. ls[2] = LegendLine(0) /\ ls[3] = LegendLine(1) /\ ls[4] = LegendLine(2) /\ ls[5] = LegendLine(3)
      BY <2>1
    <3> QED
      BY <2>1, <3>1
  <2>2. ASSUME ls = Long(b)
        PROVE  /\ Len(ls) = 8 /\ ls[1] = Tracer /\ \A i \in 1..4 : ls[i + 1] = LegendLine(i - 1)
               /\ ls[6] = LegendLine(4) /\ ls[7] = LegendLine(5) /\ ls[8] = Columns(b)
    <3>1. \A i \in 1..4 : i = 1 \/ i = 2 \/ i = 3 \/ i = 4
      OBVIOUS
    <3> QED
      BY <2>2, <3>1
  <2> QED
    BY <2>1, <2>2
<1> DEFINE Body == ls[1] = Tracer /\ \A i \in 1..4 : ls[i + 1] = LegendLine(i - 1)
           Closing(b) == ls[Len(ls)] = Columns(b)
<1>4. (\E b \in BOOLEAN : ls = Short(b)) <=>
        Len(ls) = 7 /\ Body /\ ls[6] = LegendLine(5) /\ \E b \in BOOLEAN : Closing(b)
  <2>1. \A b : ls = Short(b) <=> Len(ls) = 7 /\ Body /\ ls[6] = LegendLine(5) /\ Closing(b)
    BY <1>2
  <2> HIDE DEF Short, Body, Closing
  <2> QED
    BY <2>1
<1>5. (\E b \in BOOLEAN : ls = Long(b)) <=>
        Len(ls) = 8 /\ Body /\ ls[6] = LegendLine(4) /\ ls[7] = LegendLine(5) /\ \E b \in BOOLEAN : Closing(b)
  <2>1. \A b : ls = Long(b) <=>
                 Len(ls) = 8 /\ Body /\ ls[6] = LegendLine(4) /\ ls[7] = LegendLine(5) /\ Closing(b)
    BY <1>3
  <2> HIDE DEF Long, Body, Closing
  <2> QED
    BY <2>1
<1>6. ls \in Headers <=>
        /\ Len(ls) \in {7, 8} /\ Body
        /\ Len(ls) = 7 => ls[6] = LegendLine(5)
        /\ Len(ls) = 8 => ls[6] = LegendLine(4) /\ ls[7] = LegendLine(5)
        /\ \E b \in BOOLEAN : Closing(b)
  <2>1. ls \in Headers <=> (\E b \in BOOLEAN : ls = Short(b)) \/ (\E b \in BOOLEAN : ls = Long(b))
    BY <1>1
  <2>2. Len(ls) \in {7, 8} <=> Len(ls) = 7 \/ Len(ls) = 8
    BY Zenon
  <2>3. Len(ls) = 7 => Len(ls) # 8
    OBVIOUS
  <2> HIDE DEF Short, Long, Body, Closing
  <2> QED
    BY <1>4, <1>5, <2>1, <2>2, <2>3, Zenon
<1> HIDE DEF Short, Long, Closing
<1> QED
  BY <1>6 DEF Closing

\* A header is complete when its lines are a header, and not before.
LEMMA CompleteIsHeader ==
  ASSUME NEW h, NEW ls, HeaderLeads(h, ls)
  PROVE  Complete(h) <=> ls \in Headers
<1> DEFINE Header ==
             /\ Len(ls) \in {7, 8} /\ ls[1] = Tracer
             /\ \A i \in 1..4 : ls[i + 1] = LegendLine(i - 1)
             /\ Len(ls) = 7 => ls[6] = LegendLine(5)
             /\ Len(ls) = 8 => ls[6] = LegendLine(4) /\ ls[7] = LegendLine(5)
             /\ \E b \in BOOLEAN : ls[Len(ls)] = Columns(b)
<1>0. /\ ls \in Seq(HeaderLines) /\ h.legends \in 0..6 /\ h.tracer \in BOOLEAN
      /\ h.columns \in BOOLEAN /\ h.tgid \in BOOLEAN
  BY DEF HeaderLeads
<1>1. \A n, b : LegendLine(n) # Columns(b)
  BY DEF LegendLine, Columns
<1>9. ls \in Headers <=> Header
  BY <1>0, HeadersAre
<1>2. CASE ~h.tracer
  <2>1. Len(ls) = 0
    BY <1>2 DEF HeaderLeads
  <2>2. ~Header
    BY <2>1
  <2> QED
    BY <1>2, <2>2, <1>9, Zenon DEF Complete
<1>3. CASE h.tracer /\ h.legends <= 5
  <2>1. Len(ls) = h.legends + 1
    BY <1>3 DEF HeaderLeads
  <2>2. ~Header
    BY <1>0, <1>3, <2>1
  <2>3. h.legends # 6
    BY <1>0, <1>3
  <2> QED
    BY <2>2, <2>3, <1>9, Zenon DEF Complete
<1>4. CASE h.tracer /\ h.legends = 6
  <2>1. PICK n \in {6, 7} :
            /\ Len(ls) = n + (IF h.columns THEN 1 ELSE 0)
            /\ n = 6 => ls[6] = LegendLine(5)
            /\ n = 7 => ls[6] = LegendLine(4) /\ ls[7] = LegendLine(5)
    BY <1>4 DEF HeaderLeads
  <2>2. ls[1] = Tracer /\ \A i \in 1..4 : ls[i + 1] = LegendLine(i - 1)
    BY <1>4 DEF HeaderLeads
  <2>3. CASE h.columns
    <3>1. Len(ls) = n + 1
      BY <2>1, <2>3
    <3>2. ls[Len(ls)] = Columns(h.tgid)
      BY <1>4, <2>3 DEF HeaderLeads
    <3>3. Header
      BY <1>0, <2>1, <2>2, <3>1, <3>2
    <3> QED
      BY <1>4, <1>9, <2>3, <3>3, Zenon DEF Complete
  <2>4. CASE ~h.columns
    <3>1. Len(ls) = n /\ ls[Len(ls)] = LegendLine(5)
      BY <2>1, <2>4
    <3>2. ~Header
      BY <1>1, <3>1
    <3> QED
      BY <1>9, <2>4, <3>2, Zenon DEF Complete
  <2> QED
    BY <1>0, <2>3, <2>4
<1> QED
  BY <1>0, <1>2, <1>3, <1>4

\* A line that may come leads on; one that may not does not belong to a header.

\* What HeaderLeads says, for short.
LEMMA LeadsIs ==
  ASSUME NEW h, NEW ls, HeaderLeads(h, ls)
  PROVE  /\ ls \in Seq(HeaderLines) /\ h.legends \in 0..6 /\ h.tracer \in BOOLEAN
         /\ h.columns \in BOOLEAN /\ h.tgid \in BOOLEAN /\ Len(ls) \in Nat
         /\ h.legends = 6 \/ h.columns => h.tracer
         /\ h.columns => h.legends = 6
<1>1. /\ ls \in Seq(HeaderLines) /\ h.legends \in 0..6 /\ h.tracer \in BOOLEAN
      /\ h.columns \in BOOLEAN /\ h.tgid \in BOOLEAN
  BY DEF HeaderLeads
<1>2. ~h.tracer => h.legends = 0 /\ ~h.columns
  BY DEF HeaderLeads
<1>3. h.tracer /\ h.legends <= 5 => ~h.columns
  BY DEF HeaderLeads
<1>4. Len(ls) \in Nat
  BY <1>1
<1> QED
  BY <1>1, <1>2, <1>3, <1>4

\* A line that may come leads on.
LEMMA LineTaken ==
  ASSUME NEW h, NEW ls, HeaderLeads(h, ls), NEW l \in HeaderLines, Takes(h, l)
  PROVE  HeaderLeads(Taken(h, l), Append(ls, l))
<1> DEFINE t == Taken(h, l)
           ms == Append(ls, l)
<1>1. /\ ls \in Seq(HeaderLines) /\ h.legends \in 0..6 /\ h.tracer \in BOOLEAN
      /\ h.columns \in BOOLEAN /\ h.tgid \in BOOLEAN /\ Len(ls) \in Nat
      /\ h.legends = 6 \/ h.columns => h.tracer
      /\ h.columns => h.legends = 6
  BY LeadsIs
<1>2. h \in [tracer : BOOLEAN, legends : 0..6, columns : BOOLEAN, tgid : BOOLEAN]
  BY DEF HeaderLeads
<1>3. /\ ms \in Seq(HeaderLines) /\ Len(ms) = Len(ls) + 1 /\ ms[Len(ls) + 1] = l
      /\ \A i \in 1..Len(ls) : ms[i] = ls[i]
  BY <1>1
<1> HIDE DEF ms
<1>4. CASE l = Tracer
  <2>1. ~h.tracer /\ h.legends = 0 /\ ~h.columns /\ t = [h EXCEPT !.tracer = TRUE]
    BY <1>4 DEF Takes, Taken, Tracer
  <2>2. /\ t \in [tracer : BOOLEAN, legends : 0..6, columns : BOOLEAN, tgid : BOOLEAN]
        /\ t.tracer /\ t.legends = 0 /\ ~t.columns
    BY <1>2, <2>1
  <2> HIDE DEF t
  <2>3. Len(ls) = 0
    BY <2>1 DEF HeaderLeads
  <2>4. Len(ms) = 1 /\ ms[1] = Tracer
    BY <1>3, <1>4, <2>3
  <2>5. \A i \in 1..t.legends : ms[i + 1] = LegendLine(i - 1)
    BY <2>2
  <2>6. /\ Len(ms) >= 1 /\ t.legends <= 5 /\ t.legends # 6
        /\ Len(ms) = t.legends + 1
    BY <2>2, <2>4
  <2>7. HeaderLeads(t, ms)
    BY <1>3, <2>2, <2>4, <2>5, <2>6 DEF HeaderLeads
  <2> QED
    BY <2>7 DEF t, ms
<1>5. ASSUME NEW n \in Legends, l = LegendLine(n) PROVE HeaderLeads(t, ms)
  <2>1. h.tracer /\ Expected(h, n) /\ t = [h EXCEPT !.legends = n + 1]
    BY <1>5 DEF Takes, Taken, LegendLine
  <2>2. n \in 0..5 /\ h.legends <= 5
    BY <1>1, <1>5, <2>1 DEF Expected, Legends
  <2>3. /\ t \in [tracer : BOOLEAN, legends : 0..6, columns : BOOLEAN, tgid : BOOLEAN]
        /\ t.tracer = h.tracer /\ t.legends = n + 1 /\ t.columns = h.columns
    <3>1. n + 1 \in 0..6
      BY <2>2
    <3> QED
      BY <1>2, <2>1, <3>1
  <2> HIDE DEF t
  <2>4. /\ Len(ls) = h.legends + 1 /\ ~h.columns /\ ls[1] = Tracer
        /\ \A i \in 1..h.legends : ls[i + 1] = LegendLine(i - 1)
    BY <2>1, <2>2 DEF HeaderLeads
  <2>5. ms[1] = Tracer /\ \A i \in 1..h.legends : ms[i + 1] = LegendLine(i - 1)
    BY <1>1, <1>3, <2>4
  <2>6. CASE n = h.legends /\ n < 5
    <3>1. \A i \in 1..t.legends : ms[i + 1] = LegendLine(i - 1)
      BY <1>3, <1>5, <2>2, <2>3, <2>4, <2>5, <2>6
    <3>2. Len(ms) = t.legends + 1 /\ t.legends <= 5 /\ t.legends # 6 /\ Len(ms) >= 1
      BY <1>3, <2>2, <2>3, <2>4, <2>6
    <3> QED
      BY <1>3, <2>1, <2>3, <2>4, <2>5, <3>1, <3>2 DEF HeaderLeads
  <2>7. CASE n = 5
    <3>1. h.legends = 5 \/ h.legends = 4
      BY <1>1, <2>1, <2>7 DEF Expected
    <3>2. /\ h.legends = 4 => Len(ms) = 6 /\ ms[6] = LegendLine(5)
          /\ h.legends = 5 => Len(ms) = 7 /\ ms[6] = LegendLine(4) /\ ms[7] = LegendLine(5)
      BY <1>3, <1>5, <2>4, <2>5, <2>7
    <3>3. \A i \in 1..4 : ms[i + 1] = LegendLine(i - 1)
      BY <2>5, <3>1
    <3>4. \E k \in {6, 7} :
            /\ Len(ms) = k + (IF t.columns THEN 1 ELSE 0)
            /\ k = 6 => ms[6] = LegendLine(5)
            /\ k = 7 => ms[6] = LegendLine(4) /\ ms[7] = LegendLine(5)
      <4>1. CASE h.legends = 4
        BY <2>3, <2>4, <3>2, <4>1
      <4>2. CASE h.legends = 5
        BY <2>3, <2>4, <3>2, <4>2
      <4> QED
        BY <3>1, <4>1, <4>2
    <3>5. t.legends = 6 /\ Len(ms) >= 1
      BY <2>3, <2>7, <3>1, <3>2
    <3> QED
      BY <1>3, <2>1, <2>3, <2>4, <2>5, <3>3, <3>4, <3>5 DEF HeaderLeads
  <2> QED
    BY <1>1, <2>1, <2>2, <2>6, <2>7 DEF Expected
<1>6. ASSUME NEW b \in BOOLEAN, l = Columns(b) PROVE HeaderLeads(t, ms)
  <2>1. ~h.columns /\ h.legends = 6 /\ t = [h EXCEPT !.columns = TRUE, !.tgid = b]
    BY <1>6 DEF Takes, Taken, Columns
  <2>2. /\ t \in [tracer : BOOLEAN, legends : 0..6, columns : BOOLEAN, tgid : BOOLEAN]
        /\ t.tracer = h.tracer /\ t.legends = 6 /\ t.columns = TRUE /\ t.tgid = b
    BY <1>2, <2>1
  <2> HIDE DEF t
  <2>3. h.tracer /\ ls[1] = Tracer /\ \A i \in 1..4 : ls[i + 1] = LegendLine(i - 1)
    BY <1>1, <2>1 DEF HeaderLeads
  <2>4. PICK n \in {6, 7} :
            /\ Len(ls) = n
            /\ n = 6 => ls[6] = LegendLine(5)
            /\ n = 7 => ls[6] = LegendLine(4) /\ ls[7] = LegendLine(5)
    BY <2>1 DEF HeaderLeads
  <2>5. /\ Len(ms) = n + 1 /\ ms[1] = Tracer /\ \A i \in 1..4 : ms[i + 1] = LegendLine(i - 1)
        /\ n = 6 => ms[6] = LegendLine(5)
        /\ n = 7 => ms[6] = LegendLine(4) /\ ms[7] = LegendLine(5)
        /\ ms[Len(ms)] = Columns(b)
    BY <1>3, <1>6, <2>3, <2>4
  <2>6. \E k \in {6, 7} :
            /\ Len(ms) = k + (IF t.columns THEN 1 ELSE 0)
            /\ k = 6 => ms[6] = LegendLine(5)
            /\ k = 7 => ms[6] = LegendLine(4) /\ ms[7] = LegendLine(5)
    BY <2>2, <2>5
  <2>7. Len(ms) >= 1
    BY <2>5
  <2> QED
    BY <1>3, <2>2, <2>3, <2>5, <2>6, <2>7 DEF HeaderLeads
<1> QED
  BY <1>4, <1>5, <1>6 DEF HeaderLines, ms

\* One that may not does not belong to a header.
LEMMA LineRefused ==
  ASSUME NEW h, NEW ls, HeaderLeads(h, ls), NEW l \in HeaderLines, ~Takes(h, l)
  PROVE  Append(ls, l) \notin Headers
<1> DEFINE ms == Append(ls, l)
<1>1. /\ ls \in Seq(HeaderLines) /\ h.legends \in 0..6 /\ h.tracer \in BOOLEAN
      /\ h.columns \in BOOLEAN /\ h.tgid \in BOOLEAN /\ Len(ls) \in Nat
      /\ h.legends = 6 \/ h.columns => h.tracer
      /\ h.columns => h.legends = 6
  BY LeadsIs
<1>2. /\ ms \in Seq(HeaderLines) /\ Len(ms) = Len(ls) + 1 /\ ms[Len(ms)] = l
      /\ \A i \in 1..Len(ls) : ms[i] = ls[i]
  BY <1>1
<1> HIDE DEF ms
<1>3. ASSUME ms \in Headers
      PROVE  /\ Len(ms) = 7 \/ Len(ms) = 8
             /\ Len(ms) = 7 => ms[6] = LegendLine(5)
             /\ Len(ms) = 8 => ms[6] = LegendLine(4) /\ ms[7] = LegendLine(5)
             /\ \E b \in BOOLEAN : l = Columns(b)
  BY <1>2, <1>3, HeadersAre
<1>4. ASSUME ms \in Headers PROVE FALSE
  <2>1. PICK b \in BOOLEAN : l = Columns(b)
    BY <1>3, <1>4
  <2>2. h.columns \/ h.legends # 6
    BY <2>1 DEF Takes, Columns
  <2>3. CASE h.columns
    <3>1. h.tracer /\ h.legends = 6 /\ ls[Len(ls)] = Columns(h.tgid)
      BY <1>1, <2>3 DEF HeaderLeads
    <3>2. Len(ls) = 7 \/ Len(ls) = 8
      BY <2>3, <3>1 DEF HeaderLeads
    <3>3. Len(ls) = 7 /\ ms[7] = LegendLine(5)
      <4>1. Len(ms) = Len(ls) + 1 /\ (Len(ms) = 7 \/ Len(ms) = 8)
        BY <1>2, <1>3, <1>4
      <4>2. Len(ls) = 7 /\ Len(ms) = 8
        <5>1. Len(ls) \in Nat /\ Len(ms) \in Nat
          BY <1>1, <1>2
        <5>2. \A i, j \in Nat : (i = 7 \/ i = 8) /\ (j = 7 \/ j = 8) /\ j = i + 1 => i = 7 /\ j = 8
          OBVIOUS
        <5> QED
          BY <3>2, <4>1, <5>1, <5>2, Zenon
      <4> QED
        BY <1>3, <1>4, <4>2
    <3>4. LegendLine(5) = Columns(h.tgid)
      BY <1>2, <3>1, <3>3
    <3> QED
      BY <3>4 DEF LegendLine, Columns
  <2>4. CASE ~h.tracer
    <3>1. Len(ls) = 0
      BY <2>4 DEF HeaderLeads
    <3> QED
      BY <1>2, <1>3, <1>4, <3>1
  <2>5. CASE h.tracer /\ h.legends <= 5
    <3>1. /\ Len(ls) = h.legends + 1
          /\ \A i \in 1..h.legends : ls[i + 1] = LegendLine(i - 1)
      BY <2>5 DEF HeaderLeads
    <3>2. h.legends = 5 /\ ms[6] = LegendLine(5)
      BY <1>1, <1>2, <1>3, <1>4, <2>5, <3>1
    <3>3. ms[6] = LegendLine(4)
      BY <1>2, <3>1, <3>2
    <3> QED
      BY <3>2, <3>3 DEF LegendLine
  <2> QED
    BY <1>1, <2>2, <2>3, <2>4, <2>5
<1> QED
  BY <1>4 DEF ms

-----------------------------------------------------------------------------
(* What is staged while a trace is read. *)

Staged ==
  /\ Open(out, Names, Joined)
  /\ \A r \in Joined : IsFiniteSet(Items(r)) /\ RowsAre(r, Content(out, r))
  /\ \A r \in Joined \ {Occurrence} : out.next[r] = Len(Content(out, r))

\* What one record m adds to the relations, which are then q.
Adds(m, q) ==
  /\ q \in Outputs(Names) /\ q.closed = out.closed
  /\ \A r \in Joined : Grown(Content(out, r), Content(q, r), RowCount(m, r),
                             IF Above(r) = "none" THEN NoId ELSE Len(Content(out, Above(r))),
                             Len(source) + 1)
  /\ \A r \in Names \ Joined : Content(q, r) = Content(out, r)
  /\ \A r \in Joined \ {Occurrence} : q.next[r] = Len(Content(q, r))
  /\ q.begun = out.begun \cup {r \in Joined : RowCount(m, r) > 0}

LEMMA FormatKept ==
  ASSUME format' = format
  PROVE  /\ Names' = Names /\ Joined' = Joined
         /\ \A r : Above(r)' = Above(r)
         /\ \A m, r : RowCount(m, r)' = RowCount(m, r)
BY DEF Names, Joined, Above, RowCount

LEMMA JoinedAre ==
  ASSUME format \in {"hitrace", "text"}
  PROVE  /\ Joined \subseteq Names
         /\ \A r \in Joined : Above(r) # "none" => Above(r) \in Joined
<1>1. CASE format = "hitrace"
  BY <1>1 DEF Joined, Names, Above, HitraceAbove, HitraceJoined, HitraceRelations, Roots
<1>2. CASE format = "text"
  BY <1>2 DEF Joined, Names, Above, TextAbove, TextJoined, TextRelations
<1> QED
  BY <1>1, <1>2

LEMMA CountsAreNat ==
  ASSUME format \in {"hitrace", "text"}, NEW m \in IF format = "hitrace" THEN Envelopes ELSE Events, NEW r
  PROVE  RowCount(m, r) \in Nat
<1>1. CASE format = "hitrace"
  <2>1. Repeated(m) \in Nat
    BY <1>1, EventCountsAssumption DEF Repeated, Envelopes, Data, Config, Ftrace, Unclaimed
  <2> QED
    BY <1>1, <2>1 DEF RowCount, HitraceRowCount
<1>2. CASE format = "text"
  BY <1>2 DEF RowCount, TextRowCount
<1> QED
  BY <1>1, <1>2

LEMMA RowsStay ==
  ASSUME UNCHANGED <<source, format>>
  PROVE  \A r : /\ Items(r)' = Items(r)
                /\ \A rows : RowsAre(r, rows)' <=> RowsAre(r, rows)
<1>1. \A r : Items(r)' = Items(r)
  BY FormatKept DEF Items, RowCount
<1>2. \A r, x : Rank(r, x)' = Rank(r, x)
  BY <1>1 DEF Rank, Before
<1>3. \A r, x : Parent(r, x)' = Parent(r, x)
  BY <1>2, FormatKept DEF Parent
<1> QED
  BY <1>1, <1>2, <1>3 DEF RowsAre

LEMMA StagedStays ==
  ASSUME Staged, UNCHANGED <<source, out, format>>
  PROVE  Staged'
<1>1. Names' = Names /\ Joined' = Joined
  BY FormatKept
<1>2. \A r : Content(out, r)' = Content(out, r)
  BY DEF Content
<1>3. \A r : Items(r)' = Items(r) /\ (RowsAre(r, Content(out, r))' <=> RowsAre(r, Content(out, r)))
  BY <1>2, RowsStay DEF RowsAre
<1> QED
  BY <1>1, <1>2, <1>3 DEF Staged, Open

\* A relation grows by the rows of a record.
LEMMA RelationGrows ==
  ASSUME Staged, format \in {"hitrace", "text"}, format' = format,
         source \in Seq(IF format = "hitrace" THEN Envelopes ELSE Events),
         NEW m \in IF format = "hitrace" THEN Envelopes ELSE Events,
         source' = Append(source, m), NEW q, Adds(m, q), NEW r \in Joined
  PROVE  IsFiniteSet(Items(r)') /\ RowsAre(r, Content(q, r))'
<1> DEFINE X == IF format = "hitrace" THEN Envelopes ELSE Events
           c == RowCount(m, r)
           above == Above(r)
           old == Content(out, r)
           new == Content(q, r)
           p == Len(source) + 1
<1>1. c \in Nat /\ (above # "none" => RowCount(m, above) \in Nat)
  BY CountsAreNat
<1>2. r \in Names /\ (above # "none" => above \in Joined /\ above \in Names)
  BY JoinedAre
<1>3. out \in Outputs(Names) /\ q \in Outputs(Names)
  BY DEF Staged, Open, Adds
<1>4. old \in Seq(DataRow) /\ new \in Seq(DataRow)
  BY <1>2, <1>3, ContentIs
<1>5. IsFiniteSet(Items(r)) /\ RowsAre(r, old)
  BY DEF Staged
<1>6. above # "none" => IsFiniteSet(Items(above)) /\ Len(Content(out, above)) = Cardinality(Items(above))
  BY <1>2 DEF Staged, RowsAre
<1>7. Grown(old, new, c, IF above = "none" THEN NoId ELSE Cardinality(Items(above)), p)
  BY <1>6 DEF Adds
<1>8. IsFiniteSet(Items(r)')
  <2>1. source \in Seq(X) /\ m \in X
    OBVIOUS
  <2> HIDE DEF X
  <2> QED
    BY <1>1, <1>5, <2>1, MoreItems
<1>9. RowsAre(r, new)'
  <2>1. source \in Seq(X) /\ m \in X
    OBVIOUS
  <2> HIDE DEF X, old
  <2> QED
    BY <1>1, <1>4, <1>5, <1>6, <1>7, <2>1, RowsGrow
<1> QED
  BY <1>8, <1>9

LEMMA StagedGrows ==
  ASSUME Staged, format \in {"hitrace", "text"}, format' = format,
         source \in Seq(IF format = "hitrace" THEN Envelopes ELSE Events),
         NEW m \in IF format = "hitrace" THEN Envelopes ELSE Events,
         source' = Append(source, m), NEW q, q = out', Adds(m, q)
  PROVE  Staged'
<1>1. Names' = Names /\ Joined' = Joined /\ Joined \subseteq Names
  BY FormatKept, JoinedAre
<1>2. \A r \in Joined : IsFiniteSet(Items(r)') /\ RowsAre(r, Content(q, r))'
  BY RelationGrows
<1>3. \A r : Content(out, r)' = Content(q, r)
  BY DEF Content
<1>4. Open(q, Names, Joined)
  <2>1. q \in Outputs(Names) /\ q.closed = {} /\ out \in Outputs(Names)
    BY DEF Staged, Open, Adds
  <2>2. \A r \in Names \ Joined : Content(q, r) = <<>>
    BY DEF Staged, Open, Adds
  <2>3. ASSUME NEW r \in Names \ Joined PROVE r \in q.begun <=> Content(q, r) # <<>>
    BY <2>2, <2>3 DEF Staged, Open, Adds
  <2>4. ASSUME NEW r \in Joined PROVE r \in q.begun <=> Content(q, r) # <<>>
    <3>1. /\ Content(out, r) \in Seq(DataRow) /\ Content(q, r) \in Seq(DataRow)
          /\ RowCount(m, r) \in Nat
      BY <1>1, <2>1, ContentIs, CountsAreNat
    <3>2. Len(Content(q, r)) = Len(Content(out, r)) + RowCount(m, r)
      BY DEF Adds, Grown
    <3>3. Content(q, r) # <<>> <=> Content(out, r) # <<>> \/ RowCount(m, r) > 0
      BY <3>1, <3>2
    <3>4. r \in q.begun <=> r \in out.begun \/ RowCount(m, r) > 0
      BY DEF Adds
    <3>5. r \in out.begun <=> Content(out, r) # <<>>
      BY <1>1 DEF Staged, Open
    <3> QED
      BY <3>3, <3>4, <3>5
  <2> QED
    BY <2>1, <2>2, <2>3, <2>4 DEF Open
<1>5. \A r \in Joined \ {Occurrence} : q.next[r] = Len(Content(q, r))
  BY DEF Adds
<1>6. \A r \in Joined : RowsAre(r, Content(out, r))'
  BY <1>2, <1>3 DEF RowsAre
<1> QED
  BY <1>1, <1>2, <1>3, <1>4, <1>5, <1>6 DEF Staged, Open

\* A record without rows.
LEMMA NothingAdded ==
  ASSUME Staged, format \in {"hitrace", "text"}, NEW m, \A r \in Joined : RowCount(m, r) = 0
  PROVE  Adds(m, out)
<1>1. ASSUME NEW r \in Joined, NEW parent, NEW p
      PROVE  Grown(Content(out, r), Content(out, r), 0, parent, p)
  <2>1. Content(out, r) \in Seq(DataRow)
    BY JoinedAre, ContentIs DEF Staged, Open
  <2> HIDE DEF Content
  <2> QED
    BY <2>1 DEF Grown
<1>2. {r \in Joined : RowCount(m, r) > 0} = {}
  OBVIOUS
<1> QED
  BY <1>1, <1>2 DEF Adds, Staged, Open

\* A payload of a known plugin.
LEMMA FrameAdds ==
  ASSUME Staged, format = "hitrace", source \in Seq(Envelopes), NEW m \in Envelopes, Claims(m),
         NEW early, NEW q, q = Emit(out, m, early)
  PROVE  Adds(m, q)
<1>1. /\ Names = HitraceRelations /\ Joined = HitraceJoined
      /\ \A r : Above(r) = HitraceAbove(r) /\ RowCount(m, r) = HitraceRowCount(m, r)
  BY DEF Names, Joined, Above, RowCount
<1>2. Occurrence \notin HitraceJoined
  BY DEF HitraceJoined, Roots, Occurrence
<1>3. /\ out \in Outputs(HitraceRelations) /\ Len(source) \in Nat
      /\ \A r \in HitraceJoined : out.next[r] = Len(Content(out, r))
  BY <1>1, <1>2 DEF Staged, Open
<1>4. /\ q \in Outputs(HitraceRelations) /\ q.closed = out.closed
      /\ \A r \in HitraceJoined :
           Grown(Content(out, r), Content(q, r), HitraceRowCount(m, r),
                 IF HitraceAbove(r) = "none" THEN NoId ELSE Len(Content(out, HitraceAbove(r))),
                 Len(source) + 1)
      /\ \A r \in HitraceRelations \ HitraceJoined : Content(q, r) = Content(out, r)
      /\ \A r \in HitraceJoined : q.next[r] = Len(Content(q, r))
      /\ q.begun = out.begun \cup {r \in HitraceJoined : HitraceRowCount(m, r) > 0}
  BY <1>3, Emitted
<1> QED
  BY <1>1, <1>4 DEF Adds

\* An event of a known kind.
LEMMA EventAdds ==
  ASSUME Staged, format = "text", source \in Seq(Events), NEW e \in Events, e.kind \in Kinds,
         NEW q, q = PushEvent(out, e)
  PROVE  Adds(e, q)
<1>1. /\ Names = TextRelations /\ Joined = TextJoined
      /\ \A r : Above(r) = TextAbove(r) /\ \A d : RowCount(d, r) = TextRowCount(d, r)
  BY DEF Names, Joined, Above, RowCount
<1>2. /\ out \in Outputs(TextRelations) /\ Len(source) \in Nat
      /\ \A r \in TextJoined \ {Occurrence} : out.next[r] = Len(Content(out, r))
  BY <1>1 DEF Staged, Open
<1>3. Len(Content(out, Occurrence)) = Len(Content(out, Event))
  <2>1. \A d : RowCount(d, Occurrence) = RowCount(d, Event)
    BY <1>1 DEF TextRowCount, Occurrence, Event
  <2>2. Items(Occurrence) = Items(Event)
    BY <2>1 DEF Items
  <2>3. Occurrence \in Joined /\ Event \in Joined
    BY <1>1, KindsApart
  <2> QED
    BY <2>2, <2>3 DEF Staged, RowsAre
<1>4. /\ q \in Outputs(TextRelations) /\ q.closed = out.closed
      /\ \A r \in TextJoined :
           Grown(Content(out, r), Content(q, r), TextRowCount(e, r),
                 IF TextAbove(r) = "none" THEN NoId ELSE Len(Content(out, TextAbove(r))), Len(source) + 1)
      /\ \A r \in TextRelations \ TextJoined : Content(q, r) = Content(out, r)
      /\ \A r \in TextJoined \ {Occurrence} : q.next[r] = Len(Content(q, r))
      /\ q.begun = out.begun \cup {r \in TextJoined : TextRowCount(e, r) > 0}
  BY <1>2, <1>3, EventPushed
<1> QED
  BY <1>1, <1>4 DEF Adds

\* Nothing is staged before anything is read.
LEMMA StagedAtFirst == Init => Staged
<1> SUFFICES ASSUME Init PROVE Staged
  OBVIOUS
<1>1. source = <<>> /\ format \in {"hitrace", "text"} /\ out = NewOutput(Names)
  BY DEF Init, OutputInit
<1>2. /\ out \in Outputs(Names) /\ out.closed = {} /\ out.begun = {}
      /\ \A r \in Names : out.file[r] = <<>> /\ out.buffer[r] = <<>> /\ out.next[r] = 0
  BY <1>1 DEF NewOutput, Outputs
<1>3. \A r \in Names : Content(out, r) = <<>>
  BY <1>2 DEF Content
<1>4. \A r : Items(r) = {}
  BY <1>1 DEF Items
<1>5. ASSUME NEW r \in Joined PROVE IsFiniteSet(Items(r)) /\ RowsAre(r, Content(out, r))
  <2>1. Content(out, r) = <<>> /\ Items(r) = {}
    BY <1>1, <1>3, <1>4, JoinedAre
  <2> QED
    BY <2>1, FS_EmptySet DEF RowsAre
<1>6. \A r \in Joined : out.next[r] = Len(Content(out, r))
  BY <1>1, <1>2, <1>3, JoinedAre
<1>7. Open(out, Names, Joined)
  BY <1>2, <1>3 DEF Open
<1> QED
  BY <1>5, <1>6, <1>7 DEF Staged

-----------------------------------------------------------------------------
(* The files, once they are finished. *)

LEMMA FilesStay ==
  ASSUME FilesAreRight, UNCHANGED <<source, out, format, lines>>
  PROVE  FilesAreRight'
<1>1. Names' = Names /\ Joined' = Joined
  BY FormatKept
<1>2. \A r : OtherRows(r)' = OtherRows(r)
  <2>1. {e \in EnumOrigins : Items(e) # {}}' = {e \in EnumOrigins : Items(e) # {}}
    BY RowsStay
  <2>2. OtherEvents' = OtherEvents
    BY DEF OtherEvents
  <2> QED
    BY <2>1, <2>2 DEF OtherRows
<1>3. \A r : RowsAre(r, out.file[r])' <=> RowsAre(r, out.file[r])
  BY RowsStay DEF RowsAre
<1> QED
  BY <1>1, <1>2, <1>3 DEF FilesAreRight

LEMMA HitraceFiles ==
  ASSUME Staged, format = "hitrace", facts = 1, out' = WithClocks(Finished(out)),
         UNCHANGED <<source, format>>
  PROVE  FilesAreRight'
<1>1. /\ Names = HitraceRelations /\ Joined = HitraceJoined /\ Names' = Names /\ Joined' = Joined
      /\ HitraceJoined \subseteq HitraceRelations
  BY FormatKept, JoinedAre DEF Names, Joined
<1>2. /\ out'.closed = {r \in HitraceRelations : out'.file[r] # <<>>}
      /\ \A r \in HitraceJoined : out'.file[r] = Content(out, r)
      /\ out'.file["protobuf_enum_symbol"] = Listed(EnumOrigins \cap out.begun)
      /\ \A r \in {"clock_domain", "clock_snapshot"} : out'.file[r] = <<Row(NoId, NoId, 0)>>
  <2>1. Open(out, HitraceRelations, HitraceJoined)
    BY <1>1 DEF Staged
  <2>2. PICK q : q = out'
    OBVIOUS
  <2>3. q = WithClocks(Finished(out)) /\ facts = 1
    BY <2>2
  <2>4. /\ q.closed = {r \in HitraceRelations : q.file[r] # <<>>}
        /\ \A r \in HitraceJoined : q.file[r] = Content(out, r)
        /\ q.file["protobuf_enum_symbol"] = Listed(EnumOrigins \cap out.begun)
        /\ \A r \in {"clock_domain", "clock_snapshot"} : q.file[r] = <<Row(NoId, NoId, 0)>>
    BY <2>1, <2>3, HitraceClosed, Zenon
  <2> QED
    BY <2>2, <2>4, Zenon
<1>3. \A r \in Joined : RowsAre(r, out.file[r])'
  <2>1. \A r \in Joined : RowsAre(r, Content(out, r))
    BY DEF Staged
  <2> QED
    BY <1>1, <1>2, <2>1, RowsStay DEF RowsAre
<1>4. EnumOrigins \cap out.begun = {e \in EnumOrigins : Items(e) # {}}
  <2>1. ASSUME NEW e \in EnumOrigins PROVE e \in out.begun <=> Items(e) # {}
    <3>1. e \in HitraceJoined
      BY EnumOriginsAssumption DEF HitraceJoined, Roots
    <3>2. e \in out.begun <=> Content(out, e) # <<>>
      BY <1>1, <3>1 DEF Staged, Open
    <3>3. Content(out, e) \in Seq(DataRow)
      BY <1>1, <3>1, ContentIs DEF Staged, Open
    <3>4. IsFiniteSet(Items(e)) /\ Len(Content(out, e)) = Cardinality(Items(e))
      BY <1>1, <3>1 DEF Staged, RowsAre
    <3>5. Cardinality(Items(e)) = 0 <=> Items(e) = {}
      BY <3>4, FS_EmptySet
    <3>6. Len(Content(out, e)) = 0 <=> Content(out, e) = <<>>
      BY <3>3
    <3> QED
      BY <3>2, <3>4, <3>5, <3>6, Zenon
  <2> QED
    BY <2>1
<1>5. ASSUME NEW r \in Names, r \notin Joined PROVE out'.file[r] = OtherRows(r)'
  <2>1. r \in {"protobuf_enum_symbol", "clock_domain", "clock_snapshot"}
    BY <1>1, <1>5 DEF HitraceRelations
  <2>2. CASE r = "protobuf_enum_symbol"
    <3>1. out'.file[r] = Listed({e \in EnumOrigins : Items(e) # {}})
      BY <1>2, <1>4, <2>2
    <3>2. OtherRows(r)' = Listed({e \in EnumOrigins : Items(e)' # {}})
      BY <2>2 DEF OtherRows
    <3>3. {e \in EnumOrigins : Items(e)' # {}} = {e \in EnumOrigins : Items(e) # {}}
      BY RowsStay
    <3> QED
      BY <3>1, <3>2, <3>3
  <2>3. CASE r \in {"clock_domain", "clock_snapshot"}
    BY <1>2, <2>3 DEF OtherRows
  <2> QED
    BY <2>1, <2>2, <2>3
<1> QED
  BY <1>1, <1>2, <1>3, <1>5 DEF FilesAreRight

LEMMA TextFiles ==
  ASSUME Staged, format = "text", HeaderLeads(header, lines), Complete(header), report.events = OtherEvents,
         IsFiniteSet(report.events), out' = Tabled(out), UNCHANGED <<source, format, lines>>
  PROVE  FilesAreRight'
<1>1. /\ Names = TextRelations /\ Joined = TextJoined /\ Names' = Names /\ Joined' = Joined
      /\ TextJoined \subseteq TextRelations
  BY FormatKept, JoinedAre DEF Names, Joined
<1>2. report.events \subseteq OtherKinds /\ header.tgid \in BOOLEAN /\ header.legends = 6 /\ header.columns
  BY LeadsIs DEF OtherEvents, Complete
<1>3. /\ out'.closed = {r \in TextRelations : out'.file[r] # <<>>}
      /\ \A r \in TextJoined : out'.file[r] = Content(out, r)
      /\ out'.file["text_ftrace_unsupported_event"] = Listed(report.events)
      /\ out'.file["text_ftrace_header"] = <<Row(NoId, NoId, header.tgid)>>
  BY <1>1, <1>2, TextClosed DEF Staged
<1>4. \A r \in Joined : RowsAre(r, out.file[r])'
  <2>1. \A r \in Joined : RowsAre(r, Content(out, r))
    BY DEF Staged
  <2> QED
    BY <1>1, <1>3, <2>1, RowsStay DEF RowsAre
<1>5. lines[Len(lines)].tgid = header.tgid
  BY <1>2 DEF HeaderLeads, Columns
<1>6. ASSUME NEW r \in Names, r \notin Joined PROVE out'.file[r] = OtherRows(r)'
  <2>1. r \in {"text_ftrace_header", "text_ftrace_unsupported_event"}
    BY <1>1, <1>6 DEF TextRelations
  <2>2. CASE r = "text_ftrace_header"
    BY <1>3, <1>5, <2>2 DEF OtherRows
  <2>3. CASE r = "text_ftrace_unsupported_event"
    BY <1>3, <2>3 DEF OtherRows, OtherEvents
  <2> QED
    BY <2>1, <2>2, <2>3
<1> QED
  BY <1>1, <1>3, <1>4, <1>6 DEF FilesAreRight

-----------------------------------------------------------------------------
(* The decoders. *)

Reading == {"new", "section", "frame", "lines"}
Written == {"validate", "publish"}

\* The trace is read by the decoder of its format.
TraceInv ==
  /\ format \in {"hitrace", "text"}
  /\ source \in Seq(IF format = "hitrace" THEN Envelopes ELSE Events)
  /\ step \in Reading \cup Written \cup {"over"}
  /\ step = "lines" => format = "text"
  /\ step \in {"section", "frame", "validate"} => format = "hitrace"

StagedInv == step \in Reading => Staged

FactsInv == sections \in Nat /\ facts = IF sections = 0 THEN 0 ELSE 1

\* A text is refused for its header, or goes on, as its lines say.
HeaderInv ==
  /\ why = "header" => format = "text" /\ lines \notin Headers
  /\ format = "text" =>
       /\ report.events = OtherEvents /\ IsFiniteSet(report.events)
       /\ why # "header" => HeaderLeads(header, lines)
       /\ step = "publish" \/ destination = "ours" => lines \in Headers

FilesInv == step \in Written \/ destination = "ours" => FilesAreRight

DecodeInv == ReadInv /\ TraceInv /\ StagedInv /\ FactsInv /\ HeaderInv /\ FilesInv

\* Nothing is at the destination while a decoder is at work, at least not from it,
\* and no cause is known.
LEMMA AtWork == ASSUME DecodeInv, step # "over" PROVE destination # "ours" /\ why = "none"
BY DEF DecodeInv, ReadInv, AnswerInv, VerdictInv

\* A step that only moves the decoder on.
LEMMA QuietStep ==
  ASSUME DecodeInv, ReadInv', UNCHANGED <<format, source, out, header, lines, report, facts, sections>>,
         step' \in Reading \cup Written \cup {"over"}, step' = "lines" => format = "text",
         step' \in {"section", "frame", "validate"} => format = "hitrace",
         step' \in Reading => step \in Reading,
         step' \in Written \/ destination' = "ours" => step \in Written \/ destination = "ours",
         why = "header" => why' = "header", why' = "header" => why = "header" \/ (format = "text" /\ lines \notin Headers)
  PROVE  DecodeInv'
<1>1. TraceInv'
  BY DEF DecodeInv, TraceInv
<1>2. StagedInv'
  BY StagedStays DEF DecodeInv, StagedInv
<1>3. FactsInv'
  BY DEF DecodeInv, FactsInv
<1>4. HeaderInv'
  <2>1. OtherEvents' = OtherEvents
    BY DEF OtherEvents
  <2>2. HeaderLeads(header, lines)' <=> HeaderLeads(header, lines)
    BY DEF HeaderLeads
  <2>3. format = "text" /\ (step \in Written \/ destination = "ours") => lines \in Headers
    BY DEF DecodeInv, TraceInv, HeaderInv, Written
  <2>4. step' = "publish" \/ destination' = "ours" => step \in Written \/ destination = "ours"
    BY DEF Written
  <2>5. why' = "header" => format' = "text" /\ lines' \notin Headers
    BY DEF DecodeInv, HeaderInv
  <2>6. ASSUME format' = "text", why' # "header" PROVE HeaderLeads(header, lines)'
    BY <2>2, <2>6 DEF DecodeInv, HeaderInv
  <2> QED
    BY <2>1, <2>3, <2>4, <2>5, <2>6 DEF DecodeInv, HeaderInv
<1>5. FilesInv'
  BY FilesStay DEF DecodeInv, FilesInv
<1> QED
  BY <1>1, <1>2, <1>3, <1>4, <1>5 DEF DecodeInv

\* A failure that says nothing of the header.
LEMMA FailStep ==
  ASSUME DecodeInv, ReadInv', step # "over", NEW cause, Fail(cause),
         UNCHANGED <<format, source, out, header, lines, report, facts, sections>>,
         cause = "header" => format = "text" /\ lines \notin Headers
  PROVE  DecodeInv'
<1>1. step' = "over" /\ why' = cause /\ destination' = destination /\ why = "none"
  BY AtWork DEF Fail
<1> QED
  BY <1>1, QuietStep DEF Reading, Written

\* The staging directory is made, or nothing is begun.
LEMMA Staging ==
  ASSUME DecodeInv, ReadInv', NEW next, Stage(next), UNCHANGED <<format, header, lines, facts, sections>>,
         (next = "section" /\ format = "hitrace") \/ (next = "lines" /\ format = "text")
  PROVE  DecodeInv'
<1>1. step = "new" /\ UNCHANGED <<source, out, report>>
  BY DEF Stage
<1>2. CASE Fail("exists")
  BY <1>1, <1>2, FailStep
<1>3. CASE step' = next /\ UNCHANGED <<destination, why>>
  BY <1>1, <1>3, QuietStep DEF Reading, Written
<1> QED
  BY <1>2, <1>3 DEF Stage

\* A header line of a text.
LEMMA HeaderStep ==
  ASSUME DecodeInv, ReadInv', format = "text", NEW l \in HeaderLines, ReadHeader(l),
         UNCHANGED <<format, facts, sections>>
  PROVE  DecodeInv'
<1>1. /\ step = "lines" /\ lines' = Append(lines, l) /\ UNCHANGED <<source, out, report>>
      /\ destination # "ours" /\ why = "none" /\ HeaderLeads(header, lines) /\ step \in Reading
  BY AtWork DEF ReadHeader, DecodeInv, HeaderInv, Reading
<1>2. OtherEvents' = OtherEvents
  BY <1>1 DEF OtherEvents
<1>3. FactsInv' /\ (step' \in Reading => Staged')
  BY <1>1, StagedStays DEF DecodeInv, FactsInv, StagedInv
<1>4. CASE Takes(header, l)
  <2>1. header' = Taken(header, l) /\ UNCHANGED <<step, destination, why>>
    BY <1>4 DEF ReadHeader, outputVars
  <2>2. HeaderLeads(header, lines)'
    <3>1. HeaderLeads(Taken(header, l), Append(lines, l))
      BY <1>1, <1>4, LineTaken
    <3> QED
      BY <1>1, <2>1, <3>1 DEF HeaderLeads
  <2>3. HeaderInv'
    BY <1>1, <1>2, <2>1, <2>2 DEF DecodeInv, HeaderInv
  <2>4. TraceInv' /\ FilesInv' /\ StagedInv'
    BY <1>1, <1>3, <2>1 DEF DecodeInv, TraceInv, FilesInv, Written, StagedInv
  <2> QED
    BY <1>3, <2>3, <2>4 DEF DecodeInv
<1>5. CASE ~Takes(header, l)
  <2>1. Fail("header")
    BY <1>5 DEF ReadHeader
  <2>2. step' = "over" /\ why' = "header" /\ destination' = destination
    BY <2>1 DEF Fail
  <2>3. lines' \notin Headers
    BY <1>1, <1>5, LineRefused
  <2>4. HeaderInv'
    BY <1>1, <1>2, <2>2, <2>3 DEF DecodeInv, HeaderInv
  <2>5. TraceInv' /\ FilesInv' /\ StagedInv'
    BY <1>1, <2>2 DEF DecodeInv, TraceInv, FilesInv, Written, Reading, StagedInv
  <2> QED
    BY <1>3, <2>4, <2>5 DEF DecodeInv
<1> QED
  BY <1>4, <1>5

\* One more event is one more kind in the report, if it has no relation.
LEMMA OneMoreEvent ==
  ASSUME source \in Seq(Events), NEW e \in Events, source' = Append(source, e)
  PROVE  /\ source' \in Seq(Events)
         /\ OtherEvents' = OtherEvents \cup (IF e.kind \in OtherKinds THEN {e.kind} ELSE {})
<1>1. /\ source' \in Seq(Events) /\ 1..Len(source') = 1..Len(source) \cup {Len(source) + 1}
      /\ \A i \in 1..Len(source) : source'[i] = source[i]
      /\ source'[Len(source) + 1] = e
  OBVIOUS
<1> QED
  BY <1>1 DEF OtherEvents

\* An event of a text.
LEMMA EventStep ==
  ASSUME DecodeInv, ReadInv', format = "text", NEW e \in Events, ReadEvent(e),
         UNCHANGED <<format, facts, sections>>
  PROVE  DecodeInv'
<1>1. /\ step = "lines" /\ UNCHANGED <<header, lines>> /\ source \in Seq(Events)
      /\ destination # "ours" /\ why = "none" /\ HeaderLeads(header, lines) /\ step \in Reading /\ Staged
  BY AtWork DEF ReadEvent, textVars, DecodeInv, HeaderInv, TraceInv, StagedInv, Reading
<1>2. CASE (Fail("header") \/ Fail("event") \/ Fail("ids")) /\ UNCHANGED <<source, out, report>>
           /\ (Complete(header) => ~Fail("header"))
  <2>1. lines \notin Headers \/ Complete(header)
    BY <1>1, CompleteIsHeader
  <2> QED
    BY <1>1, <1>2, <2>1, FailStep
<1>3. CASE Complete(header) /\ source' = Append(source, e) /\ UNCHANGED <<step, destination, why>>
  <2>1. /\ source' \in Seq(Events)
        /\ OtherEvents' = OtherEvents \cup (IF e.kind \in OtherKinds THEN {e.kind} ELSE {})
    BY <1>1, <1>3, OneMoreEvent
  <2>2. report.events = OtherEvents /\ IsFiniteSet(report.events)
    BY DEF DecodeInv, HeaderInv
  <2>3. Staged' /\ report'.events = OtherEvents' /\ IsFiniteSet(report'.events)
    <3>1. CASE e.kind \in OtherKinds
      <4>1. report' = [report EXCEPT !.events = @ \cup {e.kind}] /\ out' = out
        BY <1>3, <3>1 DEF ReadEvent, Fail, Parses
      <4>2. report'.events = report.events \cup {e.kind}
        BY <4>1 DEF DecodeInv, ReadInv, PluginInv
      <4>3. e.kind \notin Kinds
        BY <3>1, KindsApart
      <4>4. \A r \in Joined : RowCount(e, r) = 0
        BY <4>3 DEF RowCount, TextRowCount
      <4>5. PICK q : q = out'
        OBVIOUS
      <4>6. Adds(e, q)
        BY <1>1, <4>1, <4>4, <4>5, NothingAdded
      <4>7. Staged'
        BY <1>1, <1>3, <4>5, <4>6, StagedGrows
      <4> QED
        BY <2>1, <2>2, <3>1, <4>2, <4>7, FS_AddElement
    <3>2. CASE e.kind \notin OtherKinds
      <4>1. UNCHANGED report /\ out' = PushEvent(out, e)
        BY <1>3, <3>2 DEF ReadEvent, Fail, Parses
      <4>2. e.kind \in Kinds
        BY <3>2 DEF Events
      <4>3. PICK q : q = out'
        OBVIOUS
      <4>4. Adds(e, q)
        BY <1>1, <4>1, <4>2, <4>3, EventAdds
      <4>5. Staged'
        BY <1>1, <1>3, <4>3, <4>4, StagedGrows
      <4> QED
        BY <2>1, <2>2, <3>2, <4>1, <4>5
    <3> QED
      BY <3>1, <3>2
  <2>4. HeaderInv'
    <3>1. HeaderLeads(header, lines)'
      BY <1>1 DEF HeaderLeads
    <3> QED
      BY <1>1, <1>3, <2>3, <3>1 DEF HeaderInv
  <2>5. TraceInv' /\ FilesInv' /\ StagedInv' /\ FactsInv'
    BY <1>1, <1>3, <2>1, <2>3 DEF DecodeInv, TraceInv, FilesInv, Written, StagedInv, FactsInv
  <2> QED
    BY <2>4, <2>5 DEF DecodeInv
<1> QED
  <2>1. ~Complete(header) => Fail("header") /\ UNCHANGED <<source, out, report>>
    BY DEF ReadEvent
  <2>2. \/ (Fail("event") \/ Fail("ids")) /\ UNCHANGED <<source, out, report>>
        \/ ~Complete(header)
        \/ Complete(header) /\ source' = Append(source, e) /\ UNCHANGED <<step, destination, why>>
    BY DEF ReadEvent, outputVars
  <2>3. Fail("event") \/ Fail("ids") => ~Fail("header")
    BY DEF Fail
  <2> QED
    BY <1>2, <1>3, <2>1, <2>2, <2>3

\* The end of a text.
LEMMA TextEnd ==
  ASSUME DecodeInv, ReadInv', format = "text", FinishText, UNCHANGED <<format, facts, sections>>
  PROVE  DecodeInv'
<1>1. /\ step = "lines" /\ UNCHANGED <<source, report, header, lines>>
      /\ destination # "ours" /\ why = "none" /\ HeaderLeads(header, lines) /\ step \in Reading /\ Staged
      /\ report.events = OtherEvents /\ IsFiniteSet(report.events)
  BY AtWork DEF FinishText, textVars, DecodeInv, HeaderInv, StagedInv, Reading
<1>2. Complete(header) <=> lines \in Headers
  BY <1>1, CompleteIsHeader
<1>3. CASE ~Complete(header)
  <2>1. Fail("header") /\ UNCHANGED out
    BY <1>3 DEF FinishText
  <2> QED
    BY <1>1, <1>2, <1>3, <2>1, FailStep
<1>4. CASE Complete(header) /\ source = <<>>
  <2>1. Fail("empty") /\ UNCHANGED out
    BY <1>4 DEF FinishText
  <2> QED
    BY <1>1, <2>1, FailStep
<1>5. CASE Complete(header) /\ source # <<>>
  <2>1. /\ out' = Tabled(out)
        /\ \/ step' = "publish" /\ UNCHANGED <<destination, why>>
           \/ Fail("invalid")
    BY <1>5 DEF FinishText, outputVars
  <2>2. FilesAreRight'
    BY <1>1, <1>5, <2>1, TextFiles
  <2>3. step' \in {"publish", "over"} /\ why' # "header" /\ destination' = destination
    BY <1>1, <2>1 DEF Fail
  <2>4. HeaderLeads(header, lines)' /\ OtherEvents' = OtherEvents
    BY <1>1 DEF HeaderLeads, OtherEvents
  <2>5. HeaderInv'
    BY <1>1, <1>2, <1>5, <2>3, <2>4 DEF HeaderInv
  <2>6. TraceInv' /\ FactsInv' /\ StagedInv' /\ FilesInv'
    BY <1>1, <2>2, <2>3 DEF DecodeInv, TraceInv, FactsInv, StagedInv, FilesInv, Reading, Written
  <2> QED
    BY <2>5, <2>6 DEF DecodeInv
<1> QED
  BY <1>3, <1>4, <1>5

\* A frame of a Hitrace.
LEMMA FrameRowsStep ==
  ASSUME DecodeInv, ReadInv', format = "hitrace", NEW m \in Envelopes, NEW early \in BOOLEAN,
         ReadFrame(m, early), UNCHANGED <<format, header, lines>>
  PROVE  DecodeInv'
<1>1. /\ step = "frame" /\ source \in Seq(Envelopes) /\ UNCHANGED <<facts, sections>>
      /\ destination # "ours" /\ why = "none" /\ step \in Reading /\ Staged
  BY AtWork DEF ReadFrame, hitraceVars, DecodeInv, TraceInv, StagedInv, Reading
<1>2. CASE Fail("ids") /\ UNCHANGED <<source, out, report>>
  BY <1>1, <1>2, FailStep
<1>3. CASE source' = Append(source, m) /\ UNCHANGED <<step, destination, why>>
  <2>1. source' \in Seq(Envelopes)
    BY <1>1, <1>3
  <2>2. Staged'
    <3>1. PICK q : q = out'
      OBVIOUS
    <3>2. Adds(m, q)
      <4>1. CASE Claims(m)
        <5>1. out' = Emit(out, m, early)
          BY <1>3, <4>1 DEF ReadFrame, Fail
        <5> QED
          BY <1>1, <3>1, <4>1, <5>1, FrameAdds
      <4>2. CASE ~Claims(m)
        <5>1. out' = out
          BY <4>2 DEF ReadFrame
        <5>2. \A r \in Joined : RowCount(m, r) = 0
          BY <4>2 DEF RowCount, HitraceRowCount, Claims, Roots, Repeated
        <5> QED
          BY <1>1, <3>1, <5>1, <5>2, NothingAdded
      <4> QED
        BY <4>1, <4>2
    <3> QED
      BY <1>1, <1>3, <3>1, <3>2, StagedGrows
  <2>3. TraceInv' /\ FactsInv' /\ StagedInv' /\ FilesInv' /\ HeaderInv'
    BY <1>1, <1>3, <2>1, <2>2
       DEF DecodeInv, TraceInv, FactsInv, StagedInv, FilesInv, HeaderInv, Written
  <2> QED
    BY <2>3 DEF DecodeInv
<1> QED
  BY <1>2, <1>3 DEF ReadFrame, outputVars

\* The end of a Hitrace.
LEMMA HitraceEnd ==
  ASSUME DecodeInv, ReadInv', format = "hitrace", FinishCapture, UNCHANGED <<format, header, lines>>
  PROVE  DecodeInv'
<1>1. /\ step = "section" /\ sections > 0 /\ UNCHANGED <<source, report, facts, sections>>
      /\ destination # "ours" /\ why = "none" /\ step \in Reading /\ Staged
  BY AtWork DEF FinishCapture, hitraceVars, DecodeInv, StagedInv, Reading
<1>2. CASE ~Admitted(clocks)
  <2>1. Fail("clocks") /\ UNCHANGED out
    BY <1>2 DEF FinishCapture
  <2> QED
    BY <1>1, <2>1, FailStep
<1>3. CASE Admitted(clocks)
  <2>1. out' = WithClocks(Finished(out)) /\ step' = "validate" /\ UNCHANGED <<destination, why>>
    BY <1>3 DEF FinishCapture, outputVars
  <2>2. facts = 1
    BY <1>1 DEF DecodeInv, FactsInv
  <2>3. FilesAreRight'
    BY <1>1, <2>1, <2>2, HitraceFiles
  <2>4. TraceInv' /\ FactsInv' /\ StagedInv' /\ FilesInv' /\ HeaderInv'
    BY <1>1, <2>1, <2>3
       DEF DecodeInv, TraceInv, FactsInv, StagedInv, FilesInv, HeaderInv, Reading, Written
  <2> QED
    BY <2>4 DEF DecodeInv
<1> QED
  BY <1>2, <1>3

\* A section of a Hitrace.
LEMMA SectionStep ==
  ASSUME DecodeInv, ReadInv', format = "hitrace", ReadSection, UNCHANGED <<format, header, lines>>
  PROVE  DecodeInv'
<1>1. /\ step = "section" /\ step' \in {"section", "frame"} /\ sections' = sections + 1
      /\ facts' = (IF sections = 0 THEN facts + 1 ELSE facts)
      /\ UNCHANGED <<source, out, destination, why>>
  BY DEF ReadSection, outputVars, HeaderFacts
<1>2. FactsInv'
  <2>1. sections \in Nat /\ facts = IF sections = 0 THEN 0 ELSE 1
    BY DEF DecodeInv, FactsInv
  <2>2. sections' \in Nat /\ sections' # 0 /\ facts' = 1
    BY <1>1, <2>1
  <2> QED
    BY <2>2 DEF FactsInv
<1>3. destination # "ours" /\ why = "none" /\ Staged'
  BY <1>1, AtWork, StagedStays DEF DecodeInv, StagedInv, Reading
<1>4. TraceInv' /\ StagedInv' /\ FilesInv' /\ HeaderInv'
  BY <1>1, <1>3 DEF DecodeInv, TraceInv, StagedInv, FilesInv, HeaderInv, Reading, Written
<1> QED
  BY <1>2, <1>4 DEF DecodeInv

LEMMA DecodeStep == DecodeInv /\ [Next]_vars => DecodeInv'
<1> SUFFICES ASSUME DecodeInv, [Next]_vars PROVE DecodeInv'
  OBVIOUS
<1>0. ReadInv' /\ step \in Reading \cup Written \cup {"over"}
  BY ReadStep DEF DecodeInv, TraceInv
<1>1. CASE UNCHANGED vars
  <2>1. UNCHANGED <<format, source, out, header, lines, report, facts, sections, step, destination, why>>
    BY <1>1 DEF vars, outputVars, hitraceVars, textVars
  <2> QED
    BY <1>0, <2>1, QuietStep DEF DecodeInv, TraceInv
<1>2. CASE (Publish \/ Broken \/ Rival \/ Kill) /\ UNCHANGED <<format, hitraceVars, textVars>>
  <2>0. UNCHANGED <<format, source, out, header, lines, report, facts, sections>>
    BY <1>2 DEF Publish, Broken, Rival, Kill, hitraceVars, textVars
  <2>1. CASE Broken
    BY <1>0, <2>0, <2>1, FailStep DEF Broken
  <2>2. CASE Publish
    <3>1. step = "publish" /\ step' = "over" /\ why' \in {why, "exists"} /\ why = "none"
      BY <2>2, AtWork DEF Publish, Fail
    <3> QED
      BY <1>0, <2>0, <3>1, QuietStep DEF Written, Reading
  <2>3. CASE Rival
    <3>1. destination' = "rival" /\ UNCHANGED <<step, why>>
      BY <2>3 DEF Rival
    <3> QED
      BY <1>0, <2>0, <3>1, QuietStep DEF DecodeInv, TraceInv
  <2>4. CASE Kill
    <3>1. step' = "over" /\ UNCHANGED <<destination, why>>
      BY <2>4 DEF Kill, outputVars
    <3> QED
      BY <1>0, <2>0, <3>1, QuietStep DEF Written, Reading
  <2> QED
    BY <1>2, <2>1, <2>2, <2>3, <2>4
<1>3. CASE format = "hitrace" /\ HitraceStep /\ UNCHANGED <<format, textVars>>
  <2>0. UNCHANGED <<format, header, lines>>
    BY <1>3 DEF textVars
  <2>1. CASE Stage("section") /\ UNCHANGED hitraceVars
    <3>1. UNCHANGED <<format, header, lines, facts, sections>> /\ Stage("section")
      BY <2>0, <2>1 DEF hitraceVars
    <3> QED
      BY <1>0, <1>3, <3>1, Staging
  <2>2. CASE BadSection \/ BadFrame
    BY <1>0, <2>0, <2>2, FailStep DEF BadSection, BadFrame, hitraceVars
  <2>3. CASE ReadSection
    BY <1>0, <1>3, <2>0, <2>3, SectionStep
  <2>4. CASE EndSection
    <3>1. /\ step = "frame" /\ step' = "section"
          /\ UNCHANGED <<source, out, report, facts, sections, destination, why>>
      BY <2>4 DEF EndSection, outputVars, hitraceVars
    <3> QED
      BY <1>0, <1>3, <2>0, <3>1, QuietStep DEF Reading, Written
  <2>5. ASSUME NEW m \in Envelopes, NEW early \in BOOLEAN, ReadFrame(m, early) PROVE DecodeInv'
    BY <1>0, <1>3, <2>0, <2>5, FrameRowsStep
  <2>6. CASE FinishCapture
    BY <1>0, <1>3, <2>0, <2>6, HitraceEnd
  <2>7. CASE Validate
    <3>1. step = "validate" /\ UNCHANGED <<source, out, report, facts, sections>>
      BY <2>7 DEF Validate, hitraceVars
    <3>2. CASE Fail("invalid")
      BY <1>0, <2>0, <3>1, <3>2, FailStep
    <3>3. CASE step' = "publish" /\ UNCHANGED <<destination, why>>
      BY <1>0, <1>3, <2>0, <3>1, <3>3, QuietStep DEF Reading, Written
    <3> QED
      BY <2>7, <3>2, <3>3 DEF Validate, outputVars
  <2> QED
    BY <1>3, <2>1, <2>2, <2>3, <2>4, <2>5, <2>6, <2>7 DEF HitraceStep
<1>4. CASE format = "text" /\ TextStep /\ UNCHANGED <<format, hitraceVars>>
  <2>0. UNCHANGED <<format, facts, sections>>
    BY <1>4 DEF hitraceVars
  <2>1. CASE Stage("lines") /\ UNCHANGED textVars
    <3>1. UNCHANGED <<format, header, lines, facts, sections>> /\ Stage("lines")
      BY <2>0, <2>1 DEF textVars
    <3> QED
      BY <1>0, <1>4, <3>1, Staging
  <2>2. ASSUME NEW l \in HeaderLines, ReadHeader(l) PROVE DecodeInv'
    BY <1>0, <1>4, <2>0, <2>2, HeaderStep
  <2>3. CASE BadLine \/ BadEvent \/ \E l \in HeaderLines : ReadLateHeader(l)
    <3>1. /\ step = "lines" /\ UNCHANGED <<source, out, report, header, lines>>
          /\ Fail("malformed") \/ Fail("event") \/ Fail("late")
      BY <2>3 DEF BadLine, BadEvent, ReadLateHeader, textVars
    <3> QED
      BY <1>0, <2>0, <3>1, FailStep
  <2>4. ASSUME NEW e \in Events, ReadEvent(e) PROVE DecodeInv'
    BY <1>0, <1>4, <2>0, <2>4, EventStep
  <2>5. CASE FinishText
    BY <1>0, <1>4, <2>0, <2>5, TextEnd
  <2> QED
    BY <1>4, <2>1, <2>2, <2>3, <2>4, <2>5 DEF TextStep
<1> QED
  BY <1>1, <1>2, <1>3, <1>4 DEF Next

\* The decoders are faithful to the trace, whatever its length, the batches, the
\* row ids and the order of its parts.
THEOREM DecodedFaithfully == Spec => []DecodeIsFaithful
<1>1. Init => DecodeInv
  <2> SUFFICES ASSUME Init PROVE DecodeInv
    OBVIOUS
  <2>1. ReadInv /\ Staged
    BY ReadAtFirst, StagedAtFirst
  <2>2. /\ step = "new" /\ source = <<>> /\ destination = "absent" /\ why = "none"
        /\ format \in {"hitrace", "text"} /\ facts = 0 /\ sections = 0
        /\ header = NoHeader /\ lines = <<>> /\ report.events = {}
    BY DEF Init, OutputInit, HitraceInit, TextInit, NoReport
  <2>3. TraceInv /\ FactsInv /\ StagedInv /\ FilesInv
    BY <2>1, <2>2 DEF TraceInv, FactsInv, StagedInv, FilesInv, Reading, Written
  <2>4. HeaderLeads(header, lines)
    BY <2>2 DEF HeaderLeads, NoHeader
  <2>5. OtherEvents = {} /\ IsFiniteSet(report.events)
    BY <2>2, FS_EmptySet DEF OtherEvents
  <2>6. HeaderInv
    BY <2>2, <2>4, <2>5 DEF HeaderInv
  <2> QED
    BY <2>1, <2>3, <2>6 DEF DecodeInv
<1>2. ASSUME DecodeInv, ClocksAreJust PROVE DecodeIsFaithful
  <2>1. why = "clocks" => ~ClocksAgree
    BY <1>2 DEF ClocksAreJust
  <2>2. why = "header" => lines \notin Headers
    BY <1>2 DEF DecodeInv, HeaderInv
  <2>3. destination = "ours" /\ format = "hitrace" => ClocksAgree /\ report.plugins = HitracePlugins
    BY <1>2 DEF ClocksAreJust
  <2>4. destination = "ours" /\ format = "text" => lines \in Headers /\ report.events = OtherEvents
    BY <1>2 DEF DecodeInv, HeaderInv
  <2>5. destination = "ours" => FilesAreRight
    BY <1>2 DEF DecodeInv, FilesInv
  <2> QED
    BY <2>1, <2>2, <2>3, <2>4, <2>5 DEF DecodeIsFaithful, PublishedIsWhatWasRead, RefusalsAreJust
<1> QED
  BY <1>1, <1>2, DecodeStep, ClocksJudged, PTL DEF Spec

-----------------------------------------------------------------------------
(* The plan of relations: ways through the graph of messages. *)

\* A call at a field is a step of a way.
Frames == [of : Messages, at : Nat \ {0}]
NoneTwice(s) == \A j, k \in 1..Len(s) : s[j].of = s[k].of => j = k
SchemaType == schema \in [Messages -> Seq(Fields)]
IsWay(m, s) == s \in Seq(Steps) /\ Leads(m, s)

\* What a step is: a field of a message.
LEMMA StepIs ==
  ASSUME SchemaType
  PROVE  /\ \A e \in Steps : /\ e.of \in Messages /\ e.at \in 1..Len(schema[e.of])
                             /\ Field(e) \in Fields /\ e = [of |-> e.of, at |-> e.at]
                             /\ e \in Frames
         /\ \A m \in Messages : \A i \in 1..Len(schema[m]) : [of |-> m, at |-> i] \in Steps
         /\ \A m \in Messages : schema[m] \in Seq(Fields) /\ Len(schema[m]) \in Nat
         /\ \A m \in Messages : \A i \in 1..Len(schema[m]) : schema[m][i] \in Fields
<1>1. \A m \in Messages : schema[m] \in Seq(Fields)
  BY DEF SchemaType
<1>2. \A m \in Messages : Len(schema[m]) \in Nat
  BY <1>1
<1>3. \A m \in Messages : \A i \in 1..Len(schema[m]) : schema[m][i] \in Fields
  BY <1>1, <1>2, ElementOfSeq
<1>4. \A m \in Messages : \A i \in 1..Len(schema[m]) : [of |-> m, at |-> i] \in Steps
  BY DEF Steps
<1>5. ASSUME NEW e \in Steps
      PROVE  /\ e.of \in Messages /\ e.at \in 1..Len(schema[e.of])
             /\ Field(e) \in Fields /\ e = [of |-> e.of, at |-> e.at]
             /\ e \in Frames
  <2>1. PICK m \in Messages : \E i \in 1..Len(schema[m]) : e = [of |-> m, at |-> i]
    BY DEF Steps
  <2>2. PICK i \in 1..Len(schema[m]) : e = [of |-> m, at |-> i]
    BY <2>1
  <2>3. i \in Nat \ {0}
    BY <2>2, <1>2
  <2> QED
    BY <2>2, <2>3, <1>3 DEF Field, Frames
<1> QED
  BY <1>1, <1>2, <1>3, <1>4, <1>5

\* Things that differ are no more than there are of them.
LEMMA DistinctIsShort ==
  ASSUME NEW s \in Seq(Frames), NoneTwice(s)
  PROVE  Len(s) <= Cardinality(Messages)
<1>1. Len(s) \in Nat
  OBVIOUS
<1> DEFINE f == [k \in 1..Len(s) |-> s[k].of]
<1>2. \A k \in 1..Len(s) : s[k] \in Frames
  BY <1>1, ElementOfSeq
<1>3. f \in [1..Len(s) -> Messages]
  BY <1>2 DEF Frames
<1>4. \A j, k \in 1..Len(s) : f[j] = f[k] => j = k
  BY DEF NoneTwice
<1>5. IsFiniteSet(1..Len(s)) /\ Cardinality(1..Len(s)) = Len(s)
  <2>1. Len(s) \in Int /\ 1 \in Int
    BY <1>1
  <2>2. IsFiniteSet(1..Len(s)) /\ Cardinality(1..Len(s)) = IF 1 > Len(s) THEN 0 ELSE Len(s) - 1 + 1
    BY <2>1, FS_Interval
  <2> QED
    BY <2>2, <1>1
<1>6. IsFiniteSet(Messages) /\ Cardinality(Messages) \in Nat
  BY MessagesAssumption, FS_CardinalityType
<1> HIDE DEF f
<1>7. ASSUME Cardinality(Messages) < Len(s) PROVE FALSE
  <2>1. \E x, y \in 1..Len(s) : x # y /\ f[x] = f[y]
    BY <1>3, <1>5, <1>6, <1>7, FS_PigeonHole
  <2> QED
    BY <2>1, <1>4
<1> QED
  BY <1>1, <1>6, <1>7

\* The ways are sequences of steps.
LEMMA WaysAre ==
  ASSUME NEW m, NEW s
  PROVE  /\ s \in Ways(m) <=> IsWay(m, s) /\ Len(s) <= Cardinality(Messages)
<1>1. Cardinality(Messages) \in Nat
  BY MessagesAssumption, FS_CardinalityType
<1>2. s \in BoundedSeq(Steps, Cardinality(Messages)) <=> s \in Seq(Steps) /\ Len(s) <= Cardinality(Messages)
  <2>1. s \in BoundedSeq(Steps, Cardinality(Messages)) <=> \E n \in 0..Cardinality(Messages) : s \in [1..n -> Steps]
    BY DEF BoundedSeq, SeqOf
  <2>2. ASSUME NEW n \in 0..Cardinality(Messages), s \in [1..n -> Steps] 
        PROVE s \in Seq(Steps) /\ Len(s) <= Cardinality(Messages)
    <3>1. n \in Nat /\ n <= Cardinality(Messages)
      BY <1>1
    <3>2. s \in Seq(Steps) /\ Len(s) = n
      BY <2>2, <3>1
    <3> QED
      BY <3>1, <3>2
  <2>3. ASSUME s \in Seq(Steps), Len(s) <= Cardinality(Messages)
        PROVE  \E n \in 0..Cardinality(Messages) : s \in [1..n -> Steps]
    <3>1. Len(s) \in 0..Cardinality(Messages) /\ s \in [1..Len(s) -> Steps]
      BY <2>3, <1>1, LenProperties
    <3> QED
      BY <3>1
  <2> QED
    BY <2>1, <2>2, <2>3
<1> QED
  BY <1>2 DEF Ways, IsWay

\* Where a way from a message comes to.
EndOf(m, s) == IF s = <<>> THEN m ELSE Field(Last(s)).to

\* A way goes on where its first part has come to.
LEMMA WaySplit ==
  ASSUME NEW m, NEW s \in Seq(Steps), NEW t \in Seq(Steps)
  PROVE  IsWay(m, s \o t) <=> IsWay(m, s) /\ IsWay(EndOf(m, s), t)
<1> DEFINE u == s \o t
<1>1. u \in Seq(Steps) /\ Len(u) = Len(s) + Len(t) /\ Len(s) \in Nat /\ Len(t) \in Nat
  BY ConcatProperties
<1>2. \A i \in 1..Len(s) : u[i] = s[i]
  BY ConcatProperties
<1>3. \A i \in 1..Len(t) : u[Len(s) + i] = t[i]
  <2>1. \A i \in 1..Len(s) + Len(t) : u[i] = IF i <= Len(s) THEN s[i] ELSE t[i - Len(s)]
    BY ConcatProperties
  <2> HIDE DEF u
  <2> TAKE i \in 1..Len(t)
  <2>2. Len(s) + i \in 1..Len(s) + Len(t) /\ ~(Len(s) + i <= Len(s)) /\ Len(s) + i - Len(s) = i
    BY <1>1
  <2> QED
    BY <2>1, <2>2
<1>4. CASE s = <<>>
  <2>1. u = t
    BY <1>4, ConcatEmptySeq
  <2>2. IsWay(m, s) /\ EndOf(m, s) = m
    BY <1>4 DEF IsWay, Leads, EndOf
  <2> QED
    BY <2>1, <2>2
<1>5. CASE t = <<>>
  <2>1. u = s
    BY <1>5, ConcatEmptySeq
  <2>2. IsWay(EndOf(m, s), t)
    BY <1>5 DEF IsWay, Leads
  <2> QED
    BY <2>1, <2>2
<1>6. CASE s # <<>> /\ t # <<>>
  <2>1. Len(s) >= 1 /\ Len(t) >= 1
    BY <1>6, <1>1, EmptySeq
  <2> HIDE DEF u
  <2>2. u # <<>> /\ u[1] = s[1]
    BY <2>1, <1>1, <1>2
  <2>3. EndOf(m, s) = Field(s[Len(s)]).to
    BY <1>6 DEF EndOf, Last
  <2>4. ASSUME Leads(m, u) PROVE Leads(m, s) /\ Leads(EndOf(m, s), t)
    <3>1. ASSUME NEW k \in 1..Len(s) - 1 PROVE s[k + 1].of = Field(s[k]).to
      <4>1. k \in 1..Len(u) - 1 /\ k \in 1..Len(s) /\ k + 1 \in 1..Len(s)
        BY <1>1
      <4>2. u[k] = s[k] /\ u[k + 1] = s[k + 1]
        BY <4>1, <1>2
      <4> QED
        BY <4>1, <4>2, <2>4 DEF Leads
    <3>2. ASSUME NEW k \in 1..Len(t) - 1 PROVE t[k + 1].of = Field(t[k]).to
      <4>1. Len(s) + k \in 1..Len(u) - 1 /\ k \in 1..Len(t) /\ k + 1 \in 1..Len(t)
        BY <1>1
      <4>2. u[Len(s) + k] = t[k] /\ u[Len(s) + (k + 1)] = t[k + 1]
        BY <4>1, <1>3
      <4>3. Len(s) + (k + 1) = Len(s) + k + 1
        BY <1>1
      <4> QED
        BY <4>1, <4>2, <4>3, <2>4 DEF Leads
    <3>3. t[1].of = Field(s[Len(s)]).to
      <4>1. Len(s) \in 1..Len(u) - 1 /\ 1 \in 1..Len(t) /\ Len(s) \in 1..Len(s)
        BY <1>1, <2>1
      <4>2. u[Len(s)] = s[Len(s)] /\ u[Len(s) + 1] = t[1]
        BY <4>1, <1>2, <1>3
      <4> QED
        BY <4>1, <4>2, <2>4 DEF Leads
    <3> QED
      BY <3>1, <3>2, <3>3, <2>2, <2>3, <2>4 DEF Leads
  <2>5. ASSUME Leads(m, s), Leads(EndOf(m, s), t) PROVE Leads(m, u)
    <3>1. u[1].of = m
      BY <2>2, <2>5, <1>6 DEF Leads
    <3>2. t[1].of = Field(s[Len(s)]).to
      BY <2>3, <2>5, <1>6 DEF Leads
    <3>3. ASSUME NEW k \in 1..Len(u) - 1 PROVE u[k + 1].of = Field(u[k]).to
      <4>1. CASE k < Len(s)
        <5>1. k \in 1..Len(s) - 1 /\ k \in 1..Len(s) /\ k + 1 \in 1..Len(s)
          BY <1>1, <4>1
        <5> QED
          BY <5>1, <1>2, <2>5 DEF Leads
      <4>2. CASE k = Len(s)
        <5>1. k \in 1..Len(s) /\ 1 \in 1..Len(t)
          BY <2>1, <1>1, <4>2
        <5> QED
          BY <5>1, <4>2, <1>2, <1>3, <3>2
      <4>3. CASE k > Len(s)
        <5> DEFINE j == k - Len(s)
        <5>1. j \in 1..Len(t) - 1 /\ j \in 1..Len(t) /\ j + 1 \in 1..Len(t)
          BY <1>1, <4>3
        <5>2. Len(s) + j = k /\ Len(s) + (j + 1) = k + 1
          BY <1>1
        <5> HIDE DEF j
        <5>3. u[Len(s) + j] = t[j] /\ u[Len(s) + (j + 1)] = t[j + 1]
          BY <5>1, <1>3
        <5>4. t[j + 1].of = Field(t[j]).to
          BY <5>1, <2>5 DEF Leads
        <5> QED
          BY <5>2, <5>3, <5>4
      <4> QED
        BY <4>1, <4>2, <4>3, <1>1
    <3> QED
      BY <3>1, <3>3 DEF Leads
  <2> QED
    BY <2>4, <2>5, <1>1 DEF IsWay, u
<1> QED
  BY <1>4, <1>5, <1>6

LEMMA WayOfOne ==
  ASSUME SchemaType, NEW m
  PROVE  /\ IsWay(m, <<>>) /\ Len(<<>>) = 0
         /\ \A e \in Steps : /\ <<e>> \in Seq(Steps) /\ Len(<<e>>) = 1 /\ <<e>>[1] = e
                             /\ <<e>> # <<>> /\ Last(<<e>>) = e
                             /\ IsWay(m, <<e>>) <=> e.of = m
<1>1. IsWay(m, <<>>) /\ Len(<<>>) = 0
  BY DEF IsWay, Leads
<1>2. ASSUME NEW e \in Steps
      PROVE  /\ <<e>> \in Seq(Steps) /\ Len(<<e>>) = 1 /\ <<e>>[1] = e
             /\ <<e>> # <<>> /\ Last(<<e>>) = e
             /\ IsWay(m, <<e>>) <=> e.of = m
  <2>1. <<e>> \in Seq(Steps) /\ Len(<<e>>) = 1 /\ <<e>>[1] = e /\ <<e>> # <<>>
    OBVIOUS
  <2>2. Last(<<e>>) = e
    BY <2>1 DEF Last
  <2>3. ~ \E k : k \in 1..Len(<<e>>) - 1
    BY <2>1
  <2> QED
    BY <2>1, <2>2, <2>3 DEF IsWay, Leads
<1> QED
  BY <1>1, <1>2

\* A sequence in two parts.
LEMMA TwoParts ==
  ASSUME NEW S, NEW s \in Seq(S), NEW n \in 0..Len(s)
  PROVE  /\ SubSeq(s, 1, n) \in Seq(S) /\ Len(SubSeq(s, 1, n)) = n
         /\ \A i \in 1..n : SubSeq(s, 1, n)[i] = s[i]
         /\ SubSeq(s, n + 1, Len(s)) \in Seq(S) /\ Len(SubSeq(s, n + 1, Len(s))) = Len(s) - n
         /\ \A i \in 1..Len(s) - n : SubSeq(s, n + 1, Len(s))[i] = s[n + i]
         /\ SubSeq(s, 1, n) \o SubSeq(s, n + 1, Len(s)) = s
<1>1. Len(s) \in Nat /\ n \in Nat /\ n <= Len(s) /\ 1 \in Int /\ n \in Int /\ n + 1 \in Int /\ Len(s) \in Int
  OBVIOUS
<1>2. \A i \in 1..Len(s) : s[i] \in S
  BY ElementOfSeq
<1>3. /\ SubSeq(s, 1, n) \in Seq(S) /\ Len(SubSeq(s, 1, n)) = n
      /\ \A i \in 1..n : SubSeq(s, 1, n)[i] = s[i]
  <2>1. \A i \in 1..n : s[i] \in S
    BY <1>1, <1>2
  <2>2. /\ SubSeq(s, 1, n) \in Seq(S)
        /\ Len(SubSeq(s, 1, n)) = IF 1 <= n THEN n - 1 + 1 ELSE 0
        /\ \A i \in 1..n - 1 + 1 : SubSeq(s, 1, n)[i] = s[1 + i - 1]
    BY <1>1, <2>1, SubSeqProperties
  <2>3. \A i \in 1..n : i \in 1..n - 1 + 1 /\ 1 + i - 1 = i
    BY <1>1
  <2>4. \A i \in 1..n : SubSeq(s, 1, n)[i] = s[i]
    BY <2>2, <2>3
  <2> QED
    BY <2>2, <2>4, <1>1
<1>4. /\ SubSeq(s, n + 1, Len(s)) \in Seq(S) /\ Len(SubSeq(s, n + 1, Len(s))) = Len(s) - n
      /\ \A i \in 1..Len(s) - n : SubSeq(s, n + 1, Len(s))[i] = s[n + i]
  <2>1. \A i \in n + 1..Len(s) : s[i] \in S
    BY <1>1, <1>2
  <2>2. /\ SubSeq(s, n + 1, Len(s)) \in Seq(S)
        /\ Len(SubSeq(s, n + 1, Len(s))) = IF n + 1 <= Len(s) THEN Len(s) - (n + 1) + 1 ELSE 0
        /\ \A i \in 1..Len(s) - (n + 1) + 1 : SubSeq(s, n + 1, Len(s))[i] = s[(n + 1) + i - 1]
    BY <1>1, <2>1, SubSeqProperties
  <2>3. \A i \in 1..Len(s) - n : i \in 1..Len(s) - (n + 1) + 1 /\ (n + 1) + i - 1 = n + i
    BY <1>1
  <2>4. \A i \in 1..Len(s) - n : SubSeq(s, n + 1, Len(s))[i] = s[n + i]
    BY <2>2, <2>3
  <2>5. (IF n + 1 <= Len(s) THEN Len(s) - (n + 1) + 1 ELSE 0) = Len(s) - n
    BY <1>1
  <2> QED
    BY <2>2, <2>4, <2>5
<1>5. SubSeq(s, 1, n) \o SubSeq(s, n + 1, Len(s)) = SubSeq(s, 1, Len(s))
  <2>1. 1 \in 1..Len(s) + 1 /\ n \in 1 - 1..Len(s) /\ Len(s) \in n..Len(s)
    BY <1>1
  <2> QED
    BY <2>1, ConcatAdjacentSubSeq
<1> QED
  BY <1>3, <1>4, <1>5, SubSeqFull

\* A way but for its end is a way, and the end follows it.
LEMMA WayEnd ==
  ASSUME SchemaType, NEW m, NEW s, IsWay(m, s), s # <<>>
  PROVE  /\ IsWay(m, Front(s)) /\ Len(Front(s)) = Len(s) - 1 /\ Len(s) >= 1 /\ Len(s) \in Nat
         /\ Last(s) \in Steps /\ Last(s).of = EndOf(m, Front(s))
         /\ s = Front(s) \o <<Last(s)>> /\ s = Append(Front(s), Last(s))
         /\ \A i \in 1..Len(s) - 1 : Front(s)[i] = s[i]
<1> DEFINE n == Len(s) - 1
<1>1. s \in Seq(Steps) /\ Len(s) \in Nat /\ Len(s) >= 1
  <2>1. s \in Seq(Steps)
    BY DEF IsWay
  <2> QED
    BY <2>1, EmptySeq
<1>2. n \in 0..Len(s) /\ n + 1 = Len(s) /\ Len(s) - n = 1
  BY <1>1
<1>3. Front(s) = SubSeq(s, 1, n)
  BY DEF Front
<1>4. Last(s) = s[Len(s)] /\ Last(s) \in Steps
  BY <1>1, ElementOfSeq DEF Last
<1> HIDE DEF n
<1>5. /\ SubSeq(s, 1, n) \in Seq(Steps) /\ Len(SubSeq(s, 1, n)) = n
      /\ \A i \in 1..n : SubSeq(s, 1, n)[i] = s[i]
      /\ SubSeq(s, n + 1, Len(s)) \in Seq(Steps) /\ Len(SubSeq(s, n + 1, Len(s))) = Len(s) - n
      /\ \A i \in 1..Len(s) - n : SubSeq(s, n + 1, Len(s))[i] = s[n + i]
      /\ SubSeq(s, 1, n) \o SubSeq(s, n + 1, Len(s)) = s
  BY <1>1, <1>2, TwoParts
<1> DEFINE rest == SubSeq(s, n + 1, Len(s))
<1>6. rest = <<Last(s)>>
  <2>1. rest \in Seq(Steps) /\ Len(rest) = 1
    BY <1>5, <1>2
  <2>2. 1 \in 1..Len(s) - n
    BY <1>2
  <2>3. rest[1] = s[n + 1]
    BY <1>5, <2>2
  <2>4. rest[1] = Last(s)
    BY <2>3, <1>2, <1>4
  <2> HIDE DEF rest
  <2>5. <<Last(s)>> \in Seq(Steps) /\ Len(<<Last(s)>>) = 1 /\ <<Last(s)>>[1] = Last(s)
    BY <1>4
  <2> QED
    BY <2>1, <2>4, <2>5, SeqEqual
<1>7. s = Front(s) \o <<Last(s)>>
  BY <1>3, <1>5, <1>6
<1>8. Front(s) \in Seq(Steps) /\ <<Last(s)>> \in Seq(Steps)
  BY <1>3, <1>4, <1>5
<1>9. IsWay(m, Front(s)) /\ IsWay(EndOf(m, Front(s)), <<Last(s)>>)
  BY <1>7, <1>8, WaySplit
<1>10. Last(s).of = EndOf(m, Front(s))
  BY <1>9, <1>4, WayOfOne
<1>11. s = Append(Front(s), Last(s))
  BY <1>7, <1>8, <1>4, AppendIsConcat
<1> QED
  BY <1>1, <1>2, <1>3, <1>4, <1>5, <1>7, <1>9, <1>10, <1>11 DEF n

\* Below a supported message no way comes to a message twice, so all are short.
LEMMA AllWays ==
  ASSUME SchemaType, NEW m \in Messages, Supported(m), NEW s, IsWay(m, s)
  PROVE  s \in Ways(m) /\ NoneTwice(s) /\ Len(s) <= Cardinality(Messages)
<1> DEFINE Bad == {n \in Nat : \E u : IsWay(m, u) /\ Len(u) = n /\ ~NoneTwice(u)}
<1>1. ASSUME Bad # {} PROVE FALSE
  <2>1. Bad \in SUBSET Nat
    OBVIOUS
  <2> HIDE DEF Bad
  <2>2. PICK n \in Bad : \A j \in Bad : n <= j
    BY <1>1, <2>1, LeastNumber
  <2>3. n \in Nat
    BY <2>1, <2>2
  <2>4. PICK u : IsWay(m, u) /\ Len(u) = n /\ ~NoneTwice(u)
    BY <2>2 DEF Bad
  <2>5. u # <<>>
    BY <2>4 DEF NoneTwice
  <2> DEFINE v == Front(u)
             e == Last(u)
  <2>6. /\ IsWay(m, v) /\ Len(v) = Len(u) - 1 /\ Len(u) >= 1 /\ Len(u) \in Nat
        /\ e \in Steps /\ e.of = EndOf(m, v)
        /\ \A i \in 1..Len(u) - 1 : v[i] = u[i]
    BY <2>4, <2>5, WayEnd
  <2>7. e = u[Len(u)]
    BY DEF Last
  <2> HIDE DEF v, e
  <2>8. NoneTwice(v)
    <3>1. Len(v) \in Nat /\ Len(v) < n
      BY <2>4, <2>6, <2>3
    <3>2. ~(n <= Len(v))
      BY <3>1, <2>3
    <3>3. Len(v) \notin Bad
      BY <2>2, <3>2
    <3> QED
      BY <3>1, <3>3, <2>6 DEF Bad
  <2>9. v \in Seq(Steps) /\ v \in Seq(Frames)
    <3>1. v \in Seq(Steps) /\ Steps \subseteq Frames
      BY <2>6, StepIs DEF IsWay
    <3> QED
      BY <3>1, SeqMonotonic
  <2>10. v \in Ways(m)
    BY <2>6, <2>8, <2>9, DistinctIsShort, WaysAre
  <2>11. \A k \in 1..Len(v) : v[k].of # e.of
    <3>1. CASE v = <<>>
      BY <3>1
    <3>2. CASE v # <<>>
      BY <3>2, <2>6, <2>10 DEF Supported, EndOf
    <3> QED
      BY <3>1, <3>2
  <2>12. ASSUME NEW j \in 1..Len(u), NEW k \in 1..Len(u), u[j].of = u[k].of PROVE j = k
    <3>1. CASE j <= Len(v) /\ k <= Len(v)
      <4>1. j \in 1..Len(v) /\ k \in 1..Len(v) /\ v[j] = u[j] /\ v[k] = u[k]
        BY <3>1, <2>6
      <4> QED
        BY <4>1, <2>12, <2>8 DEF NoneTwice
    <3>2. CASE j <= Len(v) /\ k = Len(u)
      <4>1. j \in 1..Len(v) /\ v[j] = u[j] /\ u[k] = e
        BY <3>2, <2>6, <2>7
      <4> QED
        BY <4>1, <2>11, <2>12
    <3>3. CASE j = Len(u) /\ k <= Len(v)
      <4>1. k \in 1..Len(v) /\ v[k] = u[k] /\ u[j] = e
        BY <3>3, <2>6, <2>7
      <4> QED
        BY <4>1, <2>11, <2>12
    <3>4. CASE j = Len(u) /\ k = Len(u)
      BY <3>4
    <3>5. j <= Len(v) \/ j = Len(u)
      BY <2>6
    <3>6. k <= Len(v) \/ k = Len(u)
      BY <2>6
    <3> QED
      BY <3>1, <3>2, <3>3, <3>4, <3>5, <3>6
  <2> QED
    BY <2>12, <2>4 DEF NoneTwice
<1>2. NoneTwice(s)
  <2>1. Len(s) \in Nat
    BY DEF IsWay
  <2> QED
    BY <1>1, <2>1
<1>3. s \in Seq(Frames)
  <2>1. s \in Seq(Steps) /\ Steps \subseteq Frames
    BY StepIs DEF IsWay
  <2> QED
    BY <2>1, SeqMonotonic
<1> QED
  BY <1>2, <1>3, DistinctIsShort, WaysAre

\* What a supported message leads to is supported, and in no circle.
LEMMA WayBelow ==
  ASSUME SchemaType, NEW m \in Messages, Supported(m), NEW s, IsWay(m, s), s # <<>>
  PROVE  /\ Field(Last(s)) \in Fields /\ Field(Last(s)).mode # "refused"
         /\ \A k \in 1..Len(s) : s[k].of # Field(Last(s)).to
         /\ IsMessage(Field(Last(s))) => Field(Last(s)).to \in Messages /\ Supported(Field(Last(s)).to)
<1> DEFINE f == Field(Last(s))
<1>1. Last(s) \in Steps
  BY WayEnd
<1>2. f \in Fields
  BY <1>1, StepIs
<1>3. s \in Ways(m)
  BY AllWays
<1>4. f.mode # "refused" /\ \A k \in 1..Len(s) : s[k].of # f.to
  BY <1>3 DEF Supported
<1>5. ASSUME IsMessage(f) PROVE f.to \in Messages /\ Supported(f.to)
  <2>1. f.to \in Messages
    BY <1>2, <1>5 DEF IsMessage, Fields
  <2>2. f.to = EndOf(m, s)
    BY DEF EndOf
  <2> HIDE DEF f
  <2>3. ASSUME NEW t \in Ways(f.to) \ {<<>>}
        PROVE  Field(Last(t)).mode # "refused" /\ \A k \in 1..Len(t) : t[k].of # Field(Last(t)).to
    <3> DEFINE u == s \o t
    <3>1. IsWay(f.to, t) /\ t # <<>>
      BY <2>3, WaysAre
    <3>2. s \in Seq(Steps) /\ t \in Seq(Steps)
      BY <3>1 DEF IsWay
    <3>3. IsWay(m, u)
      BY <3>1, <3>2, <2>2, WaySplit
    <3>4. Len(s) \in Nat /\ Len(t) \in Nat /\ Len(t) >= 1 /\ Len(u) = Len(s) + Len(t)
      BY <3>1, <3>2, EmptySeq, ConcatProperties
    <3>5. \A i \in 1..Len(t) : u[Len(s) + i] = t[i]
      <4>1. \A i \in 1..Len(s) + Len(t) : u[i] = IF i <= Len(s) THEN s[i] ELSE t[i - Len(s)]
        BY <3>2, ConcatProperties
      <4> HIDE DEF u
      <4> TAKE i \in 1..Len(t)
      <4>2. Len(s) + i \in 1..Len(s) + Len(t) /\ ~(Len(s) + i <= Len(s)) /\ Len(s) + i - Len(s) = i
        BY <3>4
      <4> QED
        BY <4>1, <4>2
    <3> HIDE DEF u
    <3>6. u # <<>> /\ Last(u) = Last(t)
      BY <3>4, <3>5 DEF Last
    <3>7. u \in Ways(m)
      BY <3>3, AllWays
    <3>8. Field(Last(t)).mode # "refused" /\ \A k \in 1..Len(u) : u[k].of # Field(Last(t)).to
      BY <3>6, <3>7 DEF Supported
    <3>9. ASSUME NEW k \in 1..Len(t) PROVE t[k].of # Field(Last(t)).to
      <4>1. Len(s) + k \in 1..Len(u)
        BY <3>4
      <4> QED
        BY <4>1, <3>5, <3>8
    <3> QED
      BY <3>8, <3>9
  <2> QED
    BY <2>1, <2>3 DEF Supported
<1> QED
  BY <1>2, <1>4, <1>5

\* The fields of a supported message.
LEMMA FieldBelow ==
  ASSUME SchemaType, NEW m \in Messages, Supported(m), NEW i \in 1..Len(schema[m])
  PROVE  /\ schema[m][i] \in Fields /\ schema[m][i].mode # "refused" /\ schema[m][i].to # m
         /\ IsMessage(schema[m][i]) => schema[m][i].to \in Messages /\ Supported(schema[m][i].to)
<1> DEFINE e == [of |-> m, at |-> i]
<1>1. e \in Steps /\ e.of = m /\ Field(e) = schema[m][i]
  BY StepIs DEF Field
<1> HIDE DEF e
<1>2. IsWay(m, <<e>>) /\ <<e>> # <<>> /\ Last(<<e>>) = e /\ Len(<<e>>) = 1 /\ <<e>>[1] = e
  BY <1>1, WayOfOne
<1>3. /\ Field(e) \in Fields /\ Field(e).mode # "refused"
      /\ \A k \in 1..1 : <<e>>[k].of # Field(e).to
      /\ IsMessage(Field(e)) => Field(e).to \in Messages /\ Supported(Field(e).to)
  BY <1>2, WayBelow
<1>4. 1 \in 1..1
  OBVIOUS
<1>5. e.of # Field(e).to
  BY <1>2, <1>3, <1>4
<1> QED
  BY <1>1, <1>3, <1>5

\* A message is spread if one of its fields has a relation of its own.
LEMMA SpreadIs ==
  ASSUME SchemaType, NEW m \in Messages, Supported(m)
  PROVE  Spread(m) <=> \E i \in 1..Len(schema[m]) : OwnRelation(schema[m][i])
<1>1. ASSUME Spread(m) PROVE \E i \in 1..Len(schema[m]) : OwnRelation(schema[m][i])
  <2>1. PICK s \in Ways(m) \ {<<>>} : Multiple(Field(Last(s)))
    BY <1>1 DEF Spread
  <2>2. IsWay(m, s) /\ s \in Seq(Steps) /\ Len(s) \in Nat /\ Len(s) >= 1 /\ Len(s) <= Cardinality(Messages)
    BY <2>1, WaysAre, WayEnd DEF IsWay
  <2>3. Cardinality(Messages) \in Nat
    BY MessagesAssumption, FS_CardinalityType
  <2> DEFINE e == s[1]
             a == SubSeq(s, 1, 1)
             t == SubSeq(s, 2, Len(s))
  <2>4. /\ a \in Seq(Steps) /\ Len(a) = 1 /\ a[1] = e
        /\ t \in Seq(Steps) /\ Len(t) = Len(s) - 1
        /\ \A i \in 1..Len(s) - 1 : t[i] = s[1 + i]
        /\ a \o t = s
    <3>1. 1 \in 0..Len(s) /\ 1 \in 1..1
      BY <2>2
    <3>2. /\ SubSeq(s, 1, 1) \in Seq(Steps) /\ Len(SubSeq(s, 1, 1)) = 1
          /\ \A i \in 1..1 : SubSeq(s, 1, 1)[i] = s[i]
          /\ SubSeq(s, 1 + 1, Len(s)) \in Seq(Steps) /\ Len(SubSeq(s, 1 + 1, Len(s))) = Len(s) - 1
          /\ \A i \in 1..Len(s) - 1 : SubSeq(s, 1 + 1, Len(s))[i] = s[1 + i]
          /\ SubSeq(s, 1, 1) \o SubSeq(s, 1 + 1, Len(s)) = s
      BY <2>2, <3>1, TwoParts
    <3>3. SubSeq(s, 1 + 1, Len(s)) = t
      OBVIOUS
    <3> HIDE DEF t
    <3> QED
      BY <3>1, <3>2, <3>3
  <2>5. e \in Steps /\ e.of = m
    BY <2>1, <2>2, ElementOfSeq DEF IsWay, Leads
  <2>6. e.at \in 1..Len(schema[m]) /\ Field(e) = schema[m][e.at]
    BY <2>5, StepIs DEF Field
  <2> HIDE DEF e, a, t
  <2>7. IsWay(m, a) /\ IsWay(EndOf(m, a), t)
    BY <2>2, <2>4, WaySplit
  <2>8. EndOf(m, a) = Field(e).to
    BY <2>4 DEF EndOf, Last
  <2>9. CASE Len(s) = 1
    <3>1. Last(s) = e
      BY <2>9 DEF Last, e
    <3> QED
      BY <3>1, <2>1, <2>6 DEF OwnRelation
  <2>10. CASE Len(s) # 1
    <3>1. Len(t) \in Nat /\ Len(t) >= 1 /\ Len(t) <= Cardinality(Messages) /\ t # <<>>
      BY <2>2, <2>3, <2>4, <2>10
    <3>2. t \in Ways(Field(e).to)
      BY <2>7, <2>8, <3>1, WaysAre
    <3>3. Last(t) = Last(s)
      <4>1. \A n \in Nat : n >= 1 /\ n # 1 => n - 1 \in 1..n - 1 /\ 1 + (n - 1) = n
        OBVIOUS
      <4>2. Len(s) - 1 \in 1..Len(s) - 1 /\ 1 + (Len(s) - 1) = Len(s)
        BY <2>2, <2>10, <4>1
      <4>3. t[Len(s) - 1] = s[1 + (Len(s) - 1)]
        BY <2>4, <4>2
      <4> QED
        BY <2>4, <4>2, <4>3 DEF Last
    <3>4. Spread(Field(e).to)
      BY <2>1, <3>1, <3>2, <3>3 DEF Spread
    <3>5. IsMessage(Field(e))
      <4>1. t[1] \in Steps /\ t[1].of = Field(e).to
        BY <2>4, <2>7, <2>8, <3>1, ElementOfSeq DEF IsWay, Leads
      <4>2. Field(e).to \in Messages
        BY <4>1, StepIs
      <4> QED
        BY <4>2, MessagesAssumption DEF IsMessage
    <3> QED
      BY <3>4, <3>5, <2>6 DEF OwnRelation
  <2> QED
    BY <2>9, <2>10
<1>2. ASSUME NEW i \in 1..Len(schema[m]), OwnRelation(schema[m][i]) PROVE Spread(m)
  <2> DEFINE e == [of |-> m, at |-> i]
             f == schema[m][i]
  <2>1. e \in Steps /\ e.of = m /\ Field(e) = f
    BY StepIs DEF Field
  <2> HIDE DEF e
  <2>2. IsWay(m, <<e>>) /\ <<e>> # <<>> /\ Last(<<e>>) = e /\ Len(<<e>>) = 1 /\ <<e>>[1] = e /\ <<e>> \in Seq(Steps)
    BY <2>1, WayOfOne
  <2>3. CASE Multiple(f)
    <3>1. <<e>> \in Ways(m)
      BY <2>2, AllWays
    <3> QED
      BY <2>1, <2>2, <2>3, <3>1 DEF Spread
  <2>4. CASE IsMessage(f) /\ Spread(f.to)
    <3>1. PICK t \in Ways(f.to) \ {<<>>} : Multiple(Field(Last(t)))
      BY <2>4 DEF Spread
    <3>2. IsWay(f.to, t) /\ t \in Seq(Steps) /\ t # <<>> /\ Len(t) \in Nat /\ Len(t) >= 1
      BY <3>1, WaysAre, EmptySeq DEF IsWay
    <3> DEFINE u == <<e>> \o t
    <3>3. EndOf(m, <<e>>) = f.to
      BY <2>1, <2>2 DEF EndOf
    <3>4. IsWay(m, u)
      BY <2>2, <3>2, <3>3, WaySplit
    <3>5. Len(u) = 1 + Len(t) /\ \A k \in 1..1 + Len(t) : u[k] = IF k <= 1 THEN <<e>>[k] ELSE t[k - 1]
      BY <2>2, <3>2, ConcatProperties
    <3> HIDE DEF u
    <3>6. u # <<>> /\ Last(u) = Last(t)
      <4>1. 1 + Len(t) \in 1..1 + Len(t) /\ ~(1 + Len(t) <= 1) /\ 1 + Len(t) - 1 = Len(t)
        BY <3>2
      <4>2. u[1 + Len(t)] = t[Len(t)]
        BY <3>5, <4>1
      <4>3. Len(u) # 0
        BY <3>5, <3>2
      <4> QED
        BY <4>2, <4>3, <3>5 DEF Last
    <3>7. u \in Ways(m)
      BY <3>4, AllWays
    <3> QED
      BY <3>1, <3>6, <3>7 DEF Spread
  <2> QED
    BY <1>2, <2>3, <2>4 DEF OwnRelation
<1> QED
  BY <1>1, <1>2

-----------------------------------------------------------------------------
(* The inductive invariant of the planner. *)

ColumnCalls == [of : Messages, at : Nat \ {0}, slot : Nat \ {0}, name : Seq(STRING), arrow : Seq(Frames)]
RelationKinds == {"root", "repeated", "value", "oneof", "optional"}
RelationRecords ==
  [name : Seq(STRING), of : Messages \cup {"scalar"}, kind : RelationKinds, parent : Nat, field : Nat,
   columns : SUBSET Seq(Frames)]

PlanType ==
  /\ SchemaType
  /\ root \in 1..Len(PlanRoots) + 1
  /\ task \in {"root", "validate", "relation", "columns"}
  /\ closure \in Seq(Frames) /\ visited \in SUBSET Messages
  /\ calls \in Seq(ColumnCalls) /\ asking \in Seq(Frames)
  /\ memo \in [Messages -> {"unknown", "no", "yes"}]
  /\ relations \in Seq(RelationRecords) /\ refused \in BOOLEAN
  /\ task # "root" => root <= Len(PlanRoots)
  /\ task = "validate" <=> closure # <<>>
  /\ task = "columns" <=> calls # <<>>
  /\ asking # <<>> => task = "columns" /\ AtField(Here)
  /\ \A k \in 1..Len(calls) : calls[k].slot \in 1..Len(relations)

\* Every call but the last is at the field whose message the next one is in.
Chained(s) ==
  /\ \A k \in 1..Len(s) : s[k].at <= Len(schema[s[k].of]) + 1
  /\ \A k \in 1..Len(s) - 1 : AtField(s[k]) /\ s[k + 1].of = Field(s[k]).to

\* What has been validated leads to nothing else.
Validated(f) == f.mode # "refused" /\ (IsMessage(f) => f.to \in visited)
VisitedInv ==
  \A m \in visited : Supported(m) /\ \A i \in 1..Len(schema[m]) : Validated(schema[m][i])
ClosureInv ==
  task = "validate" =>
    /\ closure[1].of = PlanRoots[root].of
    /\ Chained(closure) /\ NoneTwice(closure)
    /\ \A k \in 1..Len(closure) :
         /\ closure[k].of \notin visited
         /\ \A i \in 1..closure[k].at - 1 : Validated(schema[closure[k].of][i])
    /\ \A k \in 1..Len(closure) - 1 : Field(closure[k]).mode # "refused"
SupportedInv == task \in {"relation", "columns"} => Supported(PlanRoots[root].of)

\* What is known of a message is so, but for those that are being asked about.
Known(m) == memo[m] = "unknown" \/ memo[m] = IF Spread(m) THEN "yes" ELSE "no"
MemoInv == \A m \in Messages : Known(m) \/ \E k \in 1..Len(asking) : asking[k].of = m
AskingInv ==
  /\ asking # <<>> => Single(Field(Here)) /\ asking[1].of = Field(Here).to
  /\ Chained(asking)
  /\ \A k \in 1..Len(asking) :
       /\ Supported(asking[k].of) /\ memo[asking[k].of] = "no"
       /\ \A i \in 1..asking[k].at - 1 : ~OwnRelation(schema[asking[k].of][i])

\* The way to the call n + 1.  A call is for a place, and its struct is where
\* the rest of the way leads.
WayTo(s, n) == [k \in 1..n |-> [of |-> s[k].of, at |-> s[k].at]]
CallFor(c, w) ==
  \E p \in Places :
    /\ p.root = root /\ p.way \o c.arrow = w
    /\ c.name = NameAt(p) /\ relations[c.slot].name = NameAt(p)
    /\ \A j \in 1..Len(c.arrow) : ~OwnRelation(Field(c.arrow[j]))
CallsInv ==
  calls # <<>> =>
    /\ calls[1].of = PlanRoots[root].of
    /\ Chained(calls)
    /\ \A k \in 1..Len(calls) : CallFor(calls[k], WayTo(calls, k - 1))

\* The ways that the calls have entered, or have behind them.
Behind(c, s) ==
  \/ \E k \in 1..Len(c) :
       /\ k <= Len(s) /\ \A j \in 1..k - 1 : s[j] = c[j]
       /\ s[k].of = c[k].of /\ s[k].at < c[k].at
  \/ Len(s) < Len(c) /\ \A j \in 1..Len(s) : s[j] = c[j]
Seen(i, s) == i < root \/ (i = root /\ Behind(WayTo(calls, Len(calls)), s))
Handled == {p \in Places : Seen(p.root, p.way)}

\* The relations are those of the places seen.
RelationsInv ==
  ~refused =>
    /\ \A i \in 1..root - 1 : Supported(PlanRoots[i].of)
    /\ \A p \in Handled : Legal(NameAt(p)) /\ \E i \in 1..Len(relations) : StandsAt(i, p)
    /\ \A i \in 1..Len(relations) : \E p \in Handled : StandsAt(i, p)
    /\ \A p, q \in Handled : NameAt(p) = NameAt(q) => p = q
    /\ \A i, j \in 1..Len(relations) : relations[i].name = relations[j].name => i = j
\* Their columns are the fields seen.
ColumnsInv ==
  ~refused =>
    \A p \in Handled :
      /\ \A i \in 1..Len(relations) :
           relations[i].name = NameAt(p) =>
             relations[i].columns = {t \in ColumnsAt(p) : Seen(p.root, p.way \o t)}
      /\ \A t \in ColumnsAt(p) : Seen(p.root, p.way \o t) /\ Len(t) = 1 =>
           Field(t[1]).name \notin ReservedColumns

PlanInv ==
  /\ PlanType /\ VisitedInv /\ ClosureInv /\ SupportedInv /\ MemoInv /\ AskingInv
  /\ CallsInv /\ RelationsInv /\ ColumnsInv
  /\ refused => ~Acceptable

\* What is said of the graph stays true of it.
LEMMA SameGraph ==
  ASSUME UNCHANGED schema
  PROVE  /\ SchemaType' <=> SchemaType
         /\ Steps' = Steps
         /\ \A e : Field(e)' = Field(e)
         /\ \A m, s : IsWay(m, s)' <=> IsWay(m, s)
         /\ \A m : Supported(m)' <=> Supported(m)
         /\ \A m : Spread(m)' <=> Spread(m)
         /\ \A f : OwnRelation(f)' <=> OwnRelation(f)
         /\ Places' = Places
         /\ \A p : NameAt(p)' = NameAt(p) /\ MessageAt(p)' = MessageAt(p) /\ ColumnsAt(p)' = ColumnsAt(p)
         /\ Acceptable' <=> Acceptable
<1>1. Steps' = Steps
  BY DEF Steps
<1>2. \A m, s : Leads(m, s)' <=> Leads(m, s)
  BY DEF Leads, Field
<1>3. ASSUME NEW m PROVE Ways(m)' = Ways(m)
  BY <1>1, <1>2 DEF Ways
<1>4. \A m : Supported(m)' <=> Supported(m)
  BY <1>3 DEF Supported, Field
<1>5. \A m : Spread(m)' <=> Spread(m)
  BY <1>3 DEF Spread, Field
<1>6. \A f : OwnRelation(f)' <=> OwnRelation(f)
  BY <1>5 DEF OwnRelation
<1>7. Places' = Places
  BY <1>3, <1>6 DEF Places, Field
<1>8. \A p : NameAt(p)' = NameAt(p)
  BY DEF NameAt, Field
<1>9. \A p : MessageAt(p)' = MessageAt(p)
  BY DEF MessageAt, Field
<1>10. \A p : ColumnsAt(p)' = ColumnsAt(p)
  BY <1>3, <1>6, <1>9 DEF ColumnsAt, Field
<1>11. Acceptable' <=> Acceptable
  BY <1>4, <1>7, <1>8, <1>10 DEF Acceptable, Field
<1>12. SchemaType' <=> SchemaType
  BY DEF SchemaType
<1>13. \A m, s : IsWay(m, s)' <=> IsWay(m, s)
  BY <1>1, <1>2 DEF IsWay
<1>14. \A e : Field(e)' = Field(e)
  BY DEF Field
<1> QED
  BY <1>1, <1>4, <1>5, <1>6, <1>7, <1>8, <1>9, <1>10, <1>11, <1>12, <1>13, <1>14

\* The stacks.
Steady(T) ==
  \A c \in T :
    /\ c.of \in Messages /\ c.at \in Nat \ {0}
    /\ [c EXCEPT !.at = @ + 1] \in T
    /\ [c EXCEPT !.at = @ + 1].of = c.of /\ [c EXCEPT !.at = @ + 1].at = c.at + 1

LEMMA CallsSteady == Steady(Frames) /\ Steady(ColumnCalls)
<1>1. ASSUME NEW c \in Frames
      PROVE  /\ c.of \in Messages /\ c.at \in Nat \ {0}
             /\ [c EXCEPT !.at = @ + 1] \in Frames
             /\ [c EXCEPT !.at = @ + 1].of = c.of /\ [c EXCEPT !.at = @ + 1].at = c.at + 1
  BY DEF Frames
<1>2. ASSUME NEW c \in ColumnCalls
      PROVE  /\ c.of \in Messages /\ c.at \in Nat \ {0}
             /\ [c EXCEPT !.at = @ + 1] \in ColumnCalls
             /\ [c EXCEPT !.at = @ + 1].of = c.of /\ [c EXCEPT !.at = @ + 1].at = c.at + 1
  BY DEF ColumnCalls
<1> QED
  BY <1>1, <1>2 DEF Steady

LEMMA FrontIs ==
  ASSUME NEW T, NEW s \in Seq(T), s # <<>>
  PROVE  /\ Len(s) \in Nat /\ Len(s) >= 1 /\ Last(s) \in T /\ Last(s) = s[Len(s)]
         /\ Front(s) \in Seq(T) /\ Len(Front(s)) = Len(s) - 1
         /\ \A k \in 1..Len(s) - 1 : Front(s)[k] = s[k]
         /\ Len(s) = 1 <=> Front(s) = <<>>
<1>1. Len(s) \in Nat /\ Len(s) >= 1
  BY EmptySeq
<1>2. Last(s) = s[Len(s)] /\ Last(s) \in T
  BY <1>1, ElementOfSeq DEF Last
<1> DEFINE n == Len(s) - 1
<1>3. n \in 0..Len(s)
  BY <1>1
<1>4. Front(s) = SubSeq(s, 1, n)
  BY DEF Front
<1> HIDE DEF n
<1>5. /\ SubSeq(s, 1, n) \in Seq(T) /\ Len(SubSeq(s, 1, n)) = n
      /\ \A i \in 1..n : SubSeq(s, 1, n)[i] = s[i]
  BY <1>3, TwoParts
<1>6. Front(s) = <<>> <=> n = 0
  BY <1>4, <1>5, EmptySeq
<1> QED
  BY <1>1, <1>2, <1>4, <1>5, <1>6 DEF n

LEMMA AdvancedIs ==
  ASSUME NEW T, NEW s \in Seq(T), s # <<>>, Steady(T)
  PROVE  /\ Advanced(s) \in Seq(T) /\ Len(Advanced(s)) = Len(s) /\ Advanced(s) # <<>>
         /\ \A k \in 1..Len(s) - 1 : Advanced(s)[k] = s[k]
         /\ Advanced(s)[Len(s)] = [s[Len(s)] EXCEPT !.at = @ + 1]
<1>1. Len(s) \in Nat /\ Len(s) >= 1 /\ s[Len(s)] \in T
  BY EmptySeq, ElementOfSeq
<1> DEFINE e == [s[Len(s)] EXCEPT !.at = @ + 1]
<1>2. e \in T
  BY <1>1 DEF Steady
<1>3. Advanced(s) = [s EXCEPT ![Len(s)] = e]
  BY DEF Advanced
<1> HIDE DEF e
<1>4. Len(s) \in 1..Len(s)
  BY <1>1
<1>5. /\ [s EXCEPT ![Len(s)] = e] \in Seq(T) /\ Len([s EXCEPT ![Len(s)] = e]) = Len(s)
      /\ \A j \in 1..Len(s) : [s EXCEPT ![Len(s)] = e][j] = IF j = Len(s) THEN e ELSE s[j]
  BY <1>2, <1>4, ExceptSeq
<1>6. Advanced(s) \in Seq(T) /\ Len(Advanced(s)) = Len(s) /\ Advanced(s)[Len(s)] = e
  BY <1>3, <1>4, <1>5
<1>7. \A k \in 1..Len(s) - 1 : k \in 1..Len(s) /\ k # Len(s)
  BY <1>1
<1>8. \A k \in 1..Len(s) - 1 : Advanced(s)[k] = s[k]
  BY <1>3, <1>5, <1>7
<1>9. Advanced(s) # <<>>
  BY <1>1, <1>6, EmptySeq
<1> QED
  BY <1>6, <1>8, <1>9 DEF e

LEMMA AppendIs ==
  ASSUME NEW T, NEW s \in Seq(T), NEW e \in T
  PROVE  /\ Append(s, e) \in Seq(T) /\ Append(s, e) # <<>> /\ Len(s) \in Nat
         /\ Len(Append(s, e)) = Len(s) + 1 /\ Append(s, e)[Len(s) + 1] = e
         /\ \A k \in 1..Len(s) : Append(s, e)[k] = s[k]
<1> QED
  BY AppendProperties

\* A call that returns: the one before it goes on.
LEMMA ReturnedIs ==
  ASSUME NEW T, NEW s \in Seq(T), s # <<>>, Steady(T)
  PROVE  /\ Returned(s) \in Seq(T) /\ Len(Returned(s)) = Len(s) - 1
         /\ Returned(s) = <<>> <=> Len(s) = 1
         /\ \A k \in 1..Len(s) - 2 : Returned(s)[k] = s[k]
         /\ Len(s) # 1 => Returned(s)[Len(s) - 1] = [s[Len(s) - 1] EXCEPT !.at = @ + 1]
<1>1. /\ Len(s) \in Nat /\ Len(s) >= 1
      /\ Front(s) \in Seq(T) /\ Len(Front(s)) = Len(s) - 1
      /\ \A k \in 1..Len(s) - 1 : Front(s)[k] = s[k]
      /\ Len(s) = 1 <=> Front(s) = <<>>
  BY FrontIs
<1>2. CASE Len(s) = 1
  <2>1. Returned(s) = <<>>
    BY <1>2 DEF Returned
  <2> QED
    BY <2>1, <1>2, EmptySeq
<1>3. CASE Len(s) # 1
  <2> DEFINE b == Front(s)
  <2>1. Returned(s) = Advanced(b)
    BY <1>3 DEF Returned
  <2>2. b \in Seq(T) /\ b # <<>> /\ Len(b) = Len(s) - 1
    BY <1>1, <1>3
  <2>3. \A k \in 1..Len(s) - 1 : b[k] = s[k]
    BY <1>1
  <2> HIDE DEF b
  <2>4. /\ Advanced(b) \in Seq(T) /\ Len(Advanced(b)) = Len(b) /\ Advanced(b) # <<>>
        /\ \A k \in 1..Len(b) - 1 : Advanced(b)[k] = b[k]
        /\ Advanced(b)[Len(b)] = [b[Len(b)] EXCEPT !.at = @ + 1]
    BY <2>2, AdvancedIs
  <2>5. Len(s) - 1 \in 1..Len(s) - 1
    BY <1>1, <1>3
  <2>6. \A k \in 1..Len(s) - 2 : k \in 1..Len(s) - 1 /\ k \in 1..Len(b) - 1
    BY <1>1, <2>2
  <2>7. \A k \in 1..Len(s) - 2 : Advanced(b)[k] = s[k]
    BY <2>3, <2>4, <2>6
  <2>8. Advanced(b)[Len(s) - 1] = [s[Len(s) - 1] EXCEPT !.at = @ + 1]
    BY <2>2, <2>3, <2>4, <2>5
  <2> QED
    BY <1>3, <2>1, <2>2, <2>4, <2>7, <2>8
<1> QED
  BY <1>2, <1>3

\* The field a call is at.
LEMMA FieldIs ==
  ASSUME SchemaType, NEW c, c.of \in Messages, c.at \in Nat \ {0}, AtField(c)
  PROVE  /\ [of |-> c.of, at |-> c.at] \in Steps /\ Field([of |-> c.of, at |-> c.at]) = Field(c)
         /\ c.at \in 1..Len(schema[c.of]) /\ Field(c) = schema[c.of][c.at]
         /\ Field(c) \in Fields /\ Field(c).name \in Seq(STRING) /\ Field(c).mode \in Modes
         /\ Field(c).to \in Messages \cup {"scalar"}
         /\ IsMessage(Field(c)) <=> Field(c).to \in Messages
<1>1. Len(schema[c.of]) \in Nat
  BY StepIs
<1>2. c.at \in 1..Len(schema[c.of])
  BY <1>1 DEF AtField
<1>3. [of |-> c.of, at |-> c.at] \in Steps /\ Field([of |-> c.of, at |-> c.at]) = Field(c)
  BY <1>2, StepIs DEF Field
<1>4. Field(c) \in Fields
  BY <1>2, StepIs DEF Field
<1> QED
  BY <1>2, <1>3, <1>4, MessagesAssumption DEF Field, Fields, IsMessage

LEMMA HereIs ==
  ASSUME PlanType, calls # <<>>
  PROVE  /\ Len(calls) \in Nat /\ Len(calls) >= 1 /\ Here = calls[Len(calls)]
         /\ Here \in ColumnCalls /\ Here.of \in Messages /\ Here.at \in Nat \ {0}
         /\ Here.slot \in 1..Len(relations) /\ Here.name \in Seq(STRING) /\ Here.arrow \in Seq(Frames)
         /\ [of |-> Here.of, at |-> Here.at] \in Frames
<1>1. calls \in Seq(ColumnCalls)
  BY DEF PlanType
<1>2. Len(calls) \in Nat /\ Len(calls) >= 1 /\ Here = calls[Len(calls)] /\ Here \in ColumnCalls
  BY <1>1, FrontIs DEF Here
<1>3. Len(calls) \in 1..Len(calls)
  BY <1>2
<1>4. Here.slot \in 1..Len(relations)
  BY <1>2, <1>3 DEF PlanType
<1> QED
  BY <1>2, <1>4 DEF ColumnCalls, Frames

LEMMA RootIs ==
  ASSUME NEW i \in 1..Len(PlanRoots)
  PROVE  /\ PlanRoots[i].of \in Messages /\ PlanRoots[i].name \in Seq(STRING)
         /\ PlanRoots[i] = [of |-> PlanRoots[i].of, name |-> PlanRoots[i].name]
<1>1. PlanRoots[i] \in [of : Messages, name : Seq(STRING)]
  BY PlanRootsAssumption, ElementOfSeq
<1> QED
  BY <1>1

LEMMA InitType == PlanInit => PlanType
<1> SUFFICES ASSUME PlanInit PROVE PlanType
  OBVIOUS
<1>1. Len(PlanRoots) \in Nat
  BY PlanRootsAssumption
<1>2. Len(<<>>) = 0
  OBVIOUS
<1>3. \A T : <<>> \in Seq(T)
  OBVIOUS
<1>4. memo \in [Messages -> {"unknown", "no", "yes"}]
  BY DEF PlanInit
<1>5. 1 \in 1..Len(PlanRoots) + 1
  BY <1>1
<1>6. ~ \E k : k \in 1..Len(<<>>)
  BY <1>2
<1> QED
  BY <1>3, <1>4, <1>5, <1>6 DEF PlanInit, PlanType, SchemaType

\* A refusal leaves nothing open.
LEMMA RefuseType ==
  ASSUME PlanType, Refuse, asking = <<>>, task # "root", UNCHANGED <<schema, visited, asking, memo>>
  PROVE  PlanType'
<1>1. root + 1 \in 1..Len(PlanRoots) + 1
  <2>1. Len(PlanRoots) \in Nat
    BY PlanRootsAssumption
  <2> QED
    BY <2>1 DEF PlanType
<1>2. ~ \E k : k \in 1..Len(<<>>)
  OBVIOUS
<1>3. \A T : <<>> \in Seq(T)
  OBVIOUS
<1> QED
  BY <1>1, <1>2, <1>3 DEF PlanType, Refuse, SchemaType

LEMMA TypeKept == PlanType /\ [PlanNext]_planVars => PlanType'
<1> SUFFICES ASSUME PlanType, [PlanNext]_planVars PROVE PlanType'
  OBVIOUS
<1>0. /\ Steady(Frames) /\ Steady(ColumnCalls) /\ \A T : <<>> \in Seq(T) /\ Len(<<>>) = 0
      /\ ~ \E k : k \in 1..Len(<<>>)
  BY CallsSteady
<1> USE <1>0
<1>t. SchemaType /\ closure \in Seq(Frames) /\ asking \in Seq(Frames) /\ calls \in Seq(ColumnCalls)
  BY DEF PlanType
<1>1. CASE OpenRoot
  <2>1. root \in 1..Len(PlanRoots)
    BY <1>1 DEF OpenRoot, PlanType
  <2>r. PlanRoots[root].of \in Messages
    BY <2>1, RootIs
  <2>2. Call(PlanRoots[root].of) \in Frames
    BY <2>r DEF Call, Frames
  <2>3. closure' \in Seq(Frames) /\ closure' # <<>>
    BY <1>1, <2>2 DEF OpenRoot
  <2> QED
    BY <1>1, <2>1, <2>3 DEF OpenRoot, PlanType, SchemaType, AtField, Here
<1>2. CASE CheckField
  <2> DEFINE c == Last(closure)
             f == Field(c)
  <2>1. closure # <<>> /\ asking = <<>> /\ calls = <<>>
    BY <1>2 DEF CheckField, PlanType
  <2>2. c \in Frames
    BY <1>t, <2>1, FrontIs
  <2>3. c.of \in Messages /\ c.at \in Nat \ {0} /\ AtField(c)
    BY <2>2, <1>2 DEF Frames, CheckField
  <2>4. f \in Fields /\ (IsMessage(f) <=> f.to \in Messages)
    BY <2>3, <1>t, FieldIs
  <2> HIDE DEF c, f
  <2>5. CASE Refuse
    <3>1. task # "root" /\ UNCHANGED <<schema, visited, asking, memo>>
      BY <1>2 DEF CheckField
    <3> QED
      BY <2>1, <2>5, <3>1, RefuseType
  <2>6. CASE /\ closure' = IF IsMessage(f) /\ f.to \notin visited
                           THEN Append(closure, Call(f.to)) ELSE Advanced(closure)
             /\ UNCHANGED <<root, task, calls, relations, refused>>
    <3>1. ASSUME IsMessage(f) PROVE Append(closure, Call(f.to)) \in Seq(Frames) /\ Append(closure, Call(f.to)) # <<>>
      <4>1. Call(f.to) \in Frames
        BY <2>4, <3>1 DEF Call, Frames
      <4> QED
        BY <4>1, <1>t, AppendIs
    <3>2. Advanced(closure) \in Seq(Frames) /\ Advanced(closure) # <<>>
      BY <1>t, <2>1, AdvancedIs
    <3>3. closure' \in Seq(Frames) /\ closure' # <<>>
      BY <2>6, <3>1, <3>2
    <3>4. UNCHANGED <<schema, visited, asking, memo>>
      BY <1>2 DEF CheckField
    <3> QED
      BY <2>1, <2>6, <3>3, <3>4 DEF PlanType, SchemaType
  <2> QED
    BY <1>2, <2>5, <2>6 DEF CheckField, c, f
<1>3. CASE LeaveMessage
  <2>1. closure # <<>> /\ asking = <<>> /\ calls = <<>>
    BY <1>3 DEF LeaveMessage, PlanType
  <2>2. Last(closure) \in Frames
    BY <1>t, <2>1, FrontIs
  <2>3. Last(closure).of \in Messages
    BY <2>2 DEF Frames
  <2>4. closure' \in Seq(Frames) /\ (closure' = <<>> <=> Len(closure) = 1)
    BY <1>3, <1>t, <2>1, ReturnedIs DEF LeaveMessage
  <2> QED
    BY <1>3, <2>1, <2>3, <2>4 DEF LeaveMessage, PlanType, SchemaType
<1>4. CASE PlanRoot
  <2>1. root \in 1..Len(PlanRoots) /\ asking = <<>> /\ calls = <<>> /\ closure = <<>> /\ relations \in Seq(RelationRecords)
    BY <1>4 DEF PlanRoot, PlanType
  <2> DEFINE r == PlanRoots[root]
             new == Relation(r.name, r.of, "root", 0, 0, {})
             call == ColumnsCall(r.of, Len(relations) + 1, r.name, <<>>)
  <2>2. r.of \in Messages /\ r.name \in Seq(STRING)
    BY <2>1, RootIs
  <2>3. new \in RelationRecords
    BY <2>2 DEF Relation, RelationRecords, RelationKinds
  <2>4. Len(relations) \in Nat
    BY <2>1
  <2>5. call \in ColumnCalls /\ call.slot = Len(relations) + 1
    BY <2>2, <2>4 DEF ColumnsCall, ColumnCalls
  <2>6. CASE Refuse
    <3>1. task # "root" /\ UNCHANGED <<schema, visited, asking, memo>>
      BY <1>4 DEF PlanRoot
    <3> QED
      BY <2>1, <2>6, <3>1, RefuseType
  <2>7. CASE /\ relations' = Append(relations, new) /\ calls' = <<call>>
             /\ task' = "columns" /\ UNCHANGED <<root, closure, refused>>
    <3> HIDE DEF new, call, r
    <3>1. calls' \in Seq(ColumnCalls) /\ calls' # <<>> /\ Len(calls') = 1 /\ calls'[1] = call
      BY <2>5, <2>7
    <3>2. relations' \in Seq(RelationRecords) /\ Len(relations') = Len(relations) + 1
      BY <2>1, <2>3, <2>7, AppendIs
    <3>3. \A k \in 1..Len(calls') : calls'[k].slot \in 1..Len(relations')
      <4>1. \A k \in 1..Len(calls') : k = 1
        BY <3>1
      <4>2. Len(relations) + 1 \in 1..Len(relations')
        BY <2>4, <3>2
      <4> QED
        BY <4>1, <4>2, <3>1, <2>5
    <3>4. UNCHANGED <<schema, visited, asking, memo>>
      BY <1>4 DEF PlanRoot
    <3> QED
      BY <2>1, <2>7, <3>1, <3>2, <3>3, <3>4 DEF PlanType, SchemaType
  <2> QED
    BY <1>4, <2>6, <2>7 DEF PlanRoot
<1>5. ASSUME Planning, AtField(Here), NEW new, NEW call, new \in RelationRecords, call \in ColumnCalls,
             call.slot \in 1..Len(relations) + 1,
             \/ relations' = Append(relations, new)
             \/ relations' = [relations EXCEPT ![Here.slot] = new],
             call.slot = Len(relations) + 1 => relations' = Append(relations, new),
             calls' \in {Append(calls, call), Advanced(calls)},
             UNCHANGED <<schema, root, task, closure, visited, asking, memo, refused>>
      PROVE  PlanType'
  <2>1. task = "columns" /\ asking = <<>> /\ closure = <<>> /\ calls # <<>> /\ relations \in Seq(RelationRecords)
    BY <1>5 DEF Planning, PlanType
  <2>2. Len(relations) \in Nat /\ Here.slot \in 1..Len(relations)
    BY <2>1, HereIs
  <2>3. relations' \in Seq(RelationRecords) /\ Len(relations') >= Len(relations) /\ Len(relations') \in Nat
        /\ (call.slot = Len(relations) + 1 => Len(relations') = Len(relations) + 1)
    BY <1>5, <2>1, <2>2, AppendIs, ExceptSeq
  <2>4. /\ Append(calls, call) \in Seq(ColumnCalls) /\ Append(calls, call) # <<>> /\ Len(calls) \in Nat
        /\ Len(Append(calls, call)) = Len(calls) + 1 /\ Append(calls, call)[Len(calls) + 1] = call
        /\ \A k \in 1..Len(calls) : Append(calls, call)[k] = calls[k]
    BY <1>5, <1>t, AppendIs
  <2>5. /\ Advanced(calls) \in Seq(ColumnCalls) /\ Len(Advanced(calls)) = Len(calls) /\ Advanced(calls) # <<>>
        /\ \A k \in 1..Len(calls) - 1 : Advanced(calls)[k] = calls[k]
        /\ Advanced(calls)[Len(calls)] = [calls[Len(calls)] EXCEPT !.at = @ + 1]
    BY <1>t, <2>1, AdvancedIs
  <2>6. calls' \in Seq(ColumnCalls) /\ calls' # <<>>
    BY <1>5, <2>4, <2>5
  <2>7. \A k \in 1..Len(calls) : calls[k].slot \in 1..Len(relations) /\ calls[k].slot \in 1..Len(relations')
    <3>1. \A k \in 1..Len(calls) : calls[k].slot \in 1..Len(relations)
      BY DEF PlanType
    <3> QED
      BY <2>2, <2>3, <3>1
  <2>8. call.slot \in 1..Len(relations')
    BY <1>5, <2>2, <2>3
  <2>9. \A k \in 1..Len(calls') : calls'[k].slot \in 1..Len(relations')
    <3>1. CASE calls' = Append(calls, call)
      <4> SUFFICES ASSUME NEW k \in 1..Len(calls) + 1 PROVE Append(calls, call)[k].slot \in 1..Len(relations')
        BY <2>4, <3>1
      <4>1. k \in 1..Len(calls) \/ k = Len(calls) + 1
        BY <2>4
      <4> QED
        BY <4>1, <2>4, <2>7, <2>8
    <3>2. CASE calls' = Advanced(calls)
      <4> SUFFICES ASSUME NEW k \in 1..Len(calls) PROVE Advanced(calls)[k].slot \in 1..Len(relations')
        BY <2>5, <3>2
      <4>1. k \in 1..Len(calls) - 1 \/ k = Len(calls)
        BY <2>4
      <4>2. calls[Len(calls)] \in ColumnCalls
        BY <2>1, HereIs
      <4>3. [calls[Len(calls)] EXCEPT !.at = @ + 1].slot = calls[Len(calls)].slot
        BY <4>2 DEF ColumnCalls
      <4> QED
        BY <4>1, <4>3, <2>5, <2>7
    <3> QED
      BY <3>1, <3>2, <1>5
  <2> QED
    BY <1>5, <2>1, <2>3, <2>6, <2>9 DEF PlanType, SchemaType
<1>6. CASE PlanChild
  <2> DEFINE f == Field(Here)
             name == Here.name \o f.name
             child == Relation(name, f.to, Kind(f), Here.slot, Here.at, IF IsMessage(f) THEN {} ELSE {<<>>})
             call == ColumnsCall(f.to, Len(relations) + 1, name, <<>>)
  <2>1. Planning /\ AtField(Here) /\ task = "columns" /\ asking = <<>> /\ calls # <<>>
    BY <1>6 DEF PlanChild, Planning, PlanType
  <2>2. /\ Here.of \in Messages /\ Here.at \in Nat \ {0} /\ Here.slot \in 1..Len(relations)
        /\ Here.name \in Seq(STRING)
    BY <2>1, HereIs
  <2>3. /\ f \in Fields /\ f.name \in Seq(STRING) /\ f.to \in Messages \cup {"scalar"}
        /\ (IsMessage(f) <=> f.to \in Messages)
    BY <2>1, <2>2, <1>t, FieldIs
  <2>4. name \in Seq(STRING)
    BY <2>2, <2>3, ConcatProperties
  <2>5. Kind(f) \in RelationKinds
    BY DEF Kind, RelationKinds
  <2>6. Len(relations) \in Nat
    BY DEF PlanType
  <2> HIDE DEF f, name
  <2>7. child \in RelationRecords
    <3>1. {} \in SUBSET Seq(Frames) /\ {<<>>} \in SUBSET Seq(Frames)
      OBVIOUS
    <3> QED
      BY <2>2, <2>3, <2>4, <2>5, <2>6, <3>1 DEF Relation, RelationRecords
  <2>8. CASE Refuse
    <3>1. task # "root" /\ UNCHANGED <<schema, visited, asking, memo>>
      BY <1>6, <2>1 DEF PlanChild
    <3> QED
      BY <2>1, <2>8, <3>1, RefuseType
  <2>9. CASE /\ relations' = Append(relations, child)
             /\ calls' = IF IsMessage(f) THEN Append(calls, call) ELSE Advanced(calls)
             /\ UNCHANGED <<root, task, closure, refused>>
    <3>0. UNCHANGED <<schema, visited, asking, memo>>
      BY <1>6 DEF PlanChild
    <3>1. CASE IsMessage(f)
      <4>1. call \in ColumnCalls /\ call.slot = Len(relations) + 1
        BY <2>3, <2>4, <2>6, <3>1 DEF ColumnsCall, ColumnCalls
      <4> HIDE DEF child, call
      <4>2. call.slot \in 1..Len(relations) + 1
        BY <4>1, <2>6
      <4> QED
        BY <1>5, <2>1, <2>7, <2>9, <3>0, <3>1, <4>1, <4>2
    <3>2. CASE ~IsMessage(f)
      <4>1. Here \in ColumnCalls /\ Here.slot \in 1..Len(relations) + 1 /\ Here.slot # Len(relations) + 1
        BY <2>1, <2>2, <2>6, HereIs
      <4> HIDE DEF child, call
      <4> QED
        BY <1>5, <2>1, <2>7, <2>9, <3>0, <3>2, <4>1
    <3> QED
      BY <3>1, <3>2
  <2> QED
    BY <1>6, <2>8, <2>9 DEF PlanChild, f, name
<1>7. CASE PlanColumn
  <2> DEFINE f == Field(Here)
             arrow == Append(Here.arrow, [of |-> Here.of, at |-> Here.at])
             new == [relations[Here.slot] EXCEPT !.columns = @ \cup {arrow}]
             call == ColumnsCall(f.to, Here.slot, Here.name, arrow)
  <2>1. Planning /\ AtField(Here) /\ task = "columns" /\ asking = <<>> /\ calls # <<>>
    BY <1>7 DEF PlanColumn, Planning, PlanType
  <2>2. /\ Here.of \in Messages /\ Here.at \in Nat \ {0} /\ Here.slot \in 1..Len(relations)
        /\ Here.name \in Seq(STRING) /\ Here.arrow \in Seq(Frames) /\ [of |-> Here.of, at |-> Here.at] \in Frames
    BY <2>1, HereIs
  <2>3. IsMessage(f) <=> f.to \in Messages
    BY <2>1, <2>2, <1>t, FieldIs
  <2>4. arrow \in Seq(Frames)
    BY <2>2, AppendIs
  <2>5. relations \in Seq(RelationRecords) /\ Len(relations) \in Nat
    BY DEF PlanType
  <2> HIDE DEF f, arrow
  <2>6. new \in RelationRecords
    <3>1. relations[Here.slot] \in RelationRecords
      BY <2>2, <2>5, ElementOfSeq
    <3>2. relations[Here.slot].columns \cup {arrow} \in SUBSET Seq(Frames)
      BY <3>1, <2>4 DEF RelationRecords
    <3> QED
      BY <3>1, <3>2 DEF RelationRecords
  <2>7. CASE Refuse
    <3>1. task # "root" /\ UNCHANGED <<schema, visited, asking, memo>>
      BY <1>7, <2>1 DEF PlanColumn
    <3> QED
      BY <2>1, <2>7, <3>1, RefuseType
  <2>8. CASE /\ relations' = [relations EXCEPT ![Here.slot].columns = @ \cup {arrow}]
             /\ calls' = IF IsMessage(f) THEN Append(calls, call) ELSE Advanced(calls)
             /\ UNCHANGED <<root, task, closure, refused>>
    <3>0. UNCHANGED <<schema, visited, asking, memo>>
      BY <1>7 DEF PlanColumn
    <3>1. relations' = [relations EXCEPT ![Here.slot] = new]
      BY <2>8
    <3> HIDE DEF new
    <3>2. CASE IsMessage(f)
      <4>1. call \in ColumnCalls /\ call.slot = Here.slot
        BY <2>2, <2>3, <2>4, <3>2 DEF ColumnsCall, ColumnCalls
      <4> HIDE DEF call
      <4>2. call.slot \in 1..Len(relations) + 1 /\ call.slot # Len(relations) + 1
        BY <4>1, <2>2, <2>5
      <4> QED
        BY <1>5, <2>1, <2>6, <2>8, <3>0, <3>1, <3>2, <4>1, <4>2
    <3>3. CASE ~IsMessage(f)
      <4>1. Here \in ColumnCalls /\ Here.slot \in 1..Len(relations) + 1 /\ Here.slot # Len(relations) + 1
        BY <2>1, <2>2, <2>5, HereIs
      <4> QED
        BY <1>5, <2>1, <2>6, <2>8, <3>0, <3>1, <3>3, <4>1
    <3> QED
      BY <3>2, <3>3
  <2> QED
    BY <1>7, <2>7, <2>8 DEF PlanColumn, f, arrow
<1>8. CASE EndColumns
  <2>1. task = "columns" /\ asking = <<>> /\ calls # <<>> /\ closure = <<>> /\ root <= Len(PlanRoots)
    BY <1>8 DEF EndColumns, Planning, PlanType
  <2>2. Len(PlanRoots) \in Nat /\ Len(calls) \in Nat /\ Len(calls) >= 1
    BY PlanRootsAssumption, <2>1, HereIs
  <2>3. /\ calls' \in Seq(ColumnCalls) /\ (calls' = <<>> <=> Len(calls) = 1) /\ Len(calls') = Len(calls) - 1
        /\ \A k \in 1..Len(calls) - 2 : calls'[k] = calls[k]
        /\ Len(calls) # 1 => calls'[Len(calls) - 1] = [calls[Len(calls) - 1] EXCEPT !.at = @ + 1]
    BY <1>8, <1>t, <2>1, ReturnedIs DEF EndColumns
  <2>4. \A k \in 1..Len(calls') : calls'[k].slot \in 1..Len(relations)
    <3> SUFFICES ASSUME NEW k \in 1..Len(calls) - 1 PROVE calls'[k].slot \in 1..Len(relations)
      BY <2>3
    <3>0. \A n \in Nat : \A j \in 1..n - 1 : j \in 1..n /\ n # 1 /\ (j \in 1..n - 2 \/ j = n - 1)
      OBVIOUS
    <3>1. k \in 1..Len(calls) /\ (k \in 1..Len(calls) - 2 \/ (k = Len(calls) - 1 /\ Len(calls) # 1))
      BY <2>2, <3>0
    <3>2. calls[k].slot \in 1..Len(relations) /\ calls[k] \in ColumnCalls
      BY <3>1, <1>t, ElementOfSeq DEF PlanType
    <3>3. [calls[k] EXCEPT !.at = @ + 1].slot = calls[k].slot
      BY <3>2 DEF ColumnCalls
    <3> QED
      BY <3>1, <3>2, <3>3, <2>3
  <2>5. root \in 1..Len(PlanRoots) + 1 /\ root + 1 \in 1..Len(PlanRoots) + 1
    BY <2>1, <2>2 DEF PlanType
  <2>6. /\ UNCHANGED <<schema, closure, visited, asking, memo, relations, refused>>
        /\ IF Len(calls) = 1 THEN task' = "root" /\ root' = root + 1 ELSE UNCHANGED <<task, root>>
    BY <1>8 DEF EndColumns
  <2> QED
    BY <2>1, <2>3, <2>4, <2>5, <2>6 DEF PlanType, SchemaType
<1>9. CASE Ask
  <2> DEFINE f == Field(Here)
  <2>1. task = "columns" /\ asking = <<>> /\ calls # <<>> /\ AtField(Here)
    BY <1>9 DEF Ask, Planning, PlanType
  <2>2. Here.of \in Messages /\ Here.at \in Nat \ {0}
    BY <2>1, HereIs
  <2>3. IsMessage(f) <=> f.to \in Messages
    BY <2>1, <2>2, <1>t, FieldIs
  <2>4. IsMessage(f) /\ asking' = <<Call(f.to)>> /\ memo' = [memo EXCEPT ![f.to] = "no"]
    BY <1>9 DEF Ask, Single
  <2> HIDE DEF f
  <2>5. Call(f.to) \in Frames
    BY <2>3, <2>4 DEF Call, Frames
  <2>6. asking' \in Seq(Frames)
    BY <2>4, <2>5
  <2>7. UNCHANGED <<schema, root, task, closure, visited, calls, relations, refused>>
    BY <1>9 DEF Ask
  <2>8. AtField(Here)'
    BY <2>1, <2>7 DEF AtField, Here
  <2> QED
    BY <2>1, <2>4, <2>6, <2>7, <2>8 DEF PlanType, SchemaType
<1>10. ASSUME asking # <<>>, asking' \in Seq(Frames), memo' \in [Messages -> {"unknown", "no", "yes"}],
              UNCHANGED <<schema, root, task, closure, visited, calls, relations, refused>>
       PROVE  PlanType'
  <2>1. AtField(Here)' <=> AtField(Here)
    BY <1>10 DEF AtField, Here
  <2> QED
    BY <1>10, <2>1 DEF PlanType, SchemaType
<1>11. CASE AskField
  <2> DEFINE c == Last(asking)
             f == Field(c)
  <2>1. asking # <<>> /\ AtField(c)
    BY <1>11 DEF AskField
  <2>2. c \in Frames /\ Front(asking) \in Seq(Frames)
    BY <1>t, <2>1, FrontIs
  <2>3. c.of \in Messages /\ c.at \in Nat \ {0}
    BY <2>2 DEF Frames
  <2>4. IsMessage(f) <=> f.to \in Messages
    BY <2>1, <2>3, <1>t, FieldIs
  <2>5. UNCHANGED <<schema, root, task, closure, visited, calls, relations, refused>>
    BY <1>11 DEF AskField
  <2>6. Advanced(asking) \in Seq(Frames)
    BY <1>t, <2>1, AdvancedIs
  <2>7. IsMessage(f) => Append(asking, Call(f.to)) \in Seq(Frames)
    <3>1. IsMessage(f) => Call(f.to) \in Frames
      BY <2>4 DEF Call, Frames
    <3> QED
      BY <3>1, <1>t, AppendIs
  <2>8. /\ [memo EXCEPT ![c.of] = "yes"] \in [Messages -> {"unknown", "no", "yes"}]
        /\ [memo EXCEPT ![f.to] = "no"] \in [Messages -> {"unknown", "no", "yes"}]
        /\ memo \in [Messages -> {"unknown", "no", "yes"}]
    BY DEF PlanType
  <2> HIDE DEF c, f
  <2>9. \/ memo' = [memo EXCEPT ![c.of] = "yes"] /\ asking' = Front(asking)
        \/ IsMessage(f) /\ memo' = [memo EXCEPT ![f.to] = "no"] /\ asking' = Append(asking, Call(f.to))
        \/ asking' = Advanced(asking) /\ UNCHANGED memo
    BY <1>11 DEF AskField, c, f
  <2> QED
    BY <1>10, <2>1, <2>2, <2>5, <2>6, <2>7, <2>8, <2>9
<1>12. CASE AskEnd
  <2>1. asking # <<>> /\ asking' = Front(asking) /\ UNCHANGED <<schema, root, task, closure, visited, calls, memo, relations, refused>>
    BY <1>12 DEF AskEnd
  <2>2. Front(asking) \in Seq(Frames)
    BY <1>t, <2>1, FrontIs
  <2> QED
    BY <1>10, <2>1, <2>2 DEF PlanType
<1>13. CASE UNCHANGED planVars
  <2>1. AtField(Here)' <=> AtField(Here)
    BY <1>13 DEF AtField, Here, planVars
  <2> QED
    BY <1>13, <2>1 DEF PlanType, planVars, SchemaType
<1> QED
  BY <1>1, <1>2, <1>3, <1>4, <1>6, <1>7, <1>8, <1>9, <1>11, <1>12, <1>13 DEF PlanNext

-----------------------------------------------------------------------------
(* Stacks of calls and the ways they are on. *)

LEMMA WayToIs ==
  ASSUME SchemaType, NEW T, Steady(T), NEW s \in Seq(T), Chained(s), NEW n \in 0..Len(s),
         n = Len(s) /\ n # 0 => AtField(s[n]), NEW m, s # <<>> => s[1].of = m
  PROVE  /\ IsWay(m, WayTo(s, n)) /\ Len(WayTo(s, n)) = n /\ WayTo(s, n) \in Seq(Frames)
         /\ \A k \in 1..n : /\ WayTo(s, n)[k] = [of |-> s[k].of, at |-> s[k].at]
                            /\ WayTo(s, n)[k].of = s[k].of /\ WayTo(s, n)[k].at = s[k].at
         /\ n # 0 => /\ WayTo(s, n) # <<>> /\ Last(WayTo(s, n)) = [of |-> s[n].of, at |-> s[n].at]
                     /\ Field(Last(WayTo(s, n))) = Field(s[n]) /\ EndOf(m, WayTo(s, n)) = Field(s[n]).to
         /\ n = 0 => WayTo(s, n) = <<>> /\ EndOf(m, WayTo(s, n)) = m
         /\ n < Len(s) => EndOf(m, WayTo(s, n)) = s[n + 1].of
<1>1. Len(s) \in Nat /\ n \in Nat /\ n <= Len(s)
  OBVIOUS
<1>2. \A k \in 1..Len(s) : s[k] \in T /\ s[k].of \in Messages /\ s[k].at \in Nat \ {0}
  BY ElementOfSeq DEF Steady
<1>3. \A k \in 1..n : k \in 1..Len(s) /\ (k # Len(s) => k \in 1..Len(s) - 1)
  BY <1>1
<1>4. \A k \in 1..n : AtField(s[k])
  BY <1>1, <1>3 DEF Chained
<1>5. \A k \in 1..n : [of |-> s[k].of, at |-> s[k].at] \in Steps
  BY <1>2, <1>3, <1>4, FieldIs
<1> DEFINE w == WayTo(s, n)
<1>6. w \in Seq(Steps) /\ Len(w) = n
  <2>1. w \in [1..n -> Steps]
    BY <1>5 DEF WayTo
  <2> QED
    BY <2>1, <1>1
<1>7. \A k \in 1..n : w[k] = [of |-> s[k].of, at |-> s[k].at]
  BY DEF WayTo
<1> HIDE DEF w
<1>o. ASSUME NEW k \in 1..n PROVE w[k].of = s[k].of /\ w[k].at = s[k].at
  <2>1. w[k] = [of |-> s[k].of, at |-> s[k].at]
    BY <1>7
  <2> QED
    BY <2>1
<1>8. \A k \in 1..n : Field(w[k]) = Field(s[k]) /\ w[k].of = s[k].of
  BY <1>o DEF Field
<1>9. Leads(m, w)
  <2>1. ASSUME w # <<>> PROVE w[1].of = m
    <3>1. 1 \in 1..n /\ s # <<>>
      BY <1>1, <1>6, <2>1
    <3> QED
      BY <3>1, <1>8
  <2>2. ASSUME NEW k \in 1..n - 1 PROVE w[k + 1].of = Field(w[k]).to
    <3>1. k \in 1..n /\ k + 1 \in 1..n /\ k \in 1..Len(s) - 1
      BY <1>1
    <3>2. s[k + 1].of = Field(s[k]).to
      BY <3>1 DEF Chained
    <3> QED
      BY <3>1, <3>2, <1>8
  <2> QED
    BY <2>1, <2>2, <1>6 DEF Leads
<1>10. w \in Seq(Frames)
  <2>1. Steps \subseteq Frames
    BY StepIs
  <2> QED
    BY <2>1, <1>6, SeqMonotonic
<1>11. ASSUME n # 0
       PROVE  /\ w # <<>> /\ Last(w) = [of |-> s[n].of, at |-> s[n].at]
              /\ Field(Last(w)) = Field(s[n]) /\ EndOf(m, w) = Field(s[n]).to
  <2>1. n \in 1..n
    BY <1>1, <1>11
  <2>2. w # <<>>
    BY <1>6, <1>11
  <2> QED
    BY <2>1, <2>2, <1>6, <1>7, <1>8 DEF Last, EndOf
<1>12. n = 0 => w = <<>> /\ EndOf(m, w) = m
  BY <1>6, EmptySeq DEF EndOf
<1>13. ASSUME n < Len(s) PROVE EndOf(m, w) = s[n + 1].of
  <2>1. CASE n = 0
    <3>1. s # <<>>
      BY <1>13, <2>1
    <3> QED
      BY <3>1, <2>1, <1>12
  <2>2. CASE n # 0
    <3>1. n \in 1..Len(s) - 1
      BY <1>1, <1>13, <2>2
    <3> QED
      BY <3>1, <2>2, <1>11 DEF Chained
  <2> QED
    BY <2>1, <2>2
<1> QED
  BY <1>6, <1>7, <1>o, <1>9, <1>10, <1>11, <1>12, <1>13 DEF w, IsWay

LEMMA WaysTo ==
  ASSUME SchemaType, NEW T, Steady(T), NEW s \in Seq(T), Chained(s), NEW m, s # <<>> => s[1].of = m,
         NEW n \in 0..Len(s) - 1
  PROVE  /\ IsWay(m, WayTo(s, n)) /\ Len(WayTo(s, n)) = n
         /\ \A k \in 1..n : WayTo(s, n)[k].of = s[k].of
         /\ EndOf(m, WayTo(s, n)) = s[n + 1].of
<1>1. n \in 0..Len(s) /\ n # Len(s) /\ n < Len(s)
  OBVIOUS
<1>2. n = Len(s) /\ n # 0 => AtField(s[n])
  BY <1>1
<1>3. IsWay(m, WayTo(s, n)) /\ Len(WayTo(s, n)) = n
  BY <1>1, <1>2, WayToIs
<1>4. \A k \in 1..n : WayTo(s, n)[k].of = s[k].of
  BY <1>1, <1>2, WayToIs
<1>5. EndOf(m, WayTo(s, n)) = s[n + 1].of
  BY <1>1, <1>2, WayToIs
<1> QED
  BY <1>3, <1>4, <1>5

\* Calls that start at a supported message are in supported messages, each in
\* one of its own.
LEMMA StackDiffers ==
  ASSUME SchemaType, NEW T, Steady(T), NEW s \in Seq(T), Chained(s), s # <<>>, Supported(s[1].of)
  PROVE  /\ NoneTwice(s) /\ Len(s) <= Cardinality(Messages)
         /\ \A k \in 1..Len(s) : Supported(s[k].of)
         /\ AtField(Last(s)) => \A k \in 1..Len(s) : s[k].of # Field(Last(s)).to
<1> DEFINE n == Len(s)
           m == s[1].of
           b == WayTo(s, n - 1)
<1>1. n \in Nat /\ n >= 1 /\ Last(s) = s[n]
  BY FrontIs
<1>2. \A k \in 1..n : s[k] \in T /\ s[k].of \in Messages /\ s[k].at \in Nat \ {0}
  BY ElementOfSeq DEF Steady
<1>3. m \in Messages
  BY <1>1, <1>2
<1>4. ASSUME NEW k \in 1..n PROVE Supported(s[k].of) /\ NoneTwice(WayTo(s, k - 1)) 
                             /\ \A j \in 1..k - 1 : s[j].of # s[k].of
  <2>0. PICK i \in 0..n : i = k - 1
    BY <1>1
  <2>1. i < n /\ i # n /\ i + 1 = k
    BY <1>1, <2>0
  <2> DEFINE w == WayTo(s, i)
  <2>t. /\ IsWay(m, w) /\ Len(w) = i
        /\ \A j \in 1..i : w[j].of = s[j].of
        /\ i # 0 => w # <<>>
        /\ i = 0 => w = <<>> /\ EndOf(m, w) = m
        /\ EndOf(m, w) = s[i + 1].of
    <3>1. i \in 0..Len(s) - 1
      BY <2>1, <1>1
    <3> HIDE DEF n, w
    <3>2. /\ IsWay(m, WayTo(s, i)) /\ Len(WayTo(s, i)) = i
          /\ \A j \in 1..i : WayTo(s, i)[j].of = s[j].of
          /\ EndOf(m, WayTo(s, i)) = s[i + 1].of
      BY <3>1, WaysTo
    <3>3. i # 0 => WayTo(s, i) # <<>>
      BY <3>2
    <3>4. i = 0 => WayTo(s, i) = <<>>
      BY <3>2, EmptySeq DEF IsWay
    <3>5. i = 0 => EndOf(m, WayTo(s, i)) = m
      BY <3>4 DEF EndOf
    <3> QED
      BY <3>2, <3>3, <3>4, <3>5 DEF w
  <2>2. /\ IsWay(m, w) /\ Len(w) = k - 1 /\ w = WayTo(s, k - 1)
        /\ \A j \in 1..k - 1 : w[j].of = s[j].of
        /\ k - 1 # 0 => w # <<>> /\ EndOf(m, w) = Field(Last(w)).to
        /\ k - 1 = 0 => w = <<>> /\ EndOf(m, w) = m
        /\ EndOf(m, w) = s[k].of
    BY <2>t, <2>0, <2>1 DEF EndOf
  <2> HIDE DEF w, m
  <2>3. NoneTwice(w)
    BY <1>3, <2>2, AllWays DEF m
  <2>4. CASE k - 1 = 0
    BY <2>1, <2>2, <2>3, <2>4 DEF m, w
  <2>5. CASE k - 1 # 0
    <3>1. Field(Last(w)).to = s[k].of /\ w # <<>>
      BY <2>2, <2>5
    <3>2. IsMessage(Field(Last(w)))
      BY <3>1, <1>2, MessagesAssumption DEF IsMessage
    <3>i. IsWay(m, w) /\ m \in Messages /\ Supported(m)
      BY <1>3, <2>2 DEF m
    <3>j. /\ \A j \in 1..Len(w) : w[j].of # Field(Last(w)).to
          /\ Supported(Field(Last(w)).to)
      BY <3>1, <3>2, <3>i, WayBelow
    <3>3. /\ \A j \in 1..k - 1 : w[j].of # s[k].of
          /\ Supported(s[k].of)
      BY <3>1, <3>j, <2>2
    <3>4. \A j \in 1..k - 1 : s[j].of # s[k].of
      BY <3>3, <2>2
    <3> QED
      BY <2>2, <3>3, <3>4, <2>3
  <2> QED
    BY <2>4, <2>5
<1>5. NoneTwice(s)
  <2> SUFFICES ASSUME NEW j \in 1..n, NEW k \in 1..n, s[j].of = s[k].of PROVE j = k
    BY DEF NoneTwice
  <2>1. j \in 1..k - 1 \/ k \in 1..j - 1 \/ j = k
    BY <1>1
  <2> QED
    BY <2>1, <1>4
<1>6. n <= Cardinality(Messages)
  <2> DEFINE u == [k \in 1..n |-> [of |-> s[k].of, at |-> s[k].at]]
  <2>1. u \in [1..n -> Frames]
    BY <1>2 DEF Frames
  <2>2. u \in Seq(Frames) /\ Len(u) = n
    BY <2>1, <1>1
  <2>3. \A k \in 1..n : u[k].of = s[k].of
    OBVIOUS
  <2> HIDE DEF u
  <2>4. NoneTwice(u)
    BY <2>2, <2>3, <1>5 DEF NoneTwice
  <2> QED
    BY <2>2, <2>4, DistinctIsShort
<1>7. ASSUME AtField(Last(s)), NEW k \in 1..n PROVE s[k].of # Field(Last(s)).to
  <2> DEFINE w == WayTo(s, n)
  <2>1. n \in 0..n /\ n # 0 /\ AtField(s[n])
    BY <1>1, <1>7
  <2>2. /\ IsWay(m, w) /\ Len(w) = n
        /\ \A j \in 1..n : w[j].of = s[j].of
        /\ w # <<>> /\ Field(Last(w)) = Field(s[n])
    BY <2>1, <1>3, WayToIs
  <2> HIDE DEF w
  <2>i. \A j \in 1..Len(w) : w[j].of # Field(Last(w)).to
    BY <2>2, <1>3, WayBelow
  <2>3. \A j \in 1..n : w[j].of # Field(s[n]).to
    BY <2>2, <2>i
  <2> QED
    BY <2>2, <2>3, <1>1
<1> QED
  BY <1>4, <1>5, <1>6, <1>7

LEMMA ChainedSteps ==
  ASSUME SchemaType, NEW T, Steady(T), NEW s \in Seq(T), s # <<>>, Chained(s)
  PROVE  /\ AtField(Last(s)) =>
              /\ Chained(Advanced(s))
              /\ \A e \in T : e.of = Field(Last(s)).to /\ e.at = 1 => Chained(Append(s, e))
         /\ Chained(Front(s))
         /\ Len(s) # 1 => AtField(s[Len(s) - 1]) /\ Field(s[Len(s) - 1]).to = Last(s).of
<1> DEFINE n == Len(s)
<1>1. n \in Nat /\ n >= 1 /\ Last(s) = s[n]
  BY FrontIs
<1>2. \A k \in 1..n : s[k] \in T /\ s[k].of \in Messages /\ s[k].at \in Nat \ {0} /\ Len(schema[s[k].of]) \in Nat
  BY ElementOfSeq, StepIs DEF Steady
<1>c. /\ \A k \in 1..n : s[k].at <= Len(schema[s[k].of]) + 1
      /\ \A k \in 1..n - 1 : AtField(s[k]) /\ s[k + 1].of = Field(s[k]).to
  BY DEF Chained
<1> HIDE DEF n
<1>3. ASSUME AtField(Last(s)) PROVE Chained(Advanced(s))
  <2> DEFINE a == Advanced(s)
  <2>1. Len(a) = n /\ (\A k \in 1..n - 1 : a[k] = s[k]) /\ a[n] = [s[n] EXCEPT !.at = @ + 1]
    BY AdvancedIs DEF n
  <2> HIDE DEF a
  <2>2. n \in 1..n
    BY <1>1
  <2>3. a[n].of = s[n].of /\ a[n].at = s[n].at + 1
    BY <2>1, <2>2, <1>2 DEF Steady
  <2>4. s[n].at <= Len(schema[s[n].of])
    BY <1>3, <1>1 DEF AtField
  <2>5. ASSUME NEW k \in 1..n PROVE a[k].at <= Len(schema[a[k].of]) + 1
    <3>1. k \in 1..n - 1 \/ k = n
      BY <1>1
    <3>2. a[n].at <= Len(schema[a[n].of]) + 1
      BY <2>2, <2>3, <2>4, <1>2
    <3> QED
      BY <3>1, <3>2, <2>1, <1>c
  <2>6. ASSUME NEW k \in 1..n - 1 PROVE AtField(a[k]) /\ a[k + 1].of = Field(a[k]).to
    <3>1. k + 1 \in 1..n - 1 \/ k + 1 = n
      BY <1>1
    <3>2. a[k + 1].of = s[k + 1].of
      BY <3>1, <2>1, <2>3
    <3> QED
      BY <3>2, <2>1, <1>c
  <2> QED
    BY <2>1, <2>5, <2>6 DEF Chained, a
<1>4. ASSUME AtField(Last(s)), NEW e \in T, e.of = Field(Last(s)).to, e.at = 1 PROVE Chained(Append(s, e))
  <2> DEFINE a == Append(s, e)
  <2>1. Len(a) = n + 1 /\ a[n + 1] = e /\ \A k \in 1..n : a[k] = s[k]
    BY AppendIs DEF n
  <2> HIDE DEF a
  <2>2. e.of \in Messages
    BY DEF Steady
  <2>3. e.at <= Len(schema[e.of]) + 1
    <3>1. Len(schema[e.of]) \in Nat
      BY <2>2, StepIs
    <3> QED
      BY <3>1, <1>4
  <2>4. ASSUME NEW k \in 1..n + 1 PROVE a[k].at <= Len(schema[a[k].of]) + 1
    <3>1. k \in 1..n \/ k = n + 1
      BY <1>1
    <3> QED
      BY <3>1, <2>1, <2>3, <1>c
  <2>5. ASSUME NEW k \in 1..n PROVE AtField(a[k]) /\ a[k + 1].of = Field(a[k]).to
    <3>1. (k + 1 \in 1..n /\ k \in 1..n - 1) \/ k = n
      BY <1>1
    <3>2. CASE k = n
      BY <3>2, <2>1, <1>1, <1>4
    <3>3. CASE k + 1 \in 1..n /\ k \in 1..n - 1
      BY <3>3, <2>1, <1>c
    <3> QED
      BY <3>1, <3>2, <3>3
  <2>6. n + 1 - 1 = n
    BY <1>1
  <2>7. Len(a) - 1 = n
    BY <2>1, <1>1
  <2>8. Chained(a)
    BY <2>1, <2>4, <2>5, <2>7 DEF Chained
  <2> QED
    BY <2>8 DEF a
<1>5. Chained(Front(s))
  <2>1. Len(Front(s)) = n - 1 /\ \A k \in 1..n - 1 : Front(s)[k] = s[k]
    BY FrontIs DEF n
  <2>2. \A k \in 1..n - 1 : k \in 1..n
    BY <1>1
  <2>3. \A k \in 1..n - 1 - 1 : k \in 1..n - 1 /\ k + 1 \in 1..n - 1
    BY <1>1
  <2>4. \A k \in 1..n - 1 : Front(s)[k].at <= Len(schema[Front(s)[k].of]) + 1
    BY <2>1, <2>2, <1>c
  <2>5. \A k \in 1..n - 1 - 1 : AtField(Front(s)[k]) /\ Front(s)[k + 1].of = Field(Front(s)[k]).to
    BY <2>1, <2>3, <1>c
  <2> QED
    BY <2>1, <2>4, <2>5 DEF Chained
<1>6. ASSUME n # 1 PROVE AtField(s[n - 1]) /\ Field(s[n - 1]).to = Last(s).of
  <2>1. n - 1 \in 1..n - 1 /\ n - 1 + 1 = n
    BY <1>1, <1>6
  <2> QED
    BY <2>1, <1>1, <1>c
<1> QED
  BY <1>3, <1>4, <1>5, <1>6 DEF n

-----------------------------------------------------------------------------
(* What has been validated is supported. *)

LEMMA ClosedIsSupported ==
  ASSUME SchemaType, visited \in SUBSET Messages, VisitedInv, NEW m \in Messages, m \notin visited,
         \A i \in 1..Len(schema[m]) : Validated(schema[m][i])
  PROVE  Supported(m)
<1> SUFFICES ASSUME NEW s \in Ways(m) \ {<<>>}
             PROVE  Field(Last(s)).mode # "refused" /\ \A k \in 1..Len(s) : s[k].of # Field(Last(s)).to
  BY DEF Supported
<1>1. IsWay(m, s) /\ s # <<>> /\ s \in Seq(Steps)
  BY WaysAre DEF IsWay
<1>2. Len(s) \in Nat /\ Len(s) >= 1 /\ Last(s) = s[Len(s)]
  BY <1>1, FrontIs
<1>3. \A k \in 1..Len(s) : s[k] \in Steps
  BY <1>1, ElementOfSeq
<1>4. s[1].of = m /\ \A k \in 1..Len(s) - 1 : s[k + 1].of = Field(s[k]).to
  BY <1>1 DEF IsWay, Leads
<1>5. ASSUME NEW k \in 1..Len(s), s[k].of \in visited \cup {m} PROVE Validated(Field(s[k]))
  <2>1. s[k].at \in 1..Len(schema[s[k].of])
    BY <1>3, StepIs
  <2> QED
    BY <1>5, <2>1 DEF VisitedInv, Field
<1>6. \A k \in 1..Len(s) : s[k].of \in visited \cup {m}
  <2> DEFINE T == {k \in 1..Len(s) : s[k].of \notin visited \cup {m}}
  <2>1. ASSUME T # {} PROVE FALSE
    <3>1. T \in SUBSET Nat
      OBVIOUS
    <3>2. PICK k \in T : \A j \in T : k <= j
      <4> HIDE DEF T
      <4> QED
        BY <2>1, <3>1, LeastNumber
    <3>3. k \in 1..Len(s) /\ s[k].of \notin visited \cup {m} /\ k # 1
      BY <1>4
    <3>4. k - 1 \in 1..Len(s) - 1 /\ k - 1 \in 1..Len(s) /\ k - 1 + 1 = k /\ ~(k <= k - 1)
      BY <1>2, <3>3
    <3>5. s[k - 1].of \in visited \cup {m}
      BY <3>2, <3>4
    <3>6. Validated(Field(s[k - 1]))
      BY <1>5, <3>4, <3>5
    <3>7. s[k].of = Field(s[k - 1]).to
      BY <1>4, <3>4
    <3>8. s[k].of \in Messages
      BY <3>3, <1>3, StepIs
    <3> QED
      BY <3>3, <3>6, <3>7, <3>8, MessagesAssumption DEF Validated, IsMessage
  <2> QED
    BY <2>1
<1>7. Len(s) \in 1..Len(s)
  BY <1>2
<1>8. Validated(Field(Last(s)))
  BY <1>2, <1>5, <1>6, <1>7
<1>9. ASSUME NEW k \in 1..Len(s), s[k].of = Field(Last(s)).to PROVE FALSE
  <2>1. s[k].of \in Messages
    BY <1>3, StepIs
  <2>2. s[k].of \in visited
    BY <1>8, <1>9, <2>1, MessagesAssumption DEF Validated, IsMessage
  <2>3. k # 1 /\ Supported(s[k].of)
    BY <2>2, <1>4 DEF VisitedInv
  <2>4. PICK n \in 0..Len(s) : n + 1 = k
    BY <1>2
  <2>5. n < Len(s) /\ n # 0 /\ n \in Nat
    BY <2>3, <2>4
  <2> DEFINE a == SubSeq(s, 1, n)
             t == SubSeq(s, n + 1, Len(s))
  <2>6. /\ a \in Seq(Steps) /\ Len(a) = n
        /\ t \in Seq(Steps) /\ Len(t) = Len(s) - n
        /\ a \o t = s
    BY <1>1, TwoParts
  <2>7. /\ \A i \in 1..n : a[i] = s[i]
        /\ \A i \in 1..Len(s) - n : t[i] = s[n + i]
    BY <1>1, TwoParts
  <2> HIDE DEF a, t
  <2>8. IsWay(EndOf(m, a), t)
    BY <1>1, <2>6, WaySplit
  <2>9. EndOf(m, a) = s[k].of
    <3>1. a # <<>> /\ Last(a) = s[n]
      <4>1. n \in 1..n
        BY <2>5
      <4> QED
        BY <4>1, <2>5, <2>6, <2>7 DEF Last
    <3>2. n \in 1..Len(s) - 1
      BY <2>5, <1>2
    <3> QED
      BY <3>1, <3>2, <1>4, <2>4 DEF EndOf
  <2>10. t # <<>> /\ Len(t) \in Nat /\ Len(t) >= 1 /\ Last(t) = Last(s) /\ t[1] = s[k]
    <3>1. Len(t) \in Nat /\ Len(t) >= 1
      BY <1>2, <2>5, <2>6
    <3>2. 1 \in 1..Len(s) - n /\ Len(s) - n \in 1..Len(s) - n /\ n + (Len(s) - n) = Len(s)
      BY <1>2, <2>5
    <3>3. t[1] = s[n + 1] /\ t[Len(s) - n] = s[n + (Len(s) - n)]
      BY <2>7, <3>2
    <3>4. t[Len(s) - n] = s[Len(s)]
      BY <3>2, <3>3
    <3> QED
      BY <3>1, <3>3, <3>4, <2>4, <2>6, <1>2 DEF Last
  <2>11. \A j \in 1..Len(t) : t[j].of # Field(Last(t)).to
    BY <2>1, <2>3, <2>8, <2>9, <2>10, WayBelow
  <2>12. 1 \in 1..Len(t)
    BY <2>10
  <2> QED
    BY <2>10, <2>11, <2>12, <1>9
<1> QED
  BY <1>8, <1>9 DEF Validated

ValidInv == VisitedInv /\ ClosureInv /\ SupportedInv

LEMMA InitValid == PlanInit => ValidInv
  BY DEF PlanInit, ValidInv, VisitedInv, ClosureInv, SupportedInv

\* As long as no message is validated.
LEMMA ValidStays ==
  ASSUME ValidInv, UNCHANGED <<schema, visited>>,
         task' = "root" \/ (task \in {"relation", "columns"} /\ UNCHANGED <<task, root>>)
                        \/ (task = "relation" /\ task' = "columns" /\ UNCHANGED root)
  PROVE  ValidInv'
<1>1. \A m : Supported(m)' <=> Supported(m)
  BY SameGraph
<1>2. VisitedInv'
  BY <1>1 DEF ValidInv, VisitedInv, Validated
<1>3. ClosureInv'
  BY DEF ClosureInv
<1>4. SupportedInv'
  <2> SUFFICES ASSUME task' \in {"relation", "columns"} PROVE Supported(PlanRoots[root].of)'
    BY DEF SupportedInv
  <2>1. task \in {"relation", "columns"} /\ root' = root
    OBVIOUS
  <2>2. Supported(PlanRoots[root].of)
    BY <2>1 DEF ValidInv, SupportedInv
  <2> QED
    BY <2>1, <2>2, <1>1
<1> QED
  BY <1>2, <1>3, <1>4 DEF ValidInv

LEMMA OpenRootValid == PlanType /\ ValidInv /\ OpenRoot => ValidInv'
<1> SUFFICES ASSUME PlanType, ValidInv, OpenRoot PROVE ValidInv'
  OBVIOUS
<1>1. /\ task' = "validate" /\ closure' = <<Call(PlanRoots[root].of)>> /\ visited' = {}
      /\ root' = root /\ schema' = schema /\ SchemaType /\ root \in 1..Len(PlanRoots)
  BY DEF OpenRoot, PlanType
<1> DEFINE c == Call(PlanRoots[root].of)
<1>2. Len(closure') = 1 /\ closure'[1] = c
  BY <1>1
<1>3. c.of = PlanRoots[root].of /\ c.at = 1 /\ c.of \in Messages
  BY <1>1, RootIs DEF Call
<1>4. c.at <= Len(schema[c.of]) + 1
  BY <1>1, <1>3, StepIs
<1> HIDE DEF c
<1>5. \A k \in 1..1 : k = 1
  OBVIOUS
<1>6. /\ ~ \E k : k \in 1..1 - 1
      /\ ~ \E i : i \in 1..c.at - 1
  BY <1>3
<1>7. (closure[1].of = PlanRoots[root].of)'
  BY <1>1, <1>2, <1>3
<1>8. Chained(closure)'
  BY <1>1, <1>2, <1>4, <1>5, <1>6 DEF Chained
<1>9. NoneTwice(closure)'
  BY <1>2, <1>5 DEF NoneTwice
<1>10. ClosureInv'
  BY <1>1, <1>2, <1>5, <1>6, <1>7, <1>8, <1>9 DEF ClosureInv
<1> QED
  BY <1>1, <1>10 DEF ValidInv, VisitedInv, SupportedInv

\* What closure gives of itself.
LEMMA ClosureIs ==
  ASSUME PlanType, ValidInv, task = "validate"
  PROVE  /\ SchemaType /\ closure \in Seq(Frames) /\ closure # <<>> /\ asking = <<>> /\ calls = <<>>
         /\ root \in 1..Len(PlanRoots) /\ closure[1].of = PlanRoots[root].of
         /\ Len(closure) \in Nat /\ Len(closure) >= 1 /\ Last(closure) = closure[Len(closure)]
         /\ Len(closure) \in 1..Len(closure)
         /\ Chained(closure) /\ NoneTwice(closure)
         /\ Last(closure).of \in Messages /\ Last(closure).at \in Nat \ {0} /\ Last(closure).of \notin visited
         /\ Last(closure) \in Frames
<1>1. /\ SchemaType /\ closure \in Seq(Frames) /\ closure # <<>> /\ asking = <<>> /\ calls = <<>>
      /\ root \in 1..Len(PlanRoots)
  BY DEF PlanType
<1>2. Len(closure) \in Nat /\ Len(closure) >= 1 /\ Last(closure) = closure[Len(closure)] /\ Last(closure) \in Frames
  BY <1>1, FrontIs
<1>3. Len(closure) \in 1..Len(closure)
  BY <1>2
<1>4. Last(closure).of \notin visited
  BY <1>2, <1>3 DEF ValidInv, ClosureInv
<1>5. Last(closure).of \in Messages /\ Last(closure).at \in Nat \ {0}
  BY <1>2 DEF Frames
<1>6. Chained(closure) /\ NoneTwice(closure) /\ closure[1].of = PlanRoots[root].of
  BY DEF ValidInv, ClosureInv
<1> QED
  BY <1>1, <1>2, <1>3, <1>4, <1>5, <1>6

\* A root that is refused for its shape cannot be accepted.
LEMMA ShapeIsRefused ==
  ASSUME PlanType, ValidInv, task = "validate", AtField(Last(closure)),
         Field(Last(closure)).mode = "refused" \/ Cyclic(Field(Last(closure)))
  PROVE  ~Acceptable
<1> DEFINE n == Len(closure)
           w == WayTo(closure, n)
           m == PlanRoots[root].of
           f == Field(Last(closure))
<1>1. /\ SchemaType /\ closure \in Seq(Frames) /\ closure # <<>> /\ root \in 1..Len(PlanRoots)
      /\ closure[1].of = m /\ n \in Nat /\ n >= 1 /\ Last(closure) = closure[n]
      /\ Chained(closure) /\ NoneTwice(closure)
  BY ClosureIs
<1>2. n \in 0..Len(closure) /\ n # 0 /\ AtField(closure[n]) /\ Steady(Frames)
  BY <1>1, CallsSteady
<1>3. IsWay(m, w) /\ Len(w) = n /\ w \in Seq(Frames)
  BY <1>1, <1>2, WayToIs
<1>4. \A k \in 1..n : w[k].of = closure[k].of
  BY <1>1, <1>2, WayToIs
<1>5. Field(Last(w)) = f
  <2>1. n \in 1..n
    BY <1>1
  <2>2. w[n] = [of |-> closure[n].of, at |-> closure[n].at]
    BY <2>1 DEF WayTo
  <2>3. w[n].of = closure[n].of /\ w[n].at = closure[n].at
    BY <2>2
  <2> HIDE DEF w
  <2>4. Last(w) = w[n]
    BY <1>3 DEF Last
  <2> QED
    BY <2>3, <2>4, <1>1 DEF Field
<1> HIDE DEF w, m, f
<1>6. NoneTwice(w)
  BY <1>1, <1>3, <1>4 DEF NoneTwice
<1>7. w \in Ways(m) \ {<<>>}
  <2>1. Len(w) <= Cardinality(Messages)
    BY <1>3, <1>6, DistinctIsShort
  <2>2. w # <<>>
    BY <1>2, <1>3
  <2> QED
    BY <2>1, <2>2, <1>3, WaysAre
<1>8. f.mode = "refused" \/ \E k \in 1..n : w[k].of = f.to
  BY <1>4 DEF Cyclic, OnTheWay, f
<1>9. ~Supported(m)
  BY <1>3, <1>5, <1>7, <1>8 DEF Supported
<1> QED
  BY <1>1, <1>9 DEF Acceptable, m

LEMMA CheckFieldValid == PlanType /\ ValidInv /\ CheckField => ValidInv'
<1> SUFFICES ASSUME PlanType, ValidInv, CheckField PROVE ValidInv'
  OBVIOUS
<1> DEFINE n == Len(closure)
           c == Last(closure)
           f == Field(c)
<1>1. task = "validate" /\ AtField(c) /\ UNCHANGED <<schema, visited>>
  BY DEF CheckField
<1>2. CASE Refuse
  <2>1. task' = "root"
    BY <1>2 DEF Refuse
  <2> QED
    BY <1>1, <2>1, ValidStays
<1>3. CASE /\ f.mode # "refused" /\ ~Cyclic(f)
           /\ closure' = IF IsMessage(f) /\ f.to \notin visited
                         THEN Append(closure, Call(f.to)) ELSE Advanced(closure)
           /\ UNCHANGED <<root, task, calls, relations, refused>>
  <2>1. /\ SchemaType /\ closure \in Seq(Frames) /\ closure # <<>> /\ root \in 1..Len(PlanRoots)
        /\ closure[1].of = PlanRoots[root].of /\ n \in Nat /\ n >= 1 /\ c = closure[n]
        /\ Chained(closure) /\ NoneTwice(closure)
        /\ c.of \in Messages /\ c.at \in Nat \ {0} /\ c \in Frames /\ n \in 1..n
    BY <1>1, ClosureIs
  <2>2. Steady(Frames)
    BY CallsSteady
  <2>3. f \in Fields /\ (IsMessage(f) <=> f.to \in Messages) /\ f = schema[c.of][c.at]
    BY <1>1, <2>1, FieldIs
  <2>4. /\ \A k \in 1..n : /\ closure[k].of \notin visited
                           /\ \A i \in 1..closure[k].at - 1 : Validated(schema[closure[k].of][i])
        /\ \A k \in 1..n - 1 : Field(closure[k]).mode # "refused"
    BY <1>1 DEF ValidInv, ClosureInv
  <2>5. \A k \in 1..n : closure[k].of # f.to
    BY <1>3 DEF Cyclic, OnTheWay
  <2>6. f.mode # "refused" /\ UNCHANGED <<schema, visited, root, task>>
    BY <1>1, <1>3
  <2>g. PICK g : g = closure'
    OBVIOUS
  <2>7. \A h : Validated(h)' <=> Validated(h)
    BY <2>6 DEF Validated
  <2>8. CASE IsMessage(f) /\ f.to \notin visited
    <3> DEFINE e == Call(f.to)
    <3>1. g = Append(closure, e)
      BY <1>3, <2>8, <2>g
    <3>2. e \in Frames /\ e.of = f.to /\ e.at = 1
      BY <2>3, <2>8 DEF Call, Frames
    <3> HIDE DEF c, f, e
    <3>3. Len(g) = n + 1 /\ g[n + 1] = e /\ \A k \in 1..n : g[k] = closure[k]
      BY <2>1, <3>1, <3>2, AppendIs
    <3>4. Chained(closure)'
      <4>1. Chained(Append(closure, e))
        BY <1>1, <2>1, <2>2, <3>2, ChainedSteps DEF c, f
      <4> QED
        BY <4>1, <3>1, <2>6, <2>g DEF Chained, AtField, Field
    <3> HIDE DEF n
    <3>5. NoneTwice(g)
      <4> SUFFICES ASSUME NEW j \in 1..n + 1, NEW k \in 1..n + 1, g[j].of = g[k].of PROVE j = k
        BY <3>3 DEF NoneTwice
      <4>1. (j \in 1..n \/ j = n + 1) /\ (k \in 1..n \/ k = n + 1)
        BY <2>1
      <4>2. ASSUME j \in 1..n, k \in 1..n PROVE j = k
        BY <4>2, <3>3, <2>1 DEF NoneTwice, n
      <4> QED
        BY <4>1, <4>2, <3>2, <3>3, <2>5
    <3>6. ASSUME NEW k \in 1..n + 1
          PROVE  g[k].of \notin visited /\ \A i \in 1..g[k].at - 1 : Validated(schema[g[k].of][i])
      <4>1. k \in 1..n \/ k = n + 1
        BY <2>1
      <4>2. ~ \E i : i \in 1..e.at - 1
        BY <3>2
      <4> QED
        BY <4>1, <4>2, <3>2, <3>3, <2>4, <2>8
    <3>7. ASSUME NEW k \in 1..n PROVE Field(g[k]).mode # "refused"
      <4>1. k \in 1..n - 1 \/ k = n
        BY <2>1
      <4> QED
        BY <4>1, <3>3, <2>1, <2>4, <2>6 DEF f
    <3>8. g[1].of = PlanRoots[root].of
      <4>1. 1 \in 1..n
        BY <2>1
      <4> QED
        BY <4>1, <3>3, <2>1
    <3>9. n + 1 - 1 = n
      BY <2>1
    <3>10. ClosureInv'
      <4>1. \A k \in 1..Len(g) - 1 : Field(g[k])'.mode # "refused"
        <5>1. Len(g) - 1 = n
          BY <3>3, <2>1
        <5> QED
          BY <5>1, <3>7, <2>6 DEF Field
      <4>2. NoneTwice(closure)'
        BY <3>5, <2>g DEF NoneTwice
      <4> QED
        BY <2>6, <2>7, <3>3, <3>4, <3>6, <3>8, <4>1, <4>2, <2>g DEF ClosureInv
    <3>11. VisitedInv' /\ SupportedInv'
      <4>1. \A x : Supported(x)' <=> Supported(x)
        BY <2>6, SameGraph
      <4> QED
        BY <4>1, <1>1, <2>6, <2>7 DEF ValidInv, VisitedInv, SupportedInv
    <3> QED
      BY <3>10, <3>11 DEF ValidInv
  <2>9. CASE ~(IsMessage(f) /\ f.to \notin visited)
    <3>1. g = Advanced(closure)
      BY <1>3, <2>9, <2>g
    <3>2. Validated(f)
      BY <2>6, <2>9 DEF Validated
    <3> HIDE DEF c, f
    <3>3. Len(g) = n /\ g[n] = [closure[n] EXCEPT !.at = @ + 1] /\ \A k \in 1..n - 1 : g[k] = closure[k]
      BY <2>1, <2>2, <3>1, AdvancedIs
    <3>4. g[n].of = c.of /\ g[n].at = c.at + 1
      BY <2>1, <2>2, <3>3 DEF Steady
    <3>5. Chained(closure)'
      <4>1. Chained(Advanced(closure))
        BY <1>1, <2>1, <2>2, ChainedSteps DEF c
      <4> QED
        BY <4>1, <3>1, <2>6, <2>g DEF Chained, AtField, Field
    <3> HIDE DEF n
    <3>6. \A k \in 1..n : (k \in 1..n - 1 \/ k = n)
      BY <2>1
    <3>7. \A k \in 1..n : g[k].of = closure[k].of
      BY <3>3, <3>4, <3>6, <2>1
    <3>8. NoneTwice(g)
      BY <3>3, <3>7, <2>1 DEF NoneTwice, n
    <3>9. ASSUME NEW k \in 1..n
          PROVE  g[k].of \notin visited /\ \A i \in 1..g[k].at - 1 : Validated(schema[g[k].of][i])
      <4>1. CASE k \in 1..n - 1
        BY <4>1, <3>3, <2>4
      <4>2. CASE k = n
        <5>1. \A i \in 1..c.at + 1 - 1 : i \in 1..c.at - 1 \/ i = c.at
          BY <2>1
        <5>2. \A i \in 1..c.at - 1 : Validated(schema[c.of][i])
          BY <2>1, <2>4
        <5>3. Validated(schema[c.of][c.at])
          BY <3>2, <2>3
        <5>4. \A i \in 1..c.at + 1 - 1 : Validated(schema[c.of][i])
          BY <5>1, <5>2, <5>3
        <5> QED
          BY <5>4, <4>2, <3>4, <3>7, <2>1, <2>4
      <4> QED
        BY <3>6, <4>1, <4>2
    <3>10. g[1].of = PlanRoots[root].of
      <4>1. 1 \in 1..n
        BY <2>1
      <4> QED
        BY <4>1, <3>7, <2>1
    <3>11. ClosureInv'
      <4>1. \A k \in 1..Len(g) - 1 : Field(g[k])'.mode # "refused"
        BY <3>3, <2>4, <2>6 DEF Field
      <4>2. NoneTwice(closure)'
        BY <3>8, <2>g DEF NoneTwice
      <4> QED
        BY <2>6, <2>7, <3>3, <3>5, <3>9, <3>10, <4>1, <4>2, <2>g DEF ClosureInv
    <3>12. VisitedInv' /\ SupportedInv'
      <4>1. \A x : Supported(x)' <=> Supported(x)
        BY <2>6, SameGraph
      <4> QED
        BY <4>1, <1>1, <2>6, <2>7 DEF ValidInv, VisitedInv, SupportedInv
    <3> QED
      BY <3>11, <3>12 DEF ValidInv
  <2> QED
    BY <2>8, <2>9
<1> QED
  BY <1>2, <1>3 DEF CheckField

\* What is left of a sequence, element by element.
LEMMA FrontElements ==
  ASSUME NEW T, NEW s \in Seq(T), s # <<>>, NEW k \in 1..Len(s) - 1
  PROVE  Front(s)[k] = s[k]
BY FrontIs

LEMMA ReturnedElements ==
  ASSUME NEW T, Steady(T), NEW s \in Seq(T), s # <<>>, NEW k \in 1..Len(s) - 2
  PROVE  Returned(s)[k] = s[k]
BY ReturnedIs

LEMMA LeaveMessageValid == PlanType /\ ValidInv /\ LeaveMessage => ValidInv'
<1> SUFFICES ASSUME PlanType, ValidInv, LeaveMessage PROVE ValidInv'
  OBVIOUS
<1> DEFINE n == Len(closure)
           c == Last(closure)
<1>1. /\ task = "validate" /\ ~AtField(c) /\ visited' = visited \cup {c.of} /\ closure' = Returned(closure)
      /\ task' = (IF n = 1 THEN "relation" ELSE task) /\ schema' = schema /\ root' = root
  BY DEF LeaveMessage
<1>2. /\ SchemaType /\ closure \in Seq(Frames) /\ closure # <<>> /\ root \in 1..Len(PlanRoots)
      /\ closure[1].of = PlanRoots[root].of /\ n \in Nat /\ n >= 1 /\ c = closure[n]
      /\ Chained(closure) /\ NoneTwice(closure)
      /\ c.of \in Messages /\ c.at \in Nat \ {0} /\ n \in 1..n /\ c.of \notin visited
  BY <1>1, ClosureIs
<1>3. Steady(Frames) /\ visited \in SUBSET Messages
  BY CallsSteady DEF PlanType
<1>4. /\ \A k \in 1..n : /\ closure[k].of \notin visited
                         /\ \A i \in 1..closure[k].at - 1 : Validated(schema[closure[k].of][i])
      /\ \A k \in 1..n - 1 : Field(closure[k]).mode # "refused"
  BY <1>1 DEF ValidInv, ClosureInv
<1>5. \A i \in 1..Len(schema[c.of]) : Validated(schema[c.of][i])
  <2>1. c.at <= Len(schema[c.of]) + 1 /\ Len(schema[c.of]) \in Nat
    BY <1>2, StepIs DEF Chained
  <2>2. c.at - 1 = Len(schema[c.of])
    BY <1>1, <1>2, <2>1 DEF AtField
  <2>3. \A i \in 1..c.at - 1 : Validated(schema[c.of][i])
    BY <1>2, <1>4
  <2> QED
    BY <2>2, <2>3
<1>6. Supported(c.of)
  BY <1>2, <1>3, <1>5, ClosedIsSupported DEF ValidInv
<1>7. \A m : Supported(m)' <=> Supported(m)
  BY <1>1, SameGraph
<1>8. \A h : Validated(h) => Validated(h)'
  BY <1>1 DEF Validated
<1>9. VisitedInv'
  <2>1. \A m \in visited : Supported(m) /\ \A i \in 1..Len(schema[m]) : Validated(schema[m][i])
    BY DEF ValidInv, VisitedInv
  <2> HIDE DEF c
  <2>2. \A m \in visited \cup {c.of} : Supported(m) /\ \A i \in 1..Len(schema[m]) : Validated(schema[m][i])
    BY <2>1, <1>5, <1>6
  <2>3. \A m \in visited' : Supported(m)' /\ \A i \in 1..Len(schema[m]) : Validated(schema[m][i])'
    BY <2>2, <1>1, <1>7, <1>8
  <2> QED
    BY <2>3, <1>1 DEF VisitedInv, Validated
<1>10. CASE n = 1
  <2>1. task' = "relation" /\ c.of = PlanRoots[root].of
    BY <1>1, <1>2, <1>10
  <2>2. ClosureInv'
    BY <2>1 DEF ClosureInv
  <2>3. Supported(PlanRoots[root].of)'
    BY <2>1, <1>1, <1>6, <1>7
  <2>4. SupportedInv'
    BY <2>3, <1>1 DEF SupportedInv
  <2> QED
    BY <1>9, <2>2, <2>4 DEF ValidInv
<1>11. CASE n # 1
  <2>g. PICK g : g = closure'
    OBVIOUS
  <2>1. task' = "validate"
    BY <1>1, <1>11
  <2> HIDE DEF c
  <2>n. n - 1 \in 1..n /\ n - 1 \in 1..n - 1 /\ n - 1 \in Nat /\ n - 1 # 0
    <3>1. n \in Nat /\ n >= 1 /\ n # 1
      BY <1>2, <1>11
    <3> HIDE DEF n
    <3> QED
      BY <3>1
  <2>2. Len(g) = n - 1 /\ (\A k \in 1..n - 2 : g[k] = closure[k]) /\ g[n - 1] = [closure[n - 1] EXCEPT !.at = @ + 1]
    <3>0. closure \in Seq(Frames) /\ closure # <<>> /\ Steady(Frames) /\ g = Returned(closure)
      BY <2>g, <1>1, <1>2, <1>3
    <3>1. Len(g) = n - 1
      BY <3>0, ReturnedIs
    <3>2. \A k \in 1..n - 2 : g[k] = closure[k]
      BY <3>0, ReturnedElements
    <3>3. g[n - 1] = [closure[n - 1] EXCEPT !.at = @ + 1]
      BY <3>0, <1>11, ReturnedIs
    <3> QED
      BY <3>1, <3>2, <3>3
  <2>3. closure[n - 1] \in Frames
      BY <2>n, <1>2, ElementOfSeq
  <2>4. g[n - 1].of = closure[n - 1].of /\ g[n - 1].at = closure[n - 1].at + 1 /\ closure[n - 1].at \in Nat \ {0}
    BY <2>2, <2>3, <1>3 DEF Steady
  <2>5. AtField(closure[n - 1]) /\ Field(closure[n - 1]).to = c.of /\ Chained(Front(closure))
    BY <1>2, <1>3, <1>11, ChainedSteps DEF c
  <2>6. Chained(closure)'
    <3>0. closure \in Seq(Frames) /\ closure # <<>>
      BY <1>2
    <3>1. Front(closure) \in Seq(Frames) /\ Len(Front(closure)) = n - 1
      BY <3>0, FrontIs
    <3>2. \A k \in 1..n - 1 : Front(closure)[k] = closure[k]
      BY <3>0, FrontElements
    <3>3. n - 1 \in 1..n - 1 /\ n - 1 \in Nat /\ n - 1 # 0
      BY <2>n
    <3>4. Front(closure) # <<>> /\ Last(Front(closure)) = closure[n - 1]
      BY <3>1, <3>2, <3>3 DEF Last
    <3>5. Chained(Advanced(Front(closure)))
      BY <1>2, <1>3, <2>5, <3>1, <3>4, ChainedSteps
    <3>6. closure' = Advanced(Front(closure))
      BY <1>1, <1>11 DEF Returned
    <3> QED
      BY <3>5, <3>6, <1>1 DEF Chained, AtField, Field
  <2> HIDE DEF n
  <2>7. \A k \in 1..n - 1 : k \in 1..n /\ (k \in 1..n - 2 \/ k = n - 1) /\ k # n
    BY <1>2
  <2>8. \A k \in 1..n - 1 : g[k].of = closure[k].of
    BY <2>2, <2>4, <2>7
  <2>9. NoneTwice(g)
    BY <2>2, <2>7, <2>8, <1>2 DEF NoneTwice, n
  <2>10. ASSUME NEW k \in 1..n - 1 PROVE g[k].of \notin visited \cup {c.of}
    <3>1. closure[k].of # closure[n].of
      BY <2>7, <1>2 DEF NoneTwice, n
    <3> QED
      BY <3>1, <2>7, <2>8, <1>2, <1>4
  <2>11. ASSUME NEW k \in 1..n - 1 PROVE \A i \in 1..g[k].at - 1 : Validated(schema[g[k].of][i])'
    <3>1. CASE k \in 1..n - 2
      BY <3>1, <2>2, <2>7, <1>1, <1>4, <1>8
    <3>2. CASE k = n - 1
      <4>1. \A i \in 1..g[k].at - 1 : i \in 1..closure[k].at - 1 \/ i = closure[k].at
        BY <3>2, <2>4
      <4>2. \A i \in 1..closure[k].at - 1 : Validated(schema[closure[k].of][i])
        BY <1>4, <2>7
      <4>h. PICK h : h = Field(closure[k])
        OBVIOUS
      <4>3. h.mode # "refused" /\ h.to \in visited' /\ h = schema[closure[k].of][closure[k].at]
        BY <4>h, <3>2, <2>5, <2>7, <1>1, <1>4 DEF Field
      <4>4. Validated(h)'
        BY <4>3 DEF Validated
      <4>5. ASSUME NEW i \in 1..g[k].at - 1 PROVE Validated(schema[g[k].of][i])'
        <5>1. CASE i = closure[k].at
          BY <5>1, <4>3, <4>4, <2>8, <1>1
        <5>2. CASE i \in 1..closure[k].at - 1
          BY <5>2, <4>2, <2>8, <1>1, <1>8
        <5> QED
          BY <5>1, <5>2, <4>1
      <4> QED
        BY <4>5
    <3> QED
      BY <3>1, <3>2, <2>7
  <2>12. ASSUME NEW k \in 1..n - 2 PROVE Field(g[k]).mode # "refused"
    <3>1. k \in 1..n - 1
      BY <1>2
    <3> QED
      BY <3>1, <2>2, <1>4
  <2>13. g[1].of = PlanRoots[root].of
    <3>1. 1 \in 1..n - 1
      BY <1>2, <1>11
    <3> QED
      BY <3>1, <2>8, <1>2
  <2>14. ClosureInv'
    <3>1. \A k \in 1..Len(g) - 1 : Field(g[k])'.mode # "refused"
      <4>1. Len(g) - 1 = n - 2
        BY <2>2, <1>2
      <4> QED
        BY <4>1, <2>12, <1>1 DEF Field
    <3>2. NoneTwice(closure)'
      BY <2>9, <2>g DEF NoneTwice
    <3> QED
      BY <1>1, <2>2, <2>6, <2>10, <2>11, <2>13, <3>1, <3>2, <2>g DEF ClosureInv
  <2>15. SupportedInv'
    BY <2>1 DEF SupportedInv
  <2> QED
    BY <1>9, <2>14, <2>15 DEF ValidInv
<1> QED
  BY <1>10, <1>11

LEMMA ValidKept == PlanType /\ ValidInv /\ [PlanNext]_planVars => ValidInv'
<1> SUFFICES ASSUME PlanType, ValidInv, [PlanNext]_planVars PROVE ValidInv'
  OBVIOUS
<1>1. CASE OpenRoot
  BY <1>1, OpenRootValid
<1>2. CASE CheckField
  BY <1>2, CheckFieldValid
<1>3. CASE LeaveMessage
  BY <1>3, LeaveMessageValid
<1>4. CASE PlanRoot
  BY <1>4, ValidStays DEF PlanRoot, Refuse
<1>5. CASE PlanChild
  BY <1>5, ValidStays DEF PlanChild, Planning, Refuse
<1>6. CASE PlanColumn
  BY <1>6, ValidStays DEF PlanColumn, Planning, Refuse
<1>7. CASE EndColumns
  BY <1>7, ValidStays DEF EndColumns, Planning
<1>8. CASE Ask \/ AskField \/ AskEnd
  <2>1. task = "columns"
    BY <1>8 DEF PlanType, Ask, AskField, AskEnd, Planning
  <2> QED
    BY <1>8, <2>1, ValidStays DEF Ask, AskField, AskEnd
<1>9. CASE UNCHANGED planVars
  <2>1. \A m : Supported(m)' <=> Supported(m)
    BY <1>9, SameGraph DEF planVars
  <2> QED
    BY <1>9, <2>1 DEF ValidInv, VisitedInv, ClosureInv, SupportedInv, planVars, Validated, Chained, NoneTwice, AtField, Field
<1> QED
  BY <1>1, <1>2, <1>3, <1>4, <1>5, <1>6, <1>7, <1>8, <1>9 DEF PlanNext

-----------------------------------------------------------------------------
(* What is known of the messages that have been asked about. *)

AskInv == MemoInv /\ AskingInv

LEMMA InitAsk == PlanInit => AskInv
<1> SUFFICES ASSUME PlanInit PROVE AskInv
  OBVIOUS
<1>1. asking = <<>> /\ \A m \in Messages : memo[m] = "unknown"
  BY DEF PlanInit
<1>2. MemoInv
  BY <1>1 DEF MemoInv, Known
<1>3. AskingInv
  BY <1>1 DEF AskingInv, Chained
<1> QED
  BY <1>2, <1>3 DEF AskInv

LEMMA AskStays ==
  ASSUME PlanType, AskInv, UNCHANGED <<schema, memo, asking>>, asking = <<>> \/ calls' = calls
  PROVE  AskInv'
<1>1. \A m : (Spread(m)' <=> Spread(m)) /\ (Supported(m)' <=> Supported(m))
  BY SameGraph
<1>2. \A f : OwnRelation(f)' <=> OwnRelation(f)
  BY SameGraph
<1>3. MemoInv'
  BY <1>1 DEF AskInv, MemoInv, Known
<1>4. Chained(asking)'
  BY DEF AskInv, AskingInv, Chained, AtField, Field
<1>5. asking' # <<>> => Single(Field(Here))' /\ asking'[1].of = Field(Here)'.to
  <2> SUFFICES ASSUME asking # <<>> PROVE Single(Field(Here))' /\ asking'[1].of = Field(Here)'.to
    OBVIOUS
  <2>1. Field(Here)' = Field(Here)
    BY DEF Field, Here
  <2>2. Single(Field(Here)) /\ asking[1].of = Field(Here).to
    BY DEF AskInv, AskingInv
  <2> QED
    BY <2>1, <2>2 DEF Single, Several, IsMessage
<1>6. \A k \in 1..Len(asking) :
        /\ Supported(asking[k].of)' /\ memo'[asking[k].of] = "no"
        /\ \A i \in 1..asking[k].at - 1 : ~OwnRelation(schema[asking[k].of][i])'
  BY <1>1, <1>2 DEF AskInv, AskingInv
<1>7. AskingInv'
  BY <1>4, <1>5, <1>6 DEF AskingInv
<1> QED
  BY <1>3, <1>7 DEF AskInv

\* The innermost call of message_has_relations: its message is not asked about
\* twice.
LEMMA AskingIs ==
  ASSUME PlanType, AskInv, asking # <<>>, NEW c, c = Last(asking)
  PROVE  /\ SchemaType /\ asking \in Seq(Frames) /\ Steady(Frames) /\ Chained(asking)
         /\ Len(asking) \in Nat /\ Len(asking) >= 1 /\ c = asking[Len(asking)]
         /\ c \in Frames /\ c.of \in Messages /\ c.at \in Nat \ {0}
         /\ Supported(c.of) /\ memo[c.of] = "no"
         /\ \A i \in 1..c.at - 1 : ~OwnRelation(schema[c.of][i])
         /\ NoneTwice(asking)
         /\ AtField(c) => \A k \in 1..Len(asking) : asking[k].of # Field(c).to
<1>1. SchemaType /\ asking \in Seq(Frames) /\ Steady(Frames) /\ Chained(asking)
  BY CallsSteady DEF PlanType, AskInv, AskingInv
<1>2. Len(asking) \in Nat /\ Len(asking) >= 1 /\ c = asking[Len(asking)] /\ c \in Frames
  <2> PICK s : s = asking
    OBVIOUS
  <2>1. s \in Seq(Frames) /\ s # <<>>
    BY <1>1
  <2>2. Len(s) \in Nat /\ Len(s) >= 1 /\ Last(s) \in Frames /\ Last(s) = s[Len(s)]
    BY <2>1, FrontIs
  <2> QED
    BY <2>2
<1>3. c.of \in Messages /\ c.at \in Nat \ {0}
  BY <1>2 DEF Frames
<1>4. \A k \in 1..Len(asking) : /\ Supported(asking[k].of) /\ memo[asking[k].of] = "no"
                                /\ \A i \in 1..asking[k].at - 1 : ~OwnRelation(schema[asking[k].of][i])
  BY DEF AskInv, AskingInv
<1>5. 1 \in 1..Len(asking) /\ Len(asking) \in 1..Len(asking)
  BY <1>2
<1>6. Supported(asking[1].of)
  BY <1>4, <1>5
<1>7. NoneTwice(asking)
  BY <1>1, <1>6, StackDiffers
<1>8. AtField(Last(asking)) => \A k \in 1..Len(asking) : asking[k].of # Field(Last(asking)).to
  BY <1>1, <1>6, StackDiffers
<1> QED
  BY <1>1, <1>2, <1>3, <1>4, <1>5, <1>7, <1>8

\* The field it is at counts exactly if it has a relation of its own.
LEMMA AskedFieldIs ==
  ASSUME PlanType, AskInv, asking # <<>>, NEW c, c = Last(asking), AtField(c), NEW f, f = Field(c)
  PROVE  /\ f \in Fields /\ (IsMessage(f) <=> f.to \in Messages) /\ c.at \in 1..Len(schema[c.of])
         /\ f = schema[c.of][c.at] /\ (IsMessage(f) => Supported(f.to))
         /\ Counts(f) => OwnRelation(f)
         /\ ~Counts(f) /\ (IsMessage(f) => memo[f.to] = "no") => ~OwnRelation(f)
<1>1. SchemaType /\ c.of \in Messages /\ c.at \in Nat \ {0} /\ Supported(c.of)
  BY AskingIs
<1>2. \A k \in 1..Len(asking) : asking[k].of # f.to
  BY AskingIs
<1>3. f \in Fields /\ (IsMessage(f) <=> f.to \in Messages) /\ c.at \in 1..Len(schema[c.of]) /\ f = schema[c.of][c.at]
  BY <1>1, FieldIs
<1>4. IsMessage(f) => Supported(f.to)
  <2>1. IsMessage(schema[c.of][c.at]) => Supported(schema[c.of][c.at].to)
    BY <1>1, <1>3, FieldBelow
  <2> QED
    BY <2>1, <1>3
<1>5. IsMessage(f) => Known(f.to)
  BY <1>2, <1>3 DEF AskInv, MemoInv
<1>6. IsMessage(f) /\ memo[f.to] = "yes" => Spread(f.to)
  BY <1>5 DEF Known
<1>7. IsMessage(f) /\ memo[f.to] = "no" => ~Spread(f.to)
  BY <1>5 DEF Known
<1> QED
  BY <1>1, <1>3, <1>4, <1>6, <1>7 DEF Counts, OwnRelation, Multiple

\* An answer: the call returns and its message is known.
LEMMA AnswerAsk ==
  ASSUME PlanType, AskInv, asking # <<>>, NEW c, c = Last(asking), asking' = Front(asking),
         NEW v \in {"yes", "no"}, memo' = [memo EXCEPT ![c.of] = v],
         v = IF Spread(c.of) THEN "yes" ELSE "no", UNCHANGED <<schema, calls>>
  PROVE  AskInv'
<1>1. /\ SchemaType /\ asking \in Seq(Frames) /\ Steady(Frames) /\ Chained(asking)
      /\ Len(asking) \in Nat /\ Len(asking) >= 1 /\ c = asking[Len(asking)]
      /\ c.of \in Messages
  BY AskingIs
<1>2. NoneTwice(asking)
  BY AskingIs
<1>3. memo \in [Messages -> {"unknown", "no", "yes"}]
  BY DEF PlanType
<1>g. PICK g : g = asking'
  OBVIOUS
<1>4. Len(g) = Len(asking) - 1
  BY <1>g, <1>1, FrontIs
<1>5. \A k \in 1..Len(asking) - 1 : g[k] = asking[k]
  BY <1>g, <1>1, FrontElements
<1>6. \A m : (Spread(m)' <=> Spread(m)) /\ (Supported(m)' <=> Supported(m))
  BY SameGraph
<1>7. \A h : OwnRelation(h)' <=> OwnRelation(h)
  BY SameGraph
<1>8. ASSUME NEW m \in Messages PROVE Known(m)' \/ \E k \in 1..Len(g) : g[k].of = m
  <2>1. CASE m = c.of
    <3>1. memo'[m] = v
      BY <1>3, <2>1
    <3> QED
      BY <2>1, <3>1, <1>6 DEF Known
  <2>2. CASE m # c.of
    <3>1. memo'[m] = memo[m]
      BY <1>3, <2>2
    <3>2. Known(m) => Known(m)'
      BY <3>1, <1>6 DEF Known
    <3>3. ASSUME NEW k \in 1..Len(asking), asking[k].of = m PROVE \E l \in 1..Len(g) : g[l].of = m
      <4>1. k # Len(asking)
        BY <3>3, <2>2, <1>1
      <4>2. k \in 1..Len(g)
        BY <4>1, <1>4, <1>1
      <4> QED
        BY <4>2, <3>3, <1>4, <1>5
    <3> QED
      BY <3>2, <3>3 DEF AskInv, MemoInv
  <2> QED
    BY <2>1, <2>2
<1>9. MemoInv'
  BY <1>8, <1>g DEF MemoInv
<1>10. Chained(asking)'
  <2>1. Chained(Front(asking))
    BY <1>1, ChainedSteps
  <2> QED
    BY <2>1 DEF Chained, AtField, Field
<1>11. asking' # <<>> => Single(Field(Here))' /\ asking'[1].of = Field(Here)'.to
  <2> SUFFICES ASSUME g # <<>> PROVE Single(Field(Here))' /\ g[1].of = Field(Here)'.to
    BY <1>g
  <2>1. Field(Here)' = Field(Here)
    BY DEF Field, Here
  <2>2. Single(Field(Here)) /\ asking[1].of = Field(Here).to
    BY DEF AskInv, AskingInv
  <2>3. Len(asking) # 1
    <3>1. Len(asking) = 1 <=> Front(asking) = <<>>
      BY <1>1, FrontIs
    <3> QED
      BY <3>1, <1>g
  <2>4. 1 \in 1..Len(asking) - 1
    <3>1. \A n \in Nat : n >= 1 /\ n # 1 => 1 \in 1..n - 1
      OBVIOUS
    <3>2. Len(asking) \in Nat /\ Len(asking) >= 1
      BY <1>1
    <3> QED
      BY <2>3, <3>1, <3>2
  <2> QED
    BY <2>1, <2>2, <2>4, <1>5 DEF Single, Several, IsMessage
<1>12. ASSUME NEW k \in 1..Len(g)
       PROVE  /\ Supported(g[k].of)' /\ memo'[g[k].of] = "no"
              /\ \A i \in 1..g[k].at - 1 : ~OwnRelation(schema[g[k].of][i])'
  <2>1. k \in 1..Len(asking) /\ k # Len(asking) /\ k \in 1..Len(asking) - 1 /\ Len(asking) \in 1..Len(asking)
    BY <1>1, <1>4
  <2>2. g[k] = asking[k]
    BY <2>1, <1>5
  <2>3. /\ Supported(asking[k].of) /\ memo[asking[k].of] = "no"
        /\ \A i \in 1..asking[k].at - 1 : ~OwnRelation(schema[asking[k].of][i])
    BY <2>1 DEF AskInv, AskingInv
  <2>4. asking[k].of # c.of
    BY <2>1, <1>1, <1>2 DEF NoneTwice
  <2>5. asking[k] \in Frames
    BY <2>1, <1>1, ElementOfSeq
  <2>6. asking[k].of \in Messages
    BY <2>5 DEF Frames
  <2>7. memo'[asking[k].of] = "no"
    BY <2>3, <2>4, <2>6, <1>3
  <2> QED
    BY <2>2, <2>3, <2>7, <1>6, <1>7
<1>13. AskingInv'
  BY <1>10, <1>11, <1>12, <1>g DEF AskingInv
<1> QED
  BY <1>9, <1>13 DEF AskInv

LEMMA AskValid == PlanType /\ SupportedInv /\ CallsInv /\ AskInv /\ Ask => AskInv'
<1> SUFFICES ASSUME PlanType, SupportedInv, CallsInv, AskInv, Ask PROVE AskInv'
  OBVIOUS
<1>c. PICK c : c = Here
  OBVIOUS
<1>f. PICK f : f = Field(c)
  OBVIOUS
<1>1. /\ Planning /\ AtField(c) /\ Single(f) /\ memo[f.to] = "unknown"
      /\ asking' = <<Call(f.to)>> /\ memo' = [memo EXCEPT ![f.to] = "no"]
      /\ UNCHANGED <<schema, root, calls>> /\ asking = <<>> /\ task = "columns"
  BY <1>c, <1>f DEF Ask, Planning
<1>2. calls # <<>> /\ SchemaType /\ root \in 1..Len(PlanRoots) /\ calls \in Seq(ColumnCalls) /\ Steady(ColumnCalls)
  BY <1>1, CallsSteady DEF PlanType
<1>3. c.of \in Messages /\ c.at \in Nat \ {0} /\ c = calls[Len(calls)] /\ Len(calls) \in 1..Len(calls)
  BY <1>2, <1>c, HereIs
<1>4. Chained(calls) /\ Supported(calls[1].of)
  BY <1>1, <1>2 DEF CallsInv, SupportedInv
<1>5. \A k \in 1..Len(calls) : Supported(calls[k].of)
  BY <1>2, <1>4, StackDiffers
<1>6. Supported(c.of)
  BY <1>3, <1>5
<1>7. c.at \in 1..Len(schema[c.of]) /\ f = schema[c.of][c.at] /\ (IsMessage(f) <=> f.to \in Messages)
  BY <1>1, <1>2, <1>3, <1>f, FieldIs
<1>8. IsMessage(schema[c.of][c.at]) => Supported(schema[c.of][c.at].to)
  BY <1>2, <1>3, <1>6, <1>7, FieldBelow
<1>9. f.to \in Messages /\ Supported(f.to)
  BY <1>1, <1>7, <1>8 DEF Single
<1>g. PICK g : g = asking'
  OBVIOUS
<1>10. Len(g) = 1 /\ g[1] = Call(f.to) /\ g # <<>>
  BY <1>g, <1>1
<1>11. g[1].of = f.to /\ g[1].at = 1
  BY <1>10 DEF Call
<1>12. \A m : (Spread(m)' <=> Spread(m)) /\ (Supported(m)' <=> Supported(m))
  BY <1>1, SameGraph
<1>13. MemoInv'
  <2>1. ASSUME NEW m \in Messages, m # f.to PROVE Known(m)'
    <3>1. memo'[m] = memo[m]
      BY <1>1, <2>1 DEF PlanType
    <3>2. Known(m)
      <4>1. ~ \E k \in 1..Len(asking) : asking[k].of = m
        BY <1>1
      <4> QED
        BY <4>1, <2>1 DEF AskInv, MemoInv
    <3> QED
      BY <3>1, <3>2, <1>12 DEF Known
  <2> QED
    BY <2>1, <1>10, <1>11, <1>g DEF MemoInv
<1>14. Chained(asking)'
  <2>1. \A k \in 1..Len(g) : k = 1
    BY <1>10
  <2>2. ~ \E k : k \in 1..Len(g) - 1
    BY <1>10
  <2>3. Len(schema[f.to]) \in Nat
    BY <1>2, <1>9, StepIs
  <2>4. g[1].at <= Len(schema[g[1].of]) + 1
    BY <1>11, <2>3
  <2>5. \A k \in 1..Len(g) : g[k].at <= Len(schema[g[k].of]) + 1
    BY <2>1, <2>4
  <2> QED
    BY <2>2, <2>5, <1>g, <1>1 DEF Chained
<1>15. Single(Field(Here))' /\ g[1].of = Field(Here)'.to
  <2>1. Field(Here)' = f
    BY <1>1, <1>c, <1>f DEF Field, Here
  <2> QED
    BY <2>1, <1>1, <1>11 DEF Single, Several, IsMessage
<1>16. ASSUME NEW k \in 1..Len(g)
       PROVE  /\ Supported(g[k].of)' /\ memo'[g[k].of] = "no"
              /\ \A i \in 1..g[k].at - 1 : ~OwnRelation(schema[g[k].of][i])'
  <2>1. k = 1
    BY <1>10
  <2>2. ~ \E i : i \in 1..g[k].at - 1
    BY <2>1, <1>11
  <2>3. memo'[f.to] = "no"
    BY <1>1, <1>9 DEF PlanType
  <2> QED
    BY <2>1, <2>2, <2>3, <1>9, <1>11, <1>12
<1>17. AskingInv'
  BY <1>14, <1>15, <1>16, <1>g DEF AskingInv
<1> QED
  BY <1>13, <1>17 DEF AskInv

LEMMA AskFieldValid == PlanType /\ AskInv /\ AskField => AskInv'
<1> SUFFICES ASSUME PlanType, AskInv, AskField PROVE AskInv'
  OBVIOUS
<1>c. PICK c : c = Last(asking)
  OBVIOUS
<1>f. PICK f : f = Field(c)
  OBVIOUS
<1>g. PICK g : g = asking'
  OBVIOUS
<1>1. asking # <<>> /\ AtField(c) /\ UNCHANGED <<schema, calls>>
  BY <1>c DEF AskField
<1>2. /\ SchemaType /\ asking \in Seq(Frames) /\ Steady(Frames) /\ Chained(asking)
      /\ Len(asking) \in Nat /\ Len(asking) >= 1 /\ c = asking[Len(asking)]
      /\ c \in Frames /\ c.of \in Messages /\ c.at \in Nat \ {0}
      /\ Supported(c.of) /\ memo[c.of] = "no"
  BY <1>1, <1>c, AskingIs
<1>3. \A i \in 1..c.at - 1 : ~OwnRelation(schema[c.of][i])
  BY <1>1, <1>c, AskingIs
<1>4. \A k \in 1..Len(asking) : asking[k].of # f.to
  BY <1>1, <1>c, <1>f, AskingIs
<1>5. /\ f \in Fields /\ (IsMessage(f) <=> f.to \in Messages) /\ c.at \in 1..Len(schema[c.of])
      /\ f = schema[c.of][c.at] /\ (IsMessage(f) => Supported(f.to))
      /\ Counts(f) => OwnRelation(f)
      /\ ~Counts(f) /\ (IsMessage(f) => memo[f.to] = "no") => ~OwnRelation(f)
  BY <1>1, <1>c, <1>f, AskedFieldIs
<1>6. \A m : (Spread(m)' <=> Spread(m)) /\ (Supported(m)' <=> Supported(m))
  BY <1>1, SameGraph
<1>7. \A h : OwnRelation(h)' <=> OwnRelation(h)
  BY <1>1, SameGraph
<1>8. memo \in [Messages -> {"unknown", "no", "yes"}]
  BY DEF PlanType
<1>9. Single(Field(Here)) /\ asking[1].of = Field(Here).to
  BY <1>1 DEF AskInv, AskingInv
<1>10. Field(Here)' = Field(Here)
  BY <1>1 DEF Field, Here
<1>11. 1 \in 1..Len(asking)
  BY <1>2
<1>12. CASE Counts(f) /\ memo' = [memo EXCEPT ![c.of] = "yes"] /\ asking' = Front(asking)
  <2>1. Spread(c.of)
    BY <1>2, <1>5, <1>12, SpreadIs
  <2> QED
    BY <2>1, <1>1, <1>12, <1>c, AnswerAsk
<1>13. CASE ~Counts(f) /\ IsMessage(f) /\ memo[f.to] = "unknown" /\ memo' = [memo EXCEPT ![f.to] = "no"]
            /\ asking' = Append(asking, Call(f.to))
  <2>1. Call(f.to) \in Frames /\ Call(f.to).of = f.to /\ Call(f.to).at = 1
    BY <1>5, <1>13 DEF Call, Frames
  <2>2. Len(g) = Len(asking) + 1 /\ g[Len(asking) + 1] = Call(f.to) /\ \A k \in 1..Len(asking) : g[k] = asking[k]
    <3> PICK e : e = Call(f.to)
      OBVIOUS
    <3>1. e \in Frames
      BY <2>1
    <3> QED
      BY <1>g, <1>13, <1>2, <3>1, AppendIs
  <2>3. MemoInv'
    <3>1. ASSUME NEW m \in Messages PROVE Known(m)' \/ \E k \in 1..Len(g) : g[k].of = m
      <4>1. \A k \in 1..Len(asking) : k \in 1..Len(g)
        BY <2>2, <1>2
      <4>2. Len(asking) + 1 \in 1..Len(g)
        BY <2>2, <1>2
      <4>3. CASE m = f.to
        BY <4>2, <4>3, <2>1, <2>2
      <4>4. CASE m # f.to
        <5>1. memo'[m] = memo[m]
          BY <4>4, <1>8, <1>13
        <5>2. Known(m) => Known(m)'
          BY <5>1, <1>6 DEF Known
        <5> QED
          BY <5>2, <4>1, <2>2 DEF AskInv, MemoInv
      <4> QED
        BY <4>3, <4>4
    <3> QED
      BY <3>1, <1>g DEF MemoInv
  <2>4. Chained(asking)'
    <3>1. Chained(Append(asking, Call(f.to)))
      BY <1>1, <1>2, <1>c, <1>f, <2>1, ChainedSteps
    <3> QED
      BY <3>1, <1>1, <1>13 DEF Chained, AtField, Field
  <2>5. ASSUME NEW k \in 1..Len(g)
        PROVE  /\ Supported(g[k].of)' /\ memo'[g[k].of] = "no"
               /\ \A i \in 1..g[k].at - 1 : ~OwnRelation(schema[g[k].of][i])'
    <3>0. k \in 1..Len(asking) \/ k = Len(asking) + 1
      BY <2>2, <1>2
    <3>1. CASE k \in 1..Len(asking)
      <4>1. g[k] = asking[k] /\ asking[k].of # f.to
        BY <3>1, <2>2, <1>4
      <4>2. asking[k] \in Frames
        BY <3>1, <1>2, ElementOfSeq
      <4>3. asking[k].of \in Messages
        BY <4>2 DEF Frames
      <4>4. /\ Supported(asking[k].of) /\ memo[asking[k].of] = "no"
            /\ \A i \in 1..asking[k].at - 1 : ~OwnRelation(schema[asking[k].of][i])
        BY <3>1 DEF AskInv, AskingInv
      <4>5. memo'[asking[k].of] = "no"
        BY <4>1, <4>3, <4>4, <1>8, <1>13
      <4> QED
        BY <4>1, <4>4, <4>5, <1>1, <1>6, <1>7
    <3>2. CASE k = Len(asking) + 1
      <4>1. g[k].of = f.to /\ g[k].at = 1
        BY <3>2, <2>1, <2>2
      <4>2. ~ \E i : i \in 1..g[k].at - 1
        BY <4>1
      <4>3. memo'[f.to] = "no"
        BY <1>5, <1>8, <1>13
      <4> QED
        BY <4>1, <4>2, <4>3, <1>5, <1>6, <1>13
    <3> QED
      BY <3>0, <3>1, <3>2
  <2>6. Single(Field(Here))' /\ g[1].of = Field(Here)'.to
    BY <1>9, <1>10, <1>11, <2>2 DEF Single, Several, IsMessage
  <2>7. AskingInv'
    BY <2>4, <2>5, <2>6, <1>g DEF AskingInv
  <2> QED
    BY <2>3, <2>7 DEF AskInv
<1>14. CASE ~Counts(f) /\ (IsMessage(f) => memo[f.to] = "no") /\ asking' = Advanced(asking) /\ memo' = memo
  <2>1. Len(g) = Len(asking)
    BY <1>g, <1>1, <1>2, <1>14, AdvancedIs
  <2>2. \A k \in 1..Len(asking) - 1 : g[k] = asking[k]
    BY <1>g, <1>1, <1>2, <1>14, AdvancedIs
  <2>3. g[Len(asking)] = [c EXCEPT !.at = @ + 1]
    BY <1>g, <1>1, <1>2, <1>14, AdvancedIs
  <2>4. g[Len(asking)].of = c.of /\ g[Len(asking)].at = c.at + 1
    BY <2>3, <1>2 DEF Steady
  <2>5. \A k \in 1..Len(asking) : k = Len(asking) \/ k \in 1..Len(asking) - 1
    BY <1>2
  <2>6. \A k \in 1..Len(asking) : g[k].of = asking[k].of
    BY <2>2, <2>4, <2>5, <1>2
  <2>7. MemoInv'
    <3>1. ASSUME NEW m \in Messages PROVE Known(m)' \/ \E k \in 1..Len(g) : g[k].of = m
      <4>1. Known(m) => Known(m)'
        BY <1>6, <1>14 DEF Known
      <4> QED
        BY <4>1, <2>1, <2>6 DEF AskInv, MemoInv
    <3> QED
      BY <3>1, <1>g DEF MemoInv
  <2>8. Chained(asking)'
    <3>1. Chained(Advanced(asking))
      BY <1>1, <1>2, <1>c, ChainedSteps
    <3> QED
      BY <3>1, <1>1, <1>14 DEF Chained, AtField, Field
  <2>9. ASSUME NEW k \in 1..Len(g)
        PROVE  /\ Supported(g[k].of)' /\ memo'[g[k].of] = "no"
               /\ \A i \in 1..g[k].at - 1 : ~OwnRelation(schema[g[k].of][i])'
    <3>1. k \in 1..Len(asking)
      BY <2>1
    <3>2. /\ Supported(asking[k].of) /\ memo[asking[k].of] = "no"
          /\ \A i \in 1..asking[k].at - 1 : ~OwnRelation(schema[asking[k].of][i])
      BY <3>1 DEF AskInv, AskingInv
    <3>3. \A i \in 1..g[k].at - 1 : ~OwnRelation(schema[g[k].of][i])
      <4>1. CASE k = Len(asking)
        <5>1. \A i \in 1..g[k].at - 1 : i \in 1..c.at - 1 \/ i = c.at
          BY <4>1, <2>4, <1>2
        <5>2. ~OwnRelation(schema[c.of][c.at])
          BY <1>5, <1>14
        <5> QED
          BY <5>1, <5>2, <4>1, <2>4, <1>3
      <4>2. CASE k \in 1..Len(asking) - 1
        BY <4>2, <2>2, <3>2
      <4> QED
        BY <3>1, <4>1, <4>2, <2>5
    <3> QED
      BY <3>1, <3>2, <3>3, <2>6, <1>1, <1>6, <1>7, <1>14
  <2>10. Single(Field(Here))' /\ g[1].of = Field(Here)'.to
    BY <1>9, <1>10, <1>11, <2>6 DEF Single, Several, IsMessage
  <2>11. AskingInv'
    BY <2>8, <2>9, <2>10, <1>g DEF AskingInv
  <2> QED
    BY <2>7, <2>11 DEF AskInv
<1> QED
  BY <1>12, <1>13, <1>14, <1>c, <1>f DEF AskField

LEMMA AskEndValid == PlanType /\ AskInv /\ AskEnd => AskInv'
<1> SUFFICES ASSUME PlanType, AskInv, AskEnd PROVE AskInv'
  OBVIOUS
<1>c. PICK c : c = Last(asking)
  OBVIOUS
<1>1. asking # <<>> /\ ~AtField(c) /\ asking' = Front(asking) /\ UNCHANGED <<schema, calls, memo>>
  BY <1>c DEF AskEnd
<1>2. /\ SchemaType /\ c.of \in Messages /\ c.at \in Nat \ {0} /\ Supported(c.of) /\ memo[c.of] = "no"
      /\ Chained(asking) /\ Len(asking) \in Nat /\ Len(asking) >= 1 /\ c = asking[Len(asking)]
  BY <1>1, <1>c, AskingIs
<1>3. \A i \in 1..c.at - 1 : ~OwnRelation(schema[c.of][i])
  BY <1>1, <1>c, AskingIs
<1>4. Len(asking) \in 1..Len(asking)
  BY <1>2
<1>5. c.at <= Len(schema[c.of]) + 1 /\ Len(schema[c.of]) \in Nat
  BY <1>2, <1>4, StepIs DEF Chained
<1>6. c.at - 1 = Len(schema[c.of])
  BY <1>1, <1>2, <1>5 DEF AtField
<1>7. ~Spread(c.of)
  BY <1>2, <1>3, <1>6, SpreadIs
<1>8. memo' = [memo EXCEPT ![c.of] = "no"]
  BY <1>1, <1>2 DEF PlanType
<1> QED
  BY <1>1, <1>7, <1>8, <1>c, AnswerAsk

LEMMA AskKept ==
  PlanType /\ SupportedInv /\ CallsInv /\ AskInv /\ [PlanNext]_planVars => AskInv'
<1> SUFFICES ASSUME PlanType, SupportedInv, CallsInv, AskInv, [PlanNext]_planVars PROVE AskInv'
  OBVIOUS
<1>1. CASE Ask
  BY <1>1, AskValid
<1>2. CASE AskField
  BY <1>2, AskFieldValid
<1>3. CASE AskEnd
  BY <1>3, AskEndValid
<1>4. CASE OpenRoot \/ CheckField \/ LeaveMessage \/ PlanRoot
  <2>1. asking = <<>>
    BY <1>4 DEF PlanType, OpenRoot, CheckField, LeaveMessage, PlanRoot
  <2> QED
    BY <1>4, <2>1, AskStays DEF OpenRoot, CheckField, LeaveMessage, PlanRoot
<1>5. CASE PlanChild \/ PlanColumn \/ EndColumns
  BY <1>5, AskStays DEF PlanChild, PlanColumn, EndColumns, Planning
<1>6. CASE UNCHANGED planVars
  BY <1>6, AskStays DEF planVars
<1> QED
  BY <1>1, <1>2, <1>3, <1>4, <1>5, <1>6 DEF PlanNext

-----------------------------------------------------------------------------
(* How the calls pass over the ways, one after the other. *)

\* A sequence begins with another.
Under(b, s) == Len(b) <= Len(s) /\ \A j \in 1..Len(b) : s[j] = b[j]

LEMMA BehindAppend ==
  ASSUME NEW b \in Seq(Frames), NEW e \in Frames, NEW s \in Seq(Frames)
  PROVE  Behind(Append(b, e), s) <=>
           \/ Behind(b, s)
           \/ Under(b, s) /\ (Len(s) = Len(b) \/ (Len(s) > Len(b) /\ s[Len(b) + 1].of = e.of /\ s[Len(b) + 1].at < e.at))
<1>c. PICK c : c = Append(b, e)
  OBVIOUS
<1>n. PICK n : n = Len(b)
  OBVIOUS
<1>l. PICK l : l = Len(s)
  OBVIOUS
<1>1. n \in Nat /\ l \in Nat /\ Len(c) = n + 1 /\ c[n + 1] = e /\ \A k \in 1..n : c[k] = b[k]
  BY <1>c, <1>n, <1>l, AppendIs
<1>2. \A k \in 1..n + 1 : k \in 1..n \/ k = n + 1
  BY <1>1
<1>3. \A k \in 1..n : k \in 1..n + 1 /\ \A j \in 1..k - 1 : j \in 1..n
  BY <1>1
<1>4. n + 1 \in 1..n + 1 /\ n + 1 - 1 = n
  BY <1>1
<1>5. ASSUME Behind(c, s)
      PROVE  Behind(b, s) \/ (Under(b, s) /\ (l = n \/ (l > n /\ s[n + 1].of = e.of /\ s[n + 1].at < e.at)))
  <2>1. CASE \E k \in 1..n + 1 : /\ k <= l /\ \A j \in 1..k - 1 : s[j] = c[j]
                                 /\ s[k].of = c[k].of /\ s[k].at < c[k].at
    <3>1. PICK k \in 1..n + 1 : /\ k <= l /\ \A j \in 1..k - 1 : s[j] = c[j]
                                /\ s[k].of = c[k].of /\ s[k].at < c[k].at
      BY <2>1
    <3>2. CASE k \in 1..n
      <4>1. \A j \in 1..k - 1 : s[j] = b[j]
        BY <3>1, <3>2, <1>1, <1>3
      <4> QED
        BY <3>1, <3>2, <4>1, <1>1, <1>n, <1>l DEF Behind
    <3>3. CASE k = n + 1
      <4>0. \A j \in 1..n : j \in 1..k - 1
        BY <3>3, <1>1
      <4>1. \A j \in 1..n : s[j] = b[j]
        BY <3>1, <4>0, <1>1
      <4>2. n <= l /\ l > n
        BY <3>1, <3>3, <1>1
      <4> QED
        BY <3>1, <3>3, <4>1, <4>2, <1>1, <1>n, <1>l DEF Under
    <3> QED
      BY <3>2, <3>3, <1>2
  <2>2. CASE l < n + 1 /\ \A j \in 1..l : s[j] = c[j]
    <3>1. \A j \in 1..l : j \in 1..n
      BY <2>2, <1>1
    <3>2. \A j \in 1..l : s[j] = b[j]
      BY <3>1, <2>2, <1>1
    <3>3. CASE l < n
      BY <3>2, <3>3, <1>n, <1>l DEF Behind
    <3>4. CASE l = n
      <4>1. n <= l
        BY <3>4, <1>1
      <4> QED
        BY <4>1, <3>2, <3>4, <1>n, <1>l DEF Under
    <3>5. l < n \/ l = n
      BY <2>2, <1>1
    <3> QED
      BY <3>3, <3>4, <3>5
  <2> QED
    BY <2>1, <2>2, <1>5, <1>1, <1>l DEF Behind
<1>6. ASSUME Behind(b, s) PROVE Behind(c, s)
  <2>1. CASE \E k \in 1..n : /\ k <= l /\ \A j \in 1..k - 1 : s[j] = b[j]
                             /\ s[k].of = b[k].of /\ s[k].at < b[k].at
    <3>1. PICK k \in 1..n : /\ k <= l /\ \A j \in 1..k - 1 : s[j] = b[j]
                            /\ s[k].of = b[k].of /\ s[k].at < b[k].at
      BY <2>1
    <3>2. \A j \in 1..k - 1 : s[j] = c[j]
      BY <3>1, <1>1, <1>3
    <3>3. k \in 1..Len(c) /\ c[k] = b[k]
      BY <1>1, <1>3
    <3> QED
      BY <3>1, <3>2, <3>3, <1>l DEF Behind
  <2>2. CASE l < n /\ \A j \in 1..l : s[j] = b[j]
    <3>1. l < Len(c) /\ \A j \in 1..l : j \in 1..n
      BY <2>2, <1>1
    <3>2. \A j \in 1..l : s[j] = c[j]
      BY <3>1, <2>2, <1>1
    <3> QED
      BY <3>1, <3>2, <1>l DEF Behind
  <2> QED
    BY <2>1, <2>2, <1>6, <1>n, <1>l DEF Behind
<1>7. ASSUME Under(b, s), l = n \/ (l > n /\ s[n + 1].of = e.of /\ s[n + 1].at < e.at)
      PROVE  Behind(c, s)
  <2>1. \A j \in 1..n : s[j] = c[j]
    BY <1>7, <1>1, <1>n DEF Under
  <2>2. CASE l = n
    <3>1. l < Len(c)
      BY <2>2, <1>1
    <3> QED
      BY <2>1, <2>2, <3>1, <1>l DEF Behind
  <2>3. CASE l > n /\ s[n + 1].of = e.of /\ s[n + 1].at < e.at
    <3>1. n + 1 \in 1..Len(c) /\ n + 1 <= l
      BY <2>3, <1>1
    <3>2. \A j \in 1..n + 1 - 1 : s[j] = c[j]
      BY <2>1, <1>4
    <3> QED
      BY <2>3, <3>1, <3>2, <1>1, <1>l DEF Behind
  <2> QED
    BY <2>2, <2>3, <1>7
<1> QED
  BY <1>5, <1>6, <1>7, <1>c, <1>n, <1>l

LEMMA NothingBehind ==
  ASSUME NEW s \in Seq(Frames)
  PROVE  ~Behind(<<>>, s)
<1>1. Len(s) \in Nat /\ Len(<<>>) = 0
  OBVIOUS
<1>2. ~(Len(s) < 0) /\ ~ \E k : k \in 1..0
  BY <1>1
<1> QED
  BY <1>1, <1>2 DEF Behind

\* A way that is entered is all that comes to be behind.
LEMMA EnterBehind ==
  ASSUME NEW b \in Seq(Frames), NEW e \in Frames, e.at = 1, NEW s \in Seq(Frames)
  PROVE  Behind(Append(b, e), s) <=> Behind(b, s) \/ s = b
<1>n. PICK n : n = Len(b)
  OBVIOUS
<1>l. PICK l : l = Len(s)
  OBVIOUS
<1>1. n \in Nat /\ l \in Nat
  BY <1>n, <1>l
<1>2. ASSUME l > n PROVE ~(s[n + 1].at < e.at)
  <2>1. n + 1 \in 1..l
    BY <1>1, <1>2
  <2>2. s[n + 1] \in Frames
    BY <2>1, <1>l, ElementOfSeq
  <2>3. s[n + 1].at \in Nat \ {0}
    BY <2>2 DEF Frames
  <2> QED
    BY <2>3
<1>3. Under(b, s) /\ l = n <=> s = b
  <2>1. ASSUME Under(b, s), l = n PROVE s = b
    BY <2>1, <1>n, <1>l, SeqEqual DEF Under
  <2>2. ASSUME s = b PROVE Under(b, s) /\ l = n
    <3>1. n <= l /\ l = n
      BY <2>2, <1>n, <1>l, <1>1
    <3> QED
      BY <2>2, <3>1, <1>n, <1>l DEF Under
  <2> QED
    BY <2>1, <2>2
<1> QED
  BY <1>2, <1>3, <1>n, <1>l, BehindAppend

\* What follows a step, and no more, is behind when the step is.
LEMMA PassBehind ==
  ASSUME NEW b \in Seq(Frames), NEW e \in Frames, NEW g \in Frames, g.of = e.of, g.at = e.at + 1,
         NEW s \in Seq(Frames)
  PROVE  Behind(Append(b, g), s) <=> Behind(Append(b, e), s) \/ Under(Append(b, e), s)
<1>n. PICK n : n = Len(b)
  OBVIOUS
<1>l. PICK l : l = Len(s)
  OBVIOUS
<1>c. PICK c : c = Append(b, e)
  OBVIOUS
<1>1. n \in Nat /\ l \in Nat /\ Len(c) = n + 1 /\ c[n + 1] = e /\ \A k \in 1..n : c[k] = b[k]
  BY <1>c, <1>n, <1>l, AppendIs
<1>2. e.at \in Nat /\ e = [of |-> e.of, at |-> e.at]
  BY DEF Frames
<1>3. ASSUME l > n
      PROVE  /\ s[n + 1].at < g.at <=> s[n + 1].at < e.at \/ s[n + 1].at = e.at
             /\ s[n + 1].of = e.of /\ s[n + 1].at = e.at <=> s[n + 1] = e
  <2>1. n + 1 \in 1..l
    BY <1>1, <1>3
  <2>2. s[n + 1] \in Frames
    BY <2>1, <1>l, ElementOfSeq
  <2>3. s[n + 1].at \in Nat /\ s[n + 1] = [of |-> s[n + 1].of, at |-> s[n + 1].at]
    BY <2>2 DEF Frames
  <2>4. s[n + 1].at < g.at <=> s[n + 1].at < e.at \/ s[n + 1].at = e.at
    BY <2>3, <1>2
  <2>5. s[n + 1].of = e.of /\ s[n + 1].at = e.at <=> s[n + 1] = e
    BY <2>3, <1>2
  <2> QED
    BY <2>4, <2>5
<1>4. Under(c, s) <=> Under(b, s) /\ l > n /\ s[n + 1] = e
  <2>1. ASSUME Under(c, s) PROVE Under(b, s) /\ l > n /\ s[n + 1] = e
    <3>1. n + 1 <= l /\ \A j \in 1..n + 1 : s[j] = c[j]
      BY <2>1, <1>1, <1>l DEF Under
    <3>2. n <= l /\ l > n /\ n + 1 \in 1..n + 1 /\ \A j \in 1..n : j \in 1..n + 1
      BY <3>1, <1>1
    <3>3. \A j \in 1..n : s[j] = b[j]
      BY <3>1, <3>2, <1>1
    <3> QED
      BY <3>1, <3>2, <3>3, <1>1, <1>n, <1>l DEF Under
  <2>2. ASSUME Under(b, s), l > n, s[n + 1] = e PROVE Under(c, s)
    <3>1. n + 1 <= l /\ \A j \in 1..n + 1 : j \in 1..n \/ j = n + 1
      BY <2>2, <1>1
    <3>2. \A j \in 1..n + 1 : s[j] = c[j]
      BY <2>2, <3>1, <1>1, <1>n DEF Under
    <3> QED
      BY <3>1, <3>2, <1>1, <1>l DEF Under
  <2> QED
    BY <2>1, <2>2
<1>5. Behind(Append(b, g), s) <=>
        Behind(b, s) \/ (Under(b, s) /\ (l = n \/ (l > n /\ s[n + 1].of = e.of /\ s[n + 1].at < g.at)))
  BY <1>n, <1>l, BehindAppend
<1>6. Behind(c, s) <=>
        Behind(b, s) \/ (Under(b, s) /\ (l = n \/ (l > n /\ s[n + 1].of = e.of /\ s[n + 1].at < e.at)))
  BY <1>n, <1>l, <1>c, BehindAppend
<1> QED
  BY <1>3, <1>4, <1>5, <1>6, <1>c

\* The way to a call ends in the step of the call before it.
LEMMA WayToGrows ==
  ASSUME NEW T, Steady(T), NEW s \in Seq(T), NEW n \in 1..Len(s)
  PROVE  /\ WayTo(s, n - 1) \in Seq(Frames) /\ Len(WayTo(s, n - 1)) = n - 1
         /\ WayTo(s, n) = Append(WayTo(s, n - 1), [of |-> s[n].of, at |-> s[n].at])
         /\ WayTo(s, n) \in Seq(Frames) /\ Len(WayTo(s, n)) = n
         /\ [of |-> s[n].of, at |-> s[n].at] \in Frames
<1>l. PICK l : l = n - 1
  OBVIOUS
<1>1. l \in Nat /\ n \in Nat /\ n = l + 1 /\ (\A k \in 1..l : k \in 1..n /\ k # n) /\ n \in 1..n
      /\ \A k \in 1..n : k \in 1..l \/ k = n
  BY <1>l
<1>2. \A k \in 1..n : s[k] \in T
  BY <1>1, ElementOfSeq
<1>3. \A k \in 1..n : s[k].of \in Messages /\ s[k].at \in Nat \ {0}
  BY <1>2 DEF Steady
<1>4. \A k \in 1..n : [of |-> s[k].of, at |-> s[k].at] \in Frames
  BY <1>3 DEF Frames
<1>e. PICK e : e = [of |-> s[n].of, at |-> s[n].at]
  OBVIOUS
<1>a. PICK a : a = WayTo(s, l)
  OBVIOUS
<1>b. PICK b : b = WayTo(s, n)
  OBVIOUS
<1>5. a \in Seq(Frames) /\ Len(a) = l /\ \A k \in 1..l : a[k] = [of |-> s[k].of, at |-> s[k].at]
  BY <1>1, <1>4, <1>a DEF WayTo
<1>6. b \in Seq(Frames) /\ Len(b) = n /\ \A k \in 1..n : b[k] = [of |-> s[k].of, at |-> s[k].at]
  BY <1>1, <1>4, <1>b DEF WayTo
<1>7. e \in Frames /\ b[n] = e
  BY <1>1, <1>4, <1>6, <1>e
<1>8. Append(a, e) \in Seq(Frames) /\ Len(Append(a, e)) = n /\ Append(a, e)[n] = e
      /\ \A k \in 1..l : Append(a, e)[k] = a[k]
  BY <1>1, <1>5, <1>7, AppendIs
<1>9. \A k \in 1..n : b[k] = Append(a, e)[k]
  BY <1>1, <1>5, <1>6, <1>7, <1>8
<1>10. b = Append(a, e)
  BY <1>6, <1>8, <1>9, SeqEqual
<1> QED
  BY <1>5, <1>6, <1>7, <1>10, <1>a, <1>b, <1>e, <1>l

LEMMA SameWayTo ==
  ASSUME NEW s, NEW t, NEW n \in Nat,
         \A k \in 1..n : s[k].of = t[k].of /\ s[k].at = t[k].at
  PROVE  WayTo(s, n) = WayTo(t, n)
BY DEF WayTo

-----------------------------------------------------------------------------
(* Names and places. *)

\* f is what FlattenSeq computes, as far as n.
Flattens(f, ss, n) ==
  f = [i \in 1..n |-> IF i = 1 THEN ss[i] ELSE f[i - 1] \o ss[i]]

LEMMA FlattensAgree ==
  ASSUME NEW ss, NEW tt, NEW f, NEW g, NEW n \in Nat, NEW m \in Nat, n <= m,
         Flattens(f, ss, n), Flattens(g, tt, m), \A i \in 1..n : ss[i] = tt[i]
  PROVE  \A i \in 1..n : f[i] = g[i]
<1> DEFINE T == {i \in 1..n : f[i] # g[i]}
<1>1. SUFFICES ASSUME T # {} PROVE FALSE
  OBVIOUS
<1>2. T \in SUBSET Nat
  OBVIOUS
<1> HIDE DEF T
<1>3. PICK i \in T : \A j \in T : i <= j
  BY <1>1, <1>2, LeastNumber
<1>4. i \in 1..n /\ i \in 1..m /\ f[i] # g[i]
  BY <1>3 DEF T
<1>5. f[i] = (IF i = 1 THEN ss[i] ELSE f[i - 1] \o ss[i])
  BY <1>4 DEF Flattens
<1>6. g[i] = (IF i = 1 THEN tt[i] ELSE g[i - 1] \o tt[i])
  BY <1>4 DEF Flattens
<1>7. i # 1
  BY <1>4, <1>5, <1>6
<1>8. i - 1 \in 1..n /\ ~ (i <= i - 1)
  BY <1>4, <1>7
<1>9. f[i - 1] = g[i - 1]
  BY <1>3, <1>8 DEF T
<1> QED
  BY <1>4, <1>5, <1>6, <1>7, <1>9

LEMMA FlattensExists ==
  ASSUME NEW ss
  PROVE  \A n \in Nat \ {0} : \E f : Flattens(f, ss, n)
<1> DEFINE T == {n \in Nat \ {0} : ~ \E f : Flattens(f, ss, n)}
<1>1. SUFFICES ASSUME T # {} PROVE FALSE
  OBVIOUS
<1>2. T \in SUBSET Nat
  OBVIOUS
<1> HIDE DEF T
<1>3. PICK n \in T : \A j \in T : n <= j
  BY <1>1, <1>2, LeastNumber
<1>4. n \in Nat \ {0} /\ ~ \E f : Flattens(f, ss, n)
  BY <1>3 DEF T
<1>5. n # 1
  <2>1. Flattens([i \in 1..1 |-> ss[i]], ss, 1)
    BY DEF Flattens
  <2> QED
    BY <1>4, <2>1
<1>6. n - 1 \in Nat \ {0} /\ ~ (n <= n - 1)
  BY <1>4, <1>5
<1>7. PICK f : Flattens(f, ss, n - 1)
  BY <1>3, <1>6 DEF T
<1> DEFINE g == [i \in 1..n |-> IF i = n THEN f[n - 1] \o ss[n] ELSE f[i]]
<1>8. \A i \in 1..n : g[i] = IF i = 1 THEN ss[i] ELSE g[i - 1] \o ss[i]
  <2>1. TAKE i \in 1..n
  <2>2. CASE i = n
    <3>1. n - 1 \in 1..n /\ n \in 1..n /\ n - 1 # n
      BY <1>4, <1>5
    <3>2. g[n] = f[n - 1] \o ss[n] /\ g[n - 1] = f[n - 1]
      BY <3>1
    <3> QED
      BY <1>5, <2>2, <3>2
  <2>3. CASE i # n
    <3>1. i \in 1..n - 1 /\ i - 1 # n
      BY <1>4, <2>1, <2>3
    <3>2. f[i] = (IF i = 1 THEN ss[i] ELSE f[i - 1] \o ss[i])
      BY <1>7, <3>1 DEF Flattens
    <3>3. i # 1 => i - 1 \in 1..n
      BY <1>4, <3>1
    <3> QED
      BY <2>3, <3>1, <3>2, <3>3
  <2> QED
    BY <2>2, <2>3
<1>9. Flattens(g, ss, n)
  <2> DEFINE h == [i \in 1..n |-> IF i = 1 THEN ss[i] ELSE g[i - 1] \o ss[i]]
  <2>1. DOMAIN g = DOMAIN h /\ \A i \in 1..n : g[i] = h[i]
    BY <1>8
  <2>2. g = h
    BY <2>1
  <2> QED
    BY <2>2 DEF Flattens
<1> QED
  BY <1>4, <1>9

LEMMA FlattenIs ==
  ASSUME NEW ss, Len(ss) \in Nat \ {0}
  PROVE  \E f : Flattens(f, ss, Len(ss)) /\ FlattenSeq(ss) = f[Len(ss)]
<1> DEFINE n == Len(ss)
           f == CHOOSE flatten : flatten =
                  [i \in 1..n |-> IF i = 1 THEN ss[i] ELSE flatten[i - 1] \o ss[i]]
<1>1. Len(ss) # 0
  OBVIOUS
<1>2. FlattenSeq(ss) = f[n]
  BY <1>1, Zenon DEF FlattenSeq
<1>3. \E g : g = [i \in 1..n |-> IF i = 1 THEN ss[i] ELSE g[i - 1] \o ss[i]]
  BY FlattensExists DEF Flattens
<1>4. f = [i \in 1..n |-> IF i = 1 THEN ss[i] ELSE f[i - 1] \o ss[i]]
  BY <1>3, Zenon
<1> HIDE DEF f
<1> QED
  BY <1>2, <1>4 DEF Flattens

\* FlattenSeq puts one sequence after another.
LEMMA FlattenAppend ==
  ASSUME NEW S, NEW e, NEW n \in Nat, \A i \in 1..n + 1 : e[i] \in Seq(S)
  PROVE  /\ FlattenSeq([i \in 1..n + 1 |-> e[i]]) = FlattenSeq([i \in 1..n |-> e[i]]) \o e[n + 1]
         /\ n = 0 => FlattenSeq([i \in 1..n |-> e[i]]) = <<>>
<1> DEFINE one == [i \in 1..n |-> e[i]]
           two == [i \in 1..n + 1 |-> e[i]]
<1>1. one \in Seq(Seq(S)) /\ Len(one) = n /\ two \in Seq(Seq(S)) /\ Len(two) = n + 1
  <2>1. one \in [1..n -> Seq(S)] /\ two \in [1..n + 1 -> Seq(S)]
    OBVIOUS
  <2>2. n + 1 \in Nat
    OBVIOUS
  <2> HIDE DEF one, two
  <2> QED
    BY <2>1, <2>2
<1>2. \A i \in 1..n : one[i] = two[i]
  OBVIOUS
<1>3. two[n + 1] = e[n + 1] /\ e[n + 1] \in Seq(S)
  OBVIOUS
<1> HIDE DEF one, two
<1>4. n = 0 => one = <<>> /\ FlattenSeq(one) = <<>>
  <2>1. n = 0 => one = <<>>
    BY <1>1
  <2>2. n = 0 => FlattenSeq(one) = one
    BY <1>1 DEF FlattenSeq
  <2> QED
    BY <2>1, <2>2
<1>5. n + 1 \in Nat \ {0}
  OBVIOUS
<1>6. PICK f : Flattens(f, two, n + 1) /\ FlattenSeq(two) = f[n + 1]
  BY <1>1, <1>5, FlattenIs
<1>7. n + 1 \in 1..n + 1
  OBVIOUS
<1>8. f[n + 1] = IF n + 1 = 1 THEN two[n + 1] ELSE f[n + 1 - 1] \o two[n + 1]
  <2>1. \A k \in 1..n + 1 : f[k] = IF k = 1 THEN two[k] ELSE f[k - 1] \o two[k]
    <3>1. SUFFICES ASSUME NEW k \in 1..n + 1
                   PROVE  f[k] = IF k = 1 THEN two[k] ELSE f[k - 1] \o two[k]
      OBVIOUS
    <3> QED
      BY <1>6 DEF Flattens
  <2> QED
    BY <1>7, <2>1
<1>9. CASE n = 0
  <2>1. FlattenSeq(two) = e[n + 1]
    BY <1>3, <1>6, <1>8, <1>9
  <2>2. <<>> \o e[n + 1] = e[n + 1]
    BY <1>3, ConcatEmptySeq
  <2> QED
    BY <1>4, <1>9, <2>1, <2>2 DEF one, two
<1>10. CASE n # 0
  <2>1. PICK g : Flattens(g, one, n) /\ FlattenSeq(one) = g[n]
    BY <1>1, <1>10, FlattenIs
  <2>2. g[n] = f[n]
    BY <1>2, <1>6, <1>10, <2>1, FlattensAgree
  <2>3. n + 1 # 1 /\ n + 1 - 1 = n
    BY <1>10
  <2>4. FlattenSeq(two) = FlattenSeq(one) \o e[n + 1]
    BY <1>3, <1>6, <1>8, <2>1, <2>2, <2>3
  <2> QED
    BY <1>10, <2>4 DEF one, two
<1> QED
  BY <1>9, <1>10

\* FlattenSeq has the elements of the sequences.
LEMMA FlattenType ==
  ASSUME NEW S, NEW e, NEW m \in Nat, \A i \in 1..m : e[i] \in Seq(S)
  PROVE  \A n \in 0..m : FlattenSeq([i \in 1..n |-> e[i]]) \in Seq(S)
<1> DEFINE G(n) == FlattenSeq([i \in 1..n |-> e[i]])
           T == {n \in 0..m : G(n) \notin Seq(S)}
<1>1. SUFFICES ASSUME T # {} PROVE FALSE
  OBVIOUS
<1>2. T \in SUBSET Nat
  OBVIOUS
<1> HIDE DEF T
<1>3. PICK n \in T : \A j \in T : n <= j
  BY <1>1, <1>2, LeastNumber
<1>4. n \in 0..m /\ G(n) \notin Seq(S)
  BY <1>3 DEF T
<1>5. n # 0
  <2>1. G(0) = <<>>
    <3>1. [i \in 1..0 |-> e[i]] = <<>>
      OBVIOUS
    <3>2. Len(<<>>) = 0
      OBVIOUS
    <3> QED
      BY <3>1, <3>2 DEF FlattenSeq
  <2> QED
    BY <1>4, <2>1
<1>6. n - 1 \in 0..m /\ n - 1 \in Nat /\ n - 1 + 1 = n /\ ~ (n <= n - 1)
  BY <1>4, <1>5
<1>7. G(n - 1) \in Seq(S)
  BY <1>3, <1>6 DEF T
<1>8. \A i \in 1..n : e[i] \in Seq(S)
  BY <1>4
<1>9. G(n) = G(n - 1) \o e[n]
  <2> DEFINE k == n - 1
  <2>1. k \in Nat /\ \A i \in 1..k + 1 : e[i] \in Seq(S)
    BY <1>6, <1>8
  <2> HIDE DEF k
  <2>2. G(k + 1) = G(k) \o e[k + 1]
    BY <2>1, FlattenAppend
  <2> QED
    BY <1>6, <2>2 DEF k
<1>10. n \in 1..n
  BY <1>4, <1>5
<1> HIDE DEF G
<1> QED
  BY <1>4, <1>7, <1>8, <1>9, <1>10, ConcatProperties

\* A name grows with its way.
LEMMA NameGrows ==
  ASSUME SchemaType, NEW i \in 1..Len(PlanRoots), NEW b \in Seq(Steps), NEW e \in Steps
  PROVE  /\ NameAt([root |-> i, way |-> Append(b, e)]) = NameAt([root |-> i, way |-> b]) \o Field(e).name
         /\ NameAt([root |-> i, way |-> <<>>]) = PlanRoots[i].name
<1>n. PICK n : n = Len(b)
  OBVIOUS
<1>w. PICK w : w = Append(b, e)
  OBVIOUS
<1>r. PICK r : r = PlanRoots[i].name
  OBVIOUS
<1>1. n \in Nat /\ w \in Seq(Steps) /\ Len(w) = n + 1 /\ w[n + 1] = e /\ \A k \in 1..n : w[k] = b[k]
  BY <1>n, <1>w, AppendIs
<1>2. r \in Seq(STRING)
  BY <1>r, RootIs
<1>3. \A s \in Steps : Field(s).name \in Seq(STRING)
  BY StepIs DEF Fields
<1> DEFINE g == [k \in 1..n + 1 |-> Field(w[k]).name]
<1>4. \A k \in 1..n + 1 : g[k] \in Seq(STRING)
  BY <1>1, <1>3, ElementOfSeq
<1>5. [k \in 1..n + 1 |-> g[k]] = [k \in 1..Len(w) |-> Field(w[k]).name]
  BY <1>1
<1>6. [k \in 1..n |-> g[k]] = [k \in 1..Len(b) |-> Field(b[k]).name]
  <2>1. \A k \in 1..n : g[k] = Field(b[k]).name
    BY <1>1
  <2> QED
    BY <2>1, <1>n
<1>7. g[n + 1] = Field(e).name
  BY <1>1
<1> HIDE DEF g
<1>8. FlattenSeq([k \in 1..n + 1 |-> g[k]]) = FlattenSeq([k \in 1..n |-> g[k]]) \o g[n + 1]
  BY <1>1, <1>4, FlattenAppend
<1>9. FlattenSeq([k \in 1..n |-> g[k]]) \in Seq(STRING) /\ g[n + 1] \in Seq(STRING)
  <2>1. n \in 0..n + 1 /\ n + 1 \in Nat /\ n + 1 \in 1..n + 1
    BY <1>1
  <2>2. \A j \in 0..n + 1 : FlattenSeq([k \in 1..j |-> g[k]]) \in Seq(STRING)
    BY <2>1, <1>4, FlattenType
  <2>3. FlattenSeq([k \in 1..n |-> g[k]]) \in Seq(STRING)
    BY <2>1, <2>2
  <2> QED
    BY <2>1, <2>3, <1>4
<1>10. r \o (FlattenSeq([k \in 1..n |-> g[k]]) \o g[n + 1]) = (r \o FlattenSeq([k \in 1..n |-> g[k]])) \o g[n + 1]
  <2> PICK x : x = FlattenSeq([k \in 1..n |-> g[k]])
    OBVIOUS
  <2> PICK y : y = g[n + 1]
    OBVIOUS
  <2>1. x \in Seq(STRING) /\ y \in Seq(STRING)
    BY <1>9
  <2>2. r \o (x \o y) = (r \o x) \o y
    <3>1. \A S : \A c, d, h \in Seq(S) : (c \o d) \o h = c \o (d \o h)
      BY ConcatAssociative
    <3>2. \A c, d, h \in Seq(STRING) : (c \o d) \o h = c \o (d \o h)
      BY ONLY <3>1
    <3>3. \A d, h \in Seq(STRING) : (r \o d) \o h = r \o (d \o h)
      BY <3>2, <1>2
    <3> QED
      BY <3>3, <2>1
  <2> QED
    BY <2>2
<1>11. NameAt([root |-> i, way |-> w]) = r \o FlattenSeq([k \in 1..n + 1 |-> g[k]])
  BY <1>5, <1>r DEF NameAt
<1>12. NameAt([root |-> i, way |-> b]) = r \o FlattenSeq([k \in 1..n |-> g[k]])
  BY <1>6, <1>r DEF NameAt
<1>13. NameAt([root |-> i, way |-> <<>>]) = r
  <2>1. Len(<<>>) = 0
    OBVIOUS
  <2>2. [k \in 1..0 |-> Field(<<>>[k]).name] = <<>>
    OBVIOUS
  <2>3. FlattenSeq(<<>>) = <<>>
    BY <2>1 DEF FlattenSeq
  <2>4. r \o <<>> = r
    BY <1>2, ConcatEmptySeq
  <2> QED
    BY <2>1, <2>2, <2>3, <2>4, <1>r DEF NameAt
<1> QED
  BY <1>7, <1>8, <1>10, <1>11, <1>12, <1>13, <1>w, <1>r

\* A place: a way from a root to a field that has a relation of its own.
LEMMA PlaceIs ==
  ASSUME NEW p \in Places
  PROVE  /\ p.root \in 1..Len(PlanRoots) /\ p = [root |-> p.root, way |-> p.way]
         /\ p.way \in Ways(PlanRoots[p.root].of) /\ IsWay(PlanRoots[p.root].of, p.way)
         /\ p.way \in Seq(Steps) /\ Len(p.way) \in Nat
         /\ p.way # <<>> => OwnRelation(Field(Last(p.way)))
<1>1. PICK i \in 1..Len(PlanRoots) :
        p \in {[root |-> i, way |-> s] :
                 s \in {t \in Ways(PlanRoots[i].of) : t # <<>> => OwnRelation(Field(Last(t)))}}
  BY DEF Places
<1>2. PICK s \in {t \in Ways(PlanRoots[i].of) : t # <<>> => OwnRelation(Field(Last(t)))} :
        p = [root |-> i, way |-> s]
  BY <1>1
<1>3. p.root = i /\ p.way = s
  BY <1>2
<1>4. IsWay(PlanRoots[i].of, s)
  BY <1>2, WaysAre
<1> QED
  BY <1>2, <1>3, <1>4 DEF IsWay

LEMMA IsPlace ==
  ASSUME SchemaType, NEW i \in 1..Len(PlanRoots), Supported(PlanRoots[i].of), NEW s,
         IsWay(PlanRoots[i].of, s), s # <<>> => OwnRelation(Field(Last(s)))
  PROVE  [root |-> i, way |-> s] \in Places
<1>1. PlanRoots[i].of \in Messages
  BY RootIs
<1>2. s \in Ways(PlanRoots[i].of)
  BY <1>1, AllWays
<1>3. [root |-> i, way |-> s] \in
        {[root |-> i, way |-> u] :
           u \in {t \in Ways(PlanRoots[i].of) : t # <<>> => OwnRelation(Field(Last(t)))}}
  BY <1>2
<1> QED
  BY <1>3 DEF Places

\* There is one way to tell a place from what is in it.
LEMMA SplitOnce ==
  ASSUME NEW u \in Seq(Steps), NEW v \in Seq(Steps), NEW t \in Seq(Steps), NEW x \in Seq(Steps),
         u \o t = v \o x, u # <<>> => OwnRelation(Field(Last(u))), v # <<>> => OwnRelation(Field(Last(v))),
         \A k \in 1..Len(t) : ~OwnRelation(Field(t[k])), \A k \in 1..Len(x) : ~OwnRelation(Field(x[k]))
  PROVE  u = v /\ t = x
<1>1. ASSUME NEW a \in Seq(Steps), NEW b \in Seq(Steps), NEW c \in Seq(Steps), NEW d \in Seq(Steps),
             a \o c = b \o d, b # <<>> => OwnRelation(Field(Last(b))),
             \A k \in 1..Len(c) : ~OwnRelation(Field(c[k])), Len(a) < Len(b)
      PROVE  FALSE
  <2>1. Len(a) \in Nat /\ Len(b) \in Nat /\ Len(c) \in Nat /\ Len(d) \in Nat
    OBVIOUS
  <2>2. b # <<>>
    BY <1>1, <2>1
  <2>3. Len(a) + Len(c) = Len(b) + Len(d)
    <3>1. Len(a \o c) = Len(a) + Len(c)
      BY ConcatProperties
    <3>2. Len(b \o d) = Len(b) + Len(d)
      BY ConcatProperties
    <3> QED
      BY <3>1, <3>2, <1>1
  <2>k. PICK k : k = Len(b) - Len(a)
    OBVIOUS
  <2>4. k \in 1..Len(c) /\ Len(b) \in 1..Len(a) + Len(c) /\ Len(b) \in 1..Len(b) + Len(d) /\ ~(Len(b) <= Len(a))
        /\ Len(b) <= Len(b)
    BY <1>1, <2>1, <2>3, <2>k
  <2>5. (a \o c)[Len(b)] = c[k]
    <3>1. \A i \in 1..Len(a) + Len(c) : (a \o c)[i] = IF i <= Len(a) THEN a[i] ELSE c[i - Len(a)]
      BY ConcatProperties
    <3> QED
      BY <3>1, <2>4, <2>k
  <2>6. (b \o d)[Len(b)] = b[Len(b)]
    <3>1. \A i \in 1..Len(b) + Len(d) : (b \o d)[i] = IF i <= Len(b) THEN b[i] ELSE d[i - Len(b)]
      BY ConcatProperties
    <3> QED
      BY <3>1, <2>4
  <2>7. c[k] = Last(b)
    BY <2>5, <2>6, <1>1 DEF Last
  <2> QED
    BY <1>1, <2>2, <2>4, <2>7
<1>2. ~(Len(u) < Len(v)) /\ ~(Len(v) < Len(u))
  BY <1>1
<1>3. Len(u) \in Nat /\ Len(v) \in Nat /\ Len(t) \in Nat /\ Len(x) \in Nat
  OBVIOUS
<1>4. Len(u) = Len(v)
  BY <1>2, <1>3
<1>5. Len(u \o t) = Len(u) + Len(t) /\ \A i \in 1..Len(u) + Len(t) : (u \o t)[i] = IF i <= Len(u) THEN u[i] ELSE t[i - Len(u)]
  BY ConcatProperties
<1>6. Len(v \o x) = Len(v) + Len(x) /\ \A i \in 1..Len(v) + Len(x) : (v \o x)[i] = IF i <= Len(v) THEN v[i] ELSE x[i - Len(v)]
  BY ConcatProperties
<1>7. Len(t) = Len(x)
  <2>1. Len(u) + Len(t) = Len(u) + Len(x)
    BY <1>4, <1>5, <1>6
  <2> QED
    BY <2>1, <1>3
<1>8. \A i \in 1..Len(u) : u[i] = v[i]
  <2>1. \A i \in 1..Len(u) : i \in 1..Len(u) + Len(t) /\ i <= Len(u)
    BY <1>3
  <2> QED
    BY <2>1, <1>4, <1>5, <1>6, <1>7
<1>9. \A i \in 1..Len(t) : t[i] = x[i]
  <2> TAKE i \in 1..Len(t)
  <2>j. PICK j : j = Len(u) + i
    OBVIOUS
  <2>1. j \in 1..Len(u) + Len(t) /\ ~(j <= Len(u)) /\ j - Len(u) = i
    BY <2>j, <1>3
  <2>2. (u \o t)[j] = t[i]
    BY <2>1, <1>5
  <2>3. (v \o x)[j] = x[i]
    BY <2>1, <1>4, <1>6, <1>7
  <2> QED
    BY <2>2, <2>3
<1>10. u = v
  BY <1>4, <1>8, SeqEqual
<1>11. t = x
  BY <1>7, <1>9, SeqEqual
<1> QED
  BY <1>10, <1>11

LEMMA WayIsFrames ==
  ASSUME SchemaType, NEW m, NEW s, IsWay(m, s)
  PROVE  s \in Seq(Steps) /\ s \in Seq(Frames) /\ Len(s) \in Nat
<1>1. s \in Seq(Steps) /\ Len(s) \in Nat
  BY DEF IsWay
<1>2. \A k \in 1..Len(s) : s[k] \in Frames
  BY <1>1, StepIs, ElementOfSeq
<1>3. s = [k \in 1..Len(s) |-> s[k]]
  BY <1>1
<1> QED
  BY <1>1, <1>2, <1>3

\* What goes on from a way is not behind it.
LEMMA UnderIsAhead ==
  ASSUME NEW w \in Seq(Frames), NEW s \in Seq(Frames), Under(w, s)
  PROVE  ~Behind(w, s)
<1>1. Len(w) \in Nat /\ Len(s) \in Nat /\ Len(w) <= Len(s)
  BY DEF Under
<1>2. ASSUME NEW k \in 1..Len(w), s[k].at < w[k].at PROVE FALSE
  <2>1. s[k] = w[k] /\ w[k] \in Frames
    BY ElementOfSeq DEF Under
  <2>2. w[k].at \in Nat
    BY <2>1 DEF Frames
  <2> QED
    BY <2>1, <2>2, <1>2
<1>3. ~(Len(s) < Len(w))
  BY <1>1
<1> QED
  BY <1>2, <1>3 DEF Behind

LEMMA UnderItself ==
  ASSUME NEW w \in Seq(Frames)
  PROVE  Under(w, w) /\ \A t \in Seq(Frames) : Under(w, w \o t)
<1>1. Len(w) \in Nat
  OBVIOUS
<1>2. Under(w, w)
  BY <1>1 DEF Under
<1>3. ASSUME NEW t \in Seq(Frames) PROVE Under(w, w \o t)
  <2>1. Len(w \o t) = Len(w) + Len(t) /\ Len(t) \in Nat
    BY ConcatProperties
  <2>2. \A i \in 1..Len(w) + Len(t) : (w \o t)[i] = IF i <= Len(w) THEN w[i] ELSE t[i - Len(w)]
    BY ConcatProperties
  <2>3. \A i \in 1..Len(w) : i \in 1..Len(w) + Len(t) /\ i <= Len(w)
    BY <1>1, <2>1
  <2>4. Len(w) <= Len(w) + Len(t)
    BY <1>1, <2>1
  <2> QED
    BY <2>1, <2>2, <2>3, <2>4 DEF Under
<1> QED
  BY <1>2, <1>3

\* A way ends at a field of a scalar type.
LEMMA NoWayOn ==
  ASSUME SchemaType, NEW m, NEW w, IsWay(m, w), w # <<>>, ~IsMessage(Field(Last(w))),
         NEW s, IsWay(m, s), Under(w, s)
  PROVE  s = w
<1>1. s \in Seq(Steps) /\ w \in Seq(Steps) /\ Len(s) \in Nat /\ Len(w) \in Nat /\ Len(w) >= 1
  BY WayEnd, WayIsFrames
<1>2. Len(w) <= Len(s) /\ \A k \in 1..Len(w) : s[k] = w[k]
  BY DEF Under
<1>3. ASSUME Len(s) > Len(w) PROVE FALSE
  <2>1. Len(w) \in 1..Len(s) - 1 /\ Len(w) \in 1..Len(w) /\ Len(w) + 1 \in 1..Len(s)
    BY <1>1, <1>3
  <2>2. s[Len(w) + 1].of = Field(s[Len(w)]).to
    BY <2>1 DEF IsWay, Leads
  <2>3. Field(s[Len(w)]).to = "scalar"
    BY <2>1, <1>2 DEF IsMessage, Last
  <2>4. s[Len(w) + 1] \in Steps
    BY <2>1, <1>1, ElementOfSeq
  <2>5. s[Len(w) + 1].of \in Messages
    BY <2>4, StepIs
  <2> QED
    BY <2>2, <2>3, <2>5, MessagesAssumption
<1>4. Len(s) = Len(w)
  BY <1>1, <1>2, <1>3
<1> QED
  BY <1>1, <1>2, <1>4, SeqEqual

\* What is seen when a call is made, or goes on.
LEMMA EnterSeen ==
  ASSUME PlanType, NEW c \in ColumnCalls, c.at = 1, calls' = Append(calls, c), root' = root,
         NEW i, NEW s \in Seq(Frames)
  PROVE  Seen(i, s)' <=> Seen(i, s) \/ (i = root /\ s = WayTo(calls, Len(calls)))
<1>g. PICK g : g = calls'
  OBVIOUS
<1>n. PICK n : n = Len(calls)
  OBVIOUS
<1>1. calls \in Seq(ColumnCalls) /\ Steady(ColumnCalls) /\ n \in Nat
  BY <1>n, CallsSteady DEF PlanType
<1>2. g \in Seq(ColumnCalls) /\ Len(g) = n + 1 /\ g[n + 1] = c /\ \A k \in 1..n : g[k] = calls[k]
  BY <1>1, <1>g, <1>n, AppendIs
<1>3. n + 1 \in 1..Len(g) /\ n + 1 - 1 = n
  BY <1>1, <1>2
<1>4. WayTo(g, n) = WayTo(calls, n)
  BY <1>1, <1>2, SameWayTo
<1>e. PICK e : e = [of |-> c.of, at |-> c.at]
  OBVIOUS
<1>l. PICK l : l = n + 1
  OBVIOUS
<1>5. /\ WayTo(g, l - 1) \in Seq(Frames)
      /\ WayTo(g, l) = Append(WayTo(g, l - 1), [of |-> g[l].of, at |-> g[l].at])
      /\ [of |-> g[l].of, at |-> g[l].at] \in Frames
  <2>1. l \in 1..Len(g)
    BY <1>3, <1>l
  <2> QED
    BY <1>1, <1>2, <2>1, WayToGrows
<1>6. WayTo(calls, n) \in Seq(Frames) /\ WayTo(g, n + 1) = Append(WayTo(calls, n), e) /\ e \in Frames
  <2>1. l - 1 = n /\ g[l] = c
    BY <1>1, <1>2, <1>3, <1>l
  <2>2. WayTo(g, l - 1) = WayTo(calls, n)
    BY <2>1, <1>4
  <2> QED
    BY <2>1, <2>2, <1>5, <1>e, <1>l
<1>7. e.at = 1
  BY <1>e
<1>8. Behind(WayTo(g, n + 1), s) <=> Behind(WayTo(calls, n), s) \/ s = WayTo(calls, n)
  BY <1>6, <1>7, EnterBehind
<1>9. Seen(i, s)' <=> i < root \/ (i = root /\ Behind(WayTo(g, Len(g)), s))
  BY <1>g DEF Seen, Behind, WayTo
<1> QED
  BY <1>2, <1>8, <1>9, <1>n DEF Seen

LEMMA PassSeen ==
  ASSUME PlanType, calls # <<>>, calls' = Advanced(calls), root' = root, NEW i, NEW s \in Seq(Frames)
  PROVE  Seen(i, s)' <=> Seen(i, s) \/ (i = root /\ Under(WayTo(calls, Len(calls)), s))
<1>g. PICK g : g = calls'
  OBVIOUS
<1>n. PICK n : n = Len(calls)
  OBVIOUS
<1>1. calls \in Seq(ColumnCalls) /\ Steady(ColumnCalls) /\ n \in Nat /\ n >= 1 /\ n \in 1..n
  BY <1>n, CallsSteady, EmptySeq DEF PlanType
<1>2. g \in Seq(ColumnCalls) /\ Len(g) = n
  BY <1>1, <1>g, <1>n, AdvancedIs
<1>3. \A k \in 1..n - 1 : g[k] = calls[k]
  BY <1>1, <1>g, <1>n, AdvancedIs
<1>4. g[n] = [calls[n] EXCEPT !.at = @ + 1]
  BY <1>1, <1>g, <1>n, AdvancedIs
<1>5. calls[n] \in ColumnCalls
  BY <1>1, <1>n, ElementOfSeq
<1>6. g[n].of = calls[n].of /\ g[n].at = calls[n].at + 1
  BY <1>1, <1>4, <1>5 DEF Steady
<1>b. PICK b : b = WayTo(calls, n - 1)
  OBVIOUS
<1>7. WayTo(g, n - 1) = b
  <2>1. n - 1 \in Nat
    BY <1>1
  <2> QED
    BY <2>1, <1>3, <1>b, SameWayTo
<1>e. PICK e : e = [of |-> calls[n].of, at |-> calls[n].at]
  OBVIOUS
<1>h. PICK h : h = [of |-> g[n].of, at |-> g[n].at]
  OBVIOUS
<1>8. b \in Seq(Frames) /\ WayTo(calls, n) = Append(b, e) /\ e \in Frames
  BY <1>1, <1>b, <1>e, <1>n, WayToGrows
<1>9. WayTo(g, n) = Append(b, h) /\ h \in Frames
  BY <1>1, <1>2, <1>7, <1>h, WayToGrows
<1>10. h.of = e.of /\ h.at = e.at + 1
  BY <1>6, <1>e, <1>h
<1>11. Behind(WayTo(g, n), s) <=> Behind(WayTo(calls, n), s) \/ Under(WayTo(calls, n), s)
  BY <1>8, <1>9, <1>10, PassBehind
<1>12. Seen(i, s)' <=> i < root \/ (i = root /\ Behind(WayTo(g, Len(g)), s))
  BY <1>g DEF Seen, Behind, WayTo
<1> QED
  BY <1>2, <1>11, <1>12, <1>n DEF Seen

-----------------------------------------------------------------------------
(* The innermost call of plan_message_columns, and its place. *)

LEMMA CallIs ==
  ASSUME PlanType, SupportedInv, CallsInv, task = "columns",
         NEW m, m = PlanRoots[root].of, NEW n, n = Len(calls), NEW b, b = WayTo(calls, n - 1),
         NEW w, w = WayTo(calls, n), NEW e, e = [of |-> Here.of, at |-> Here.at]
  PROVE  /\ SchemaType /\ calls # <<>> /\ calls \in Seq(ColumnCalls) /\ Steady(ColumnCalls)
         /\ root \in 1..Len(PlanRoots) /\ m \in Messages /\ Supported(m) /\ n \in Nat /\ n >= 1 /\ n \in 1..n
         /\ Here = calls[n] /\ Here \in ColumnCalls /\ Here.of \in Messages /\ Here.at \in Nat \ {0}
         /\ Here.slot \in 1..Len(relations) /\ Here.arrow \in Seq(Frames) /\ Here.name \in Seq(STRING)
         /\ Chained(calls) /\ calls[1].of = m
         /\ b \in Seq(Frames) /\ Len(b) = n - 1 /\ IsWay(m, b) /\ EndOf(m, b) = Here.of /\ Supported(Here.of)
         /\ w \in Seq(Frames) /\ Len(w) = n /\ w = Append(b, e) /\ e \in Frames
         /\ CallFor(Here, b)
<1>1. /\ SchemaType /\ calls # <<>> /\ calls \in Seq(ColumnCalls) /\ Steady(ColumnCalls)
      /\ root \in 1..Len(PlanRoots)
  BY CallsSteady DEF PlanType
<1>2. m \in Messages /\ Supported(m)
  BY <1>1, RootIs DEF SupportedInv
<1>3. /\ n \in Nat /\ n >= 1 /\ Here = calls[n] /\ Here \in ColumnCalls /\ Here.of \in Messages
      /\ Here.at \in Nat \ {0} /\ Here.slot \in 1..Len(relations) /\ Here.arrow \in Seq(Frames)
      /\ Here.name \in Seq(STRING)
  BY <1>1, HereIs
<1>4. n \in 1..n
  BY <1>3
<1>5. Chained(calls) /\ calls[1].of = m
  BY <1>1 DEF CallsInv
<1>6. /\ b \in Seq(Frames) /\ Len(b) = n - 1 /\ w \in Seq(Frames) /\ Len(w) = n /\ w = Append(b, e) /\ e \in Frames
  BY <1>1, <1>3, <1>4, WayToGrows
<1>l. PICK l : l = n - 1
  OBVIOUS
<1>7. l \in 0..n - 1 /\ l + 1 = n
  BY <1>3, <1>l
<1>8. IsWay(m, WayTo(calls, l)) /\ EndOf(m, WayTo(calls, l)) = calls[l + 1].of
  <2>s. PICK s : s = calls
    OBVIOUS
  <2>1. /\ SchemaType /\ Steady(ColumnCalls) /\ s \in Seq(ColumnCalls) /\ Chained(s) /\ s # <<>>
        /\ s[1].of = m /\ l \in 0..Len(s) - 1
    BY <2>s, <1>1, <1>5, <1>7
  <2>2. IsWay(m, WayTo(s, l))
    BY <2>1, WaysTo
  <2>3. EndOf(m, WayTo(s, l)) = s[l + 1].of
    BY <2>1, WaysTo
  <2> QED
    BY <2>2, <2>3, <2>s
<1>9. IsWay(m, b) /\ EndOf(m, b) = Here.of
  BY <1>3, <1>7, <1>8, <1>l
<1>10. \A k \in 1..Len(calls) : Supported(calls[k].of)
  BY <1>1, <1>2, <1>5, StackDiffers
<1>11. Supported(Here.of)
  BY <1>3, <1>4, <1>10
<1>12. CallFor(Here, b)
  <2>1. \A k \in 1..Len(calls) : CallFor(calls[k], WayTo(calls, k - 1))
    BY <1>1 DEF CallsInv
  <2> QED
    BY <2>1, <1>3, <1>4
<1> QED
  BY <1>1, <1>2, <1>3, <1>4, <1>5, <1>6, <1>9, <1>11, <1>12

\* The field it is at, and the way to what is in that.
LEMMA CallFieldIs ==
  ASSUME PlanType, SupportedInv, CallsInv, task = "columns", AtField(Here),
         NEW m, m = PlanRoots[root].of, NEW n, n = Len(calls), NEW b, b = WayTo(calls, n - 1),
         NEW w, w = WayTo(calls, n), NEW e, e = [of |-> Here.of, at |-> Here.at], NEW f, f = Field(Here)
  PROVE  /\ e \in Steps /\ Field(e) = f /\ f \in Fields /\ f.name \in Seq(STRING) /\ f.to # Here.of
         /\ f = schema[Here.of][Here.at] /\ Here.at \in 1..Len(schema[Here.of])
         /\ IsMessage(f) <=> f.to \in Messages
         /\ IsMessage(f) => Supported(f.to)
         /\ f.mode # "refused"
         /\ IsWay(m, w) /\ w # <<>> /\ Last(w) = e /\ Front(w) = b /\ b \in Seq(Steps) /\ EndOf(m, w) = f.to
<1>1. /\ SchemaType /\ m \in Messages /\ n \in Nat /\ n >= 1
      /\ Here.of \in Messages /\ Here.at \in Nat \ {0} /\ IsWay(m, b) /\ EndOf(m, b) = Here.of
      /\ Supported(Here.of) /\ w = Append(b, e) /\ Len(w) = n /\ Len(b) = n - 1
  BY CallIs
<1>2. e \in Steps /\ Field(e) = f /\ Here.at \in 1..Len(schema[Here.of]) /\ f = schema[Here.of][Here.at]
  BY <1>1, FieldIs
<1>3. f \in Fields /\ f.name \in Seq(STRING) /\ (IsMessage(f) <=> f.to \in Messages)
  BY <1>1, FieldIs
<1>4. /\ f.mode # "refused" /\ f.to # Here.of
      /\ IsMessage(f) => Supported(f.to)
  BY <1>1, <1>2, FieldBelow
<1>5. b \in Seq(Steps) /\ w = b \o <<e>>
  <2>1. b \in Seq(Steps)
    BY <1>1, WayIsFrames
  <2> QED
    BY <2>1, <1>1, <1>2, AppendIsConcat
<1>6. IsWay(Here.of, <<e>>) /\ <<e>> \in Seq(Steps)
  <2>1. e.of = Here.of
    OBVIOUS
  <2> QED
    BY <2>1, <1>1, <1>2, WayOfOne
<1>7. IsWay(m, w)
  <2>1. IsWay(EndOf(m, b), <<e>>)
    BY <1>1, <1>6
  <2>2. IsWay(m, b \o <<e>>)
    BY <2>1, <1>1, <1>5, <1>6, WaySplit
  <2> QED
    BY <2>2, <1>5
<1>8. w # <<>> /\ Last(w) = e /\ Front(w) = b
  <2>1. Append(b, e) # <<>> /\ Front(Append(b, e)) = b /\ Last(Append(b, e)) = e
    <3>1. Append(b, e) \in Seq(Steps) /\ Append(b, e) # <<>> /\ Len(Append(b, e)) = Len(b) + 1
          /\ Append(b, e)[Len(b) + 1] = e /\ \A k \in 1..Len(b) : Append(b, e)[k] = b[k]
      BY <1>2, <1>5, AppendIs
    <3>c. PICK c : c = Append(b, e)
      OBVIOUS
    <3>2. Front(c) \in Seq(Steps) /\ Len(Front(c)) = Len(c) - 1
      <4>1. c \in Seq(Steps) /\ c # <<>>
        BY <3>1, <3>c
      <4> QED
        BY <4>1, FrontIs
    <3>3. \A k \in 1..Len(c) - 1 : Front(c)[k] = c[k]
      <4>1. c \in Seq(Steps) /\ c # <<>>
        BY <3>1, <3>c
      <4> QED
        BY <4>1, FrontElements
    <3>4. Len(c) - 1 = Len(b) /\ Len(b) \in Nat
      BY <3>1, <3>c, <1>1
    <3>5. \A k \in 1..Len(b) : Front(c)[k] = b[k]
      BY <3>1, <3>3, <3>4, <3>c
    <3>6. Front(c) = b
      BY <3>2, <3>4, <3>5, <1>5, SeqEqual
    <3>7. Last(c) = e
      BY <3>1, <3>c DEF Last
    <3> QED
      BY <3>1, <3>6, <3>7, <3>c
  <2> QED
    BY <2>1, <1>1
<1>9. EndOf(m, w) = f.to
  BY <1>2, <1>8 DEF EndOf
<1> QED
  BY <1>2, <1>3, <1>4, <1>5, <1>7, <1>8, <1>9

\* The place that the call is for has been seen.
LEMMA PlaceOfCall ==
  ASSUME PlanType, SupportedInv, CallsInv, task = "columns",
         NEW m, m = PlanRoots[root].of, NEW b, b = WayTo(calls, Len(calls) - 1)
  PROVE  \E p \in Handled :
           /\ p.root = root /\ p.way \in Seq(Steps) /\ p.way \o Here.arrow = b /\ Here.arrow \in Seq(Steps)
           /\ Here.name = NameAt(p) /\ relations[Here.slot].name = NameAt(p)
           /\ \A j \in 1..Len(Here.arrow) : ~OwnRelation(Field(Here.arrow[j]))
           /\ IsWay(MessageAt(p), Here.arrow) /\ EndOf(MessageAt(p), Here.arrow) = Here.of
           /\ MessageAt(p) \in Messages /\ Supported(MessageAt(p))
<1>n. PICK n : n = Len(calls)
  OBVIOUS
<1>w. PICK w : w = WayTo(calls, n)
  OBVIOUS
<1>e. PICK e : e = [of |-> Here.of, at |-> Here.at]
  OBVIOUS
<1>1. /\ SchemaType /\ m \in Messages /\ Supported(m) /\ b \in Seq(Frames) /\ w = Append(b, e) /\ e \in Frames
      /\ IsWay(m, b) /\ EndOf(m, b) = Here.of /\ CallFor(Here, b) /\ Here.arrow \in Seq(Frames) /\ Here.of \in Messages
  BY <1>n, <1>w, <1>e, CallIs
<1>2. PICK p \in Places :
        /\ p.root = root /\ p.way \o Here.arrow = b
        /\ Here.name = NameAt(p) /\ relations[Here.slot].name = NameAt(p)
        /\ \A j \in 1..Len(Here.arrow) : ~OwnRelation(Field(Here.arrow[j]))
  BY <1>1 DEF CallFor
<1>v. PICK v : v = p.way
  OBVIOUS
<1>a. PICK a : a = Here.arrow
  OBVIOUS
<1>3. v \in Seq(Steps) /\ IsWay(m, v)
  BY <1>2, <1>v, PlaceIs
<1>4. v \o a = b /\ a \in Seq(Frames) /\ v \in Seq(Frames) /\ b \in Seq(Steps)
  BY <1>1, <1>2, <1>3, <1>a, <1>v, WayIsFrames
<1>5. /\ Len(b) = Len(v) + Len(a) /\ Len(v) \in Nat /\ Len(a) \in Nat
      /\ \A i \in 1..Len(v) + Len(a) : b[i] = IF i <= Len(v) THEN v[i] ELSE a[i - Len(v)]
  <2>1. Len(v \o a) = Len(v) + Len(a)
    BY <1>4, ConcatProperties
  <2>2. \A i \in 1..Len(v) + Len(a) : (v \o a)[i] = IF i <= Len(v) THEN v[i] ELSE a[i - Len(v)]
    BY <1>4, ConcatProperties
  <2> QED
    BY <2>1, <2>2, <1>4
<1>6. a \in Seq(Steps)
  <2>1. ASSUME NEW j \in 1..Len(a) PROVE a[j] \in Steps
    <3>k. PICK k : k = Len(v) + j
      OBVIOUS
    <3>1. k \in 1..Len(v) + Len(a) /\ ~(k <= Len(v)) /\ k - Len(v) = j /\ k \in 1..Len(b)
      BY <3>k, <1>5
    <3>2. b[k] = a[j]
      BY <3>1, <1>5
    <3>3. b[k] \in Steps
      BY <3>1, <1>4, ElementOfSeq
    <3> QED
      BY <3>2, <3>3
  <2>2. a = [j \in 1..Len(a) |-> a[j]]
    BY <1>4
  <2> QED
    BY <2>1, <2>2, <1>5
<1>7. IsWay(EndOf(m, v), a)
  <2>1. IsWay(m, v \o a)
    BY <1>1, <1>4
  <2> QED
    BY <2>1, <1>3, <1>6, WaySplit
<1>8. EndOf(m, v) = MessageAt(p)
  BY <1>2, <1>v DEF EndOf, MessageAt
<1>9. EndOf(MessageAt(p), a) = Here.of
  <2>1. CASE a = <<>>
    <3>1. v = b
      BY <2>1, <1>3, <1>4, ConcatEmptySeq
    <3> QED
      BY <2>1, <3>1, <1>1, <1>8 DEF EndOf
  <2>2. CASE a # <<>>
    <3>1. Len(a) >= 1
      BY <2>2, <1>4, EmptySeq
    <3>2. Len(b) \in 1..Len(v) + Len(a) /\ ~(Len(b) <= Len(v)) /\ Len(b) - Len(v) = Len(a) /\ Len(b) # 0
      BY <3>1, <1>5
    <3>3. Last(b) = Last(a) /\ b # <<>>
      BY <3>2, <1>4, <1>5 DEF Last
    <3> QED
      BY <2>2, <3>3, <1>1 DEF EndOf
  <2> QED
    BY <2>1, <2>2
<1>10. MessageAt(p) \in Messages /\ Supported(MessageAt(p))
  <2>1. CASE v = <<>>
    BY <2>1, <1>1, <1>8 DEF EndOf
  <2>2. CASE v # <<>>
    <3>h. PICK h : h = Field(Last(v))
      OBVIOUS
    <3>1. IsMessage(h) => h.to \in Messages /\ Supported(h.to)
      BY <2>2, <3>h, <1>1, <1>3, WayBelow
    <3>2. EndOf(m, v) = h.to
      BY <2>2, <3>h DEF EndOf
    <3>3. IsMessage(h)
      <4>1. CASE a = <<>>
        BY <4>1, <3>2, <1>1, <1>8, <1>9, MessagesAssumption DEF EndOf, IsMessage
      <4>2. CASE a # <<>>
        <5>1. a[1].of = h.to
          BY <4>2, <3>2, <1>7 DEF IsWay, Leads
        <5>2. 1 \in 1..Len(a)
          BY <4>2, <1>5, <1>6, EmptySeq
        <5>3. a[1] \in Steps
          BY <5>2, <1>6, ElementOfSeq
        <5>4. a[1].of \in Messages
          BY <5>3, <1>1, StepIs
        <5> QED
          BY <5>1, <5>4, MessagesAssumption DEF IsMessage
      <4> QED
        BY <4>1, <4>2
    <3> QED
      BY <3>1, <3>2, <3>3, <1>8
  <2> QED
    BY <2>1, <2>2
<1>11. p \in Handled
  <2>1. Len(w) = Len(b) + 1 /\ \A k \in 1..Len(b) : w[k] = b[k]
    BY <1>1, AppendIs
  <2>2. Len(v) < Len(w) /\ \A i \in 1..Len(v) : i \in 1..Len(b) /\ i \in 1..Len(v) + Len(a) /\ i <= Len(v)
    BY <2>1, <1>5
  <2>3. \A i \in 1..Len(v) : v[i] = w[i]
    BY <2>1, <2>2, <1>5
  <2>4. Behind(w, v)
    BY <2>2, <2>3 DEF Behind
  <2>5. Seen(p.root, p.way)
    BY <2>4, <1>2, <1>n, <1>v, <1>w DEF Seen
  <2> QED
    BY <2>5 DEF Handled
<1> QED
  BY <1>2, <1>3, <1>6, <1>7, <1>8, <1>9, <1>10, <1>11, <1>a, <1>v

\* A call that returns leaves nothing of its message behind unseen.
LEMMA ReturnSeen ==
  ASSUME PlanType, SupportedInv, CallsInv, EndColumns, NEW i \in 1..Len(PlanRoots), NEW s, IsWay(PlanRoots[i].of, s)
  PROVE  Seen(i, s)' <=> Seen(i, s)
<1>m. PICK m : m = PlanRoots[root].of
  OBVIOUS
<1>n. PICK n : n = Len(calls)
  OBVIOUS
<1>b. PICK b : b = WayTo(calls, n - 1)
  OBVIOUS
<1>w. PICK w : w = WayTo(calls, n)
  OBVIOUS
<1>e. PICK e : e = [of |-> Here.of, at |-> Here.at]
  OBVIOUS
<1>g. PICK g : g = calls'
  OBVIOUS
<1>1. task = "columns" /\ calls # <<>> /\ ~AtField(Here) /\ calls' = Returned(calls) /\ UNCHANGED schema
  BY DEF EndColumns, Planning, PlanType
<1>2. /\ SchemaType /\ calls \in Seq(ColumnCalls) /\ Steady(ColumnCalls)
      /\ root \in 1..Len(PlanRoots) /\ n \in Nat /\ n >= 1 /\ n \in 1..n
      /\ Here = calls[n] /\ Here.of \in Messages /\ Here.at \in Nat \ {0}
      /\ Chained(calls) /\ calls[1].of = m
      /\ b \in Seq(Frames) /\ Len(b) = n - 1 /\ IsWay(m, b) /\ EndOf(m, b) = Here.of
      /\ w \in Seq(Frames) /\ Len(w) = n /\ w = Append(b, e) /\ e \in Frames
  BY <1>1, <1>m, <1>n, <1>b, <1>w, <1>e, CallIs
<1>3. s \in Seq(Steps) /\ s \in Seq(Frames) /\ Len(s) \in Nat
  BY <1>2, WayIsFrames
<1>4. Here.at = Len(schema[Here.of]) + 1 /\ Len(schema[Here.of]) \in Nat
  <2>1. Here.at <= Len(schema[Here.of]) + 1
    BY <1>2, <1>n DEF Chained
  <2>2. Len(schema[Here.of]) \in Nat
    BY <1>2, StepIs
  <2>3. ~(Here.at <= Len(schema[Here.of]))
    BY <1>1 DEF AtField
  <2>4. Here.at \in Nat
    BY <1>2
  <2> QED
    BY ONLY <2>1, <2>2, <2>3, <2>4
\* A step after b is of a field that is behind.
<1>5. ASSUME i = root, Under(b, s), Len(s) > n - 1 PROVE s[n].of = e.of /\ s[n].at < e.at
  <2>1. n \in 1..Len(s)
    BY <1>2, <1>3, <1>5
  <2>2. s[n] \in Steps
    BY <2>1, <1>3, ElementOfSeq
  <2>3. s[n].of \in Messages /\ s[n].at \in 1..Len(schema[s[n].of])
    BY <2>2, <1>2, StepIs
  <2>4. s[n].of = Here.of
    <3>1. CASE n = 1
      <4>1. b = <<>>
        BY <3>1, <1>2, EmptySeq
      <4>2. m = Here.of
        BY <4>1, <1>2 DEF EndOf
      <4>3. s # <<>>
        BY <2>1, <3>1, <1>3, EmptySeq
      <4> QED
        BY <3>1, <4>2, <4>3, <1>5, <1>m DEF IsWay, Leads
    <3>2. CASE n # 1
      <4>j. PICK j : j = n - 1
        OBVIOUS
      <4>1. j \in 1..Len(s) - 1 /\ j \in 1..Len(b) /\ j + 1 = n /\ j = Len(b) /\ j # 0
        BY <4>j, <3>2, <2>1, <1>2, <1>3
      <4>2. s[j + 1].of = Field(s[j]).to
        BY <4>1 DEF IsWay, Leads
      <4>3. s[j] = Last(b)
        BY <4>1, <1>5 DEF Under, Last
      <4>4. b # <<>>
        BY <4>1, EmptySeq
      <4> QED
        BY <4>1, <4>2, <4>3, <4>4, <1>2 DEF EndOf
    <3> QED
      BY <3>1, <3>2
  <2>5. s[n].at < e.at
    <3>1. s[n].at \in 1..Len(schema[Here.of])
      BY <2>3, <2>4
    <3> QED
      BY <3>1, <1>4, <1>e
  <2> QED
    BY <2>4, <2>5, <1>e
<1>6. i = root => (Behind(w, s) <=> Behind(b, s) \/ Under(b, s))
  <2>1. Behind(w, s) <=>
          Behind(b, s) \/ (Under(b, s) /\ (Len(s) = Len(b) \/ (Len(s) > Len(b) /\ s[Len(b) + 1].of = e.of /\ s[Len(b) + 1].at < e.at)))
    BY <1>2, <1>3, BehindAppend
  <2>2. Len(b) + 1 = n
    BY <1>2
  <2>3. Under(b, s) => Len(s) = Len(b) \/ Len(s) > Len(b)
    BY <1>2, <1>3 DEF Under
  <2> QED
    BY <2>1, <2>2, <2>3, <1>2, <1>5
<1>7. Seen(i, s) <=> i < root \/ (i = root /\ Behind(w, s))
  BY <1>n, <1>w DEF Seen
<1>8. CASE n = 1
  <2>1. root' = root + 1 /\ calls' = <<>>
    BY <1>8, <1>1, <1>n DEF EndColumns, Returned
  <2>2. b = <<>> /\ Under(b, s)
    <3>1. b = <<>> /\ Len(b) = 0
      BY <1>2, <1>8, EmptySeq
    <3>2. Len(b) <= Len(s) /\ ~ \E j : j \in 1..Len(b)
      BY <3>1, <1>3
    <3> QED
      BY <3>1, <3>2 DEF Under
  <2>3. Seen(i, s)' <=> i < root + 1 \/ (i = root + 1 /\ Behind(<<>>, s))
    <3>1. Len(<<>>) = 0 /\ WayTo(<<>>, 0) = <<>>
      BY DEF WayTo
    <3>2. Seen(i, s)' <=> i < root' \/ (i = root' /\ Behind(WayTo(g, Len(g)), s))
      BY <1>g DEF Seen, Behind, WayTo
    <3> QED
      BY <2>1, <3>1, <3>2, <1>g
  <2>4. ~Behind(<<>>, s)
    BY <1>3, NothingBehind
  <2>5. i < root + 1 <=> i < root \/ i = root
    <3>1. i \in Nat /\ root \in Nat
      BY <1>2
    <3> QED
      BY <3>1
  <2> QED
    BY <2>2, <2>3, <2>4, <2>5, <1>6, <1>7
<1>9. CASE n # 1
  <2>f. PICK f : f = Front(calls)
    OBVIOUS
  <2>l. PICK l : l = n - 1
    OBVIOUS
  <2>1. root' = root /\ calls' = Advanced(f)
    BY <1>9, <1>1, <1>n, <2>f DEF EndColumns, Returned
  <2>2. f \in Seq(ColumnCalls) /\ Len(f) = l /\ f # <<>>
    <3>1. Front(calls) \in Seq(ColumnCalls)
      BY <1>1, <1>2, FrontIs
    <3>2. Len(Front(calls)) = Len(calls) - 1
      BY <1>1, <1>2, FrontIs
    <3>3. Len(calls) = 1 <=> Front(calls) = <<>>
      BY <1>1, <1>2, FrontIs
    <3> QED
      BY <3>1, <3>2, <3>3, <1>9, <1>n, <2>f, <2>l
  <2>3. \A k \in 1..l : f[k] = calls[k]
    BY <1>1, <1>2, <1>n, <2>f, <2>l, FrontElements
  <2>4. WayTo(f, l) = b
    <3>1. l \in Nat
      BY <1>2, <2>l
    <3> QED
      BY <3>1, <2>3, <2>l, <1>b, SameWayTo
  <2>5. g \in Seq(ColumnCalls) /\ Len(g) = l
    BY <2>1, <2>2, <1>g, <1>2, AdvancedIs
  <2>6. \A k \in 1..l - 1 : g[k] = f[k]
    BY <2>1, <2>2, <1>g, <1>2, AdvancedIs
  <2>7. g[l] = [f[l] EXCEPT !.at = @ + 1]
    BY <2>1, <2>2, <1>g, <1>2, AdvancedIs
  <2>8. l \in 1..l /\ l - 1 \in Nat
    BY <1>2, <1>9, <2>l
  <2>9. f[l] \in ColumnCalls
    BY <2>2, <2>8, ElementOfSeq
  <2>10. g[l].of = f[l].of /\ g[l].at = f[l].at + 1
    BY <2>7, <2>9, <1>2 DEF Steady
  <2>c. PICK c : c = WayTo(f, l - 1)
    OBVIOUS
  <2>d. PICK d : d = [of |-> f[l].of, at |-> f[l].at]
    OBVIOUS
  <2>h. PICK h : h = [of |-> g[l].of, at |-> g[l].at]
    OBVIOUS
  <2>11. c \in Seq(Frames) /\ b = Append(c, d) /\ d \in Frames
    BY <1>2, <2>2, <2>4, <2>8, <2>c, <2>d, WayToGrows
  <2>12. WayTo(g, l - 1) = c
    BY <2>6, <2>8, <2>c, SameWayTo
  <2>13. WayTo(g, l) = Append(c, h) /\ h \in Frames
    BY <1>2, <2>5, <2>8, <2>12, <2>h, WayToGrows
  <2>14. h.of = d.of /\ h.at = d.at + 1
    BY <2>10, <2>d, <2>h
  <2>15. Behind(WayTo(g, l), s) <=> Behind(b, s) \/ Under(b, s)
    BY <1>3, <2>11, <2>13, <2>14, PassBehind
  <2>16. Seen(i, s)' <=> i < root \/ (i = root /\ Behind(WayTo(g, Len(g)), s))
    BY <1>g, <2>1 DEF Seen, Behind, WayTo
  <2> QED
    BY <2>5, <2>15, <2>16, <1>6, <1>7
<1> QED
  BY <1>8, <1>9

-----------------------------------------------------------------------------
(* The relations planned. *)

ResultInv == RelationsInv /\ ColumnsInv /\ (refused => ~Acceptable)

\* A column is a way inside of the place, over fields that have no relation.
LEMMA ColumnIs ==
  ASSUME SchemaType, NEW p \in Places, NEW t \in ColumnsAt(p)
  PROVE  /\ t \in Seq(Steps) /\ IsWay(PlanRoots[p.root].of, p.way \o t) /\ p.way \o t \in Seq(Steps)
         /\ \A k \in 1..Len(t) : ~OwnRelation(Field(t[k]))
         /\ t = <<>> <=> MessageAt(p) = "scalar"
<1>1. p.root \in 1..Len(PlanRoots) /\ IsWay(PlanRoots[p.root].of, p.way) /\ p.way \in Seq(Steps)
  BY PlaceIs
<1>2. EndOf(PlanRoots[p.root].of, p.way) = MessageAt(p)
  BY DEF EndOf, MessageAt
<1>3. CASE MessageAt(p) = "scalar"
  <2>1. t = <<>>
    BY <1>3 DEF ColumnsAt
  <2>2. p.way \o t = p.way
    BY <1>1, <2>1, ConcatEmptySeq
  <2>3. t \in Seq(Steps) /\ Len(t) = 0
    BY <2>1
  <2> QED
    BY <1>1, <1>3, <2>1, <2>2, <2>3
<1>4. CASE MessageAt(p) # "scalar"
  <2>1. t \in Ways(MessageAt(p)) /\ t # <<>> /\ \A k \in 1..Len(t) : ~OwnRelation(Field(t[k]))
    BY <1>4 DEF ColumnsAt
  <2>2. IsWay(MessageAt(p), t)
    BY <2>1, WaysAre
  <2>3. t \in Seq(Steps)
    BY <2>2 DEF IsWay
  <2>4. IsWay(PlanRoots[p.root].of, p.way \o t)
    BY <1>1, <1>2, <2>2, <2>3, WaySplit
  <2>5. p.way \o t \in Seq(Steps)
    BY <1>1, <2>3, ConcatProperties
  <2> QED
    BY <1>4, <2>1, <2>3, <2>4, <2>5
<1> QED
  BY <1>3, <1>4

LEMMA SameStands ==
  ASSUME UNCHANGED <<schema, relations>>, NEW i, NEW p
  PROVE  StandsAt(i, p)' <=> StandsAt(i, p)
<1>1. \A q : NameAt(q)' = NameAt(q) /\ MessageAt(q)' = MessageAt(q)
  BY SameGraph
<1>2. \A e : Field(e)' = Field(e)
  BY SameGraph
<1> QED
  BY <1>1, <1>2 DEF StandsAt, Kind, IsMessage

\* Nothing is planned and nothing is seen.
LEMMA ResultStays ==
  ASSUME PlanType, ResultInv, UNCHANGED <<schema, relations, refused>>,
         ~refused => \A i \in 1..root' - 1 : Supported(PlanRoots[i].of),
         \A i \in 1..Len(PlanRoots) : \A s : IsWay(PlanRoots[i].of, s) => (Seen(i, s)' <=> Seen(i, s))
  PROVE  ResultInv'
<1>t. SchemaType
  BY DEF PlanType
<1>1. /\ \A m : Supported(m)' <=> Supported(m)
      /\ Places' = Places
      /\ Acceptable' <=> Acceptable
  BY SameGraph
<1>2. \A p : NameAt(p)' = NameAt(p) /\ ColumnsAt(p)' = ColumnsAt(p)
  BY SameGraph
<1>3. \A i, p : StandsAt(i, p)' <=> StandsAt(i, p)
  BY SameStands
<1>4. \A p \in Places : Seen(p.root, p.way)' <=> Seen(p.root, p.way)
  BY PlaceIs
<1>5. Handled' = Handled
  BY <1>1, <1>4 DEF Handled
<1>6. \A p \in Places : \A t \in ColumnsAt(p) : Seen(p.root, p.way \o t)' <=> Seen(p.root, p.way \o t)
  BY <1>t, PlaceIs, ColumnIs
<1>7. Handled \subseteq Places
  BY DEF Handled
<1>8. \A e : Field(e)' = Field(e)
  BY SameGraph
<1>9. RelationsInv'
  <2> SUFFICES ASSUME ~refused PROVE RelationsInv'
    BY DEF RelationsInv
  <2>1. /\ \A p \in Handled : Legal(NameAt(p)) /\ \E i \in 1..Len(relations) : StandsAt(i, p)
        /\ \A i \in 1..Len(relations) : \E p \in Handled : StandsAt(i, p)
        /\ \A p, q \in Handled : NameAt(p) = NameAt(q) => p = q
        /\ \A i, j \in 1..Len(relations) : relations[i].name = relations[j].name => i = j
    BY DEF ResultInv, RelationsInv
  <2>2. \A p \in Handled' : Legal(NameAt(p))' /\ \E i \in 1..Len(relations)' : StandsAt(i, p)'
    BY <2>1, <1>2, <1>3, <1>5 DEF Legal
  <2>3. \A i \in 1..Len(relations)' : \E p \in Handled' : StandsAt(i, p)'
    BY <2>1, <1>3, <1>5
  <2>4. \A p, q \in Handled' : NameAt(p)' = NameAt(q)' => p = q
    BY <2>1, <1>2, <1>5
  <2> QED
    BY <2>1, <2>2, <2>3, <2>4, <1>1 DEF RelationsInv
<1>10. ColumnsInv'
  <2> SUFFICES ASSUME ~refused, NEW p \in Handled'
               PROVE  /\ \A i \in 1..Len(relations') :
                           relations'[i].name = NameAt(p)' =>
                             relations'[i].columns = {t \in ColumnsAt(p)' : Seen(p.root, p.way \o t)'}
                      /\ \A t \in ColumnsAt(p)' : Seen(p.root, p.way \o t)' /\ Len(t) = 1 =>
                           Field(t[1])'.name \notin ReservedColumns
    BY DEF ColumnsInv
  <2>1. p \in Handled /\ p \in Places
    BY <1>5, <1>7
  <2>2. /\ \A i \in 1..Len(relations) :
             relations[i].name = NameAt(p) =>
               relations[i].columns = {t \in ColumnsAt(p) : Seen(p.root, p.way \o t)}
        /\ \A t \in ColumnsAt(p) : Seen(p.root, p.way \o t) /\ Len(t) = 1 =>
             Field(t[1]).name \notin ReservedColumns
    BY <2>1 DEF ResultInv, ColumnsInv
  <2>3. {t \in ColumnsAt(p)' : Seen(p.root, p.way \o t)'} = {t \in ColumnsAt(p) : Seen(p.root, p.way \o t)}
    BY <2>1, <1>2, <1>6
  <2>4. \A t \in ColumnsAt(p)' : Seen(p.root, p.way \o t)' /\ Len(t) = 1 => Field(t[1])'.name \notin ReservedColumns
    BY <2>1, <2>2, <1>2, <1>6, <1>8
  <2> QED
    BY <2>2, <2>3, <2>4, <1>2
<1> QED
  BY <1>1, <1>9, <1>10 DEF ResultInv

\* A root that is refused for a reason.
LEMMA RefuseIsSound ==
  ASSUME Refuse, ~Acceptable, UNCHANGED schema
  PROVE  ResultInv' /\ CallsInv'
<1>1. ~Acceptable'
  BY SameGraph
<1>2. refused' /\ calls' = <<>>
  BY DEF Refuse
<1> QED
  BY <1>1, <1>2 DEF ResultInv, RelationsInv, ColumnsInv, CallsInv

\* A call is for its place as long as the relation keeps its name.
LEMMA CallForStays ==
  ASSUME NEW c, NEW d, NEW w, CallFor(c, w), UNCHANGED <<schema, root>>,
         d.arrow = c.arrow, d.name = c.name, d.slot = c.slot, relations'[c.slot].name = relations[c.slot].name
  PROVE  CallFor(d, w)'
<1>1. PICK p \in Places :
        /\ p.root = root /\ p.way \o c.arrow = w
        /\ c.name = NameAt(p) /\ relations[c.slot].name = NameAt(p)
        /\ \A j \in 1..Len(c.arrow) : ~OwnRelation(Field(c.arrow[j]))
  BY DEF CallFor
<1>2. Places' = Places /\ \A q : NameAt(q)' = NameAt(q)
  BY SameGraph
<1>3. \A e : Field(e)' = Field(e)
  BY SameGraph
<1>4. \A h : OwnRelation(h)' <=> OwnRelation(h)
  BY SameGraph
<1>5. \A j \in 1..Len(d.arrow) : ~OwnRelation(Field(d.arrow[j]))'
  BY <1>1, <1>3, <1>4
<1>6. p \in Places' /\ p.root = root' /\ p.way \o d.arrow = w /\ d.name = NameAt(p)' /\ relations'[d.slot].name = NameAt(p)'
  BY <1>1, <1>2
<1> QED
  BY <1>5, <1>6 DEF CallFor

LEMMA CallsStay ==
  ASSUME CallsInv, UNCHANGED <<schema, root, calls, relations>>
  PROVE  CallsInv'
<1> SUFFICES ASSUME calls # <<>>
             PROVE  /\ calls[1].of = PlanRoots[root].of
                    /\ Chained(calls)'
                    /\ \A k \in 1..Len(calls) : CallFor(calls[k], WayTo(calls, k - 1))'
  BY DEF CallsInv
<1>1. /\ calls[1].of = PlanRoots[root].of
      /\ Chained(calls)
      /\ \A k \in 1..Len(calls) : CallFor(calls[k], WayTo(calls, k - 1))
  BY DEF CallsInv
<1>2. Chained(calls)'
  BY <1>1 DEF Chained, AtField, Field
<1>3. ASSUME NEW k \in 1..Len(calls) PROVE CallFor(calls[k], WayTo(calls, k - 1))'
  <2>c. PICK c : c = calls[k]
    OBVIOUS
  <2>w. PICK w : w = WayTo(calls, k - 1)
    OBVIOUS
  <2>1. CallFor(c, w)
    BY <1>1, <2>c, <2>w
  <2>2. CallFor(c, w)'
    BY <2>1, CallForStays
  <2>3. w = WayTo(calls, k - 1)' /\ c = calls'[k]
    BY <2>c, <2>w DEF WayTo
  <2> QED
    BY <2>2, <2>3 DEF CallFor
<1> QED
  BY <1>1, <1>2, <1>3

\* A name that cannot be registered for a place is a reason to refuse.
LEMMA CannotRegister ==
  ASSUME PlanType, ResultInv, NEW q \in Places, q \notin Handled, ~MayRegister(NameAt(q))
  PROVE  ~Acceptable
<1>1. CASE refused
  BY <1>1 DEF ResultInv
<1>2. CASE ~Legal(NameAt(q))
  BY <1>2 DEF Acceptable
<1>3. CASE ~refused /\ Legal(NameAt(q))
  <2>1. PICK i \in 1..Len(relations) : relations[i].name = NameAt(q)
    BY <1>3 DEF MayRegister, TakenNames
  <2>2. PICK p \in Handled : StandsAt(i, p)
    BY <1>3 DEF ResultInv, RelationsInv
  <2>3. NameAt(p) = NameAt(q) /\ p \in Places /\ p # q
    BY <2>1, <2>2 DEF StandsAt, Handled
  <2> QED
    BY <2>3 DEF Acceptable
<1> QED
  BY <1>1, <1>2, <1>3

\* A relation that stood for a place still does when another is planned.
LEMMA StillStands ==
  ASSUME PlanType, UNCHANGED schema, NEW r \in RelationRecords, relations' = Append(relations, r),
         NEW i \in 1..Len(relations), NEW p, StandsAt(i, p)
  PROVE  StandsAt(i, p)'
<1>g. PICK g : g = relations'
  OBVIOUS
<1>1. relations \in Seq(RelationRecords)
  BY DEF PlanType
<1>2. Len(g) = Len(relations) + 1 /\ Len(relations) \in Nat /\ \A k \in 1..Len(relations) : g[k] = relations[k]
  BY <1>g, <1>1, AppendIs
<1>3. \A q : NameAt(q)' = NameAt(q) /\ MessageAt(q)' = MessageAt(q)
  BY SameGraph
<1>4. \A e : Field(e)' = Field(e)
  BY SameGraph
<1>o. PICK o : o = relations[i]
  OBVIOUS
<1>5. /\ o.name = NameAt(p) /\ o.of = MessageAt(p)
      /\ p.way = <<>> => o.parent = 0 /\ o.kind = "root"
      /\ p.way # <<>> =>
           /\ o.parent \in 1..i - 1
           /\ relations[o.parent].name = NameAt([root |-> p.root, way |-> Front(p.way)])
           /\ o.field = Last(p.way).at /\ o.kind = Kind(Field(Last(p.way)))
  BY <1>o DEF StandsAt
<1>6. g[i] = o
  BY <1>2, <1>o
<1>7. ASSUME p.way # <<>> PROVE g[o.parent] = relations[o.parent]
  <2>1. o.parent \in 1..Len(relations)
    BY <1>2, <1>5, <1>7
  <2> QED
    BY <2>1, <1>2
<1>8. Kind(Field(Last(p.way)))' = Kind(Field(Last(p.way)))
  BY <1>4 DEF Kind, IsMessage
<1> QED
  BY <1>3, <1>5, <1>6, <1>7, <1>8, <1>g DEF StandsAt

\* The relation of a place that comes to be seen.
LEMMA Registered ==
  ASSUME PlanType, ResultInv, UNCHANGED <<schema, refused>>, NEW q \in Places, q \notin Handled,
         MayRegister(NameAt(q)),
         NEW r \in RelationRecords, relations' = Append(relations, r),
         r.name = NameAt(q), r.of = MessageAt(q),
         q.way = <<>> => r.parent = 0 /\ r.kind = "root",
         q.way # <<>> =>
           /\ r.parent \in 1..Len(relations)
           /\ relations[r.parent].name = NameAt([root |-> q.root, way |-> Front(q.way)])
           /\ r.field = Last(q.way).at /\ r.kind = Kind(Field(Last(q.way))),
         r.columns = IF MessageAt(q) = "scalar" THEN {<<>>} ELSE {},
         ~refused => \A i \in 1..root' - 1 : Supported(PlanRoots[i].of),
         \A s \in Seq(Frames) : ~Seen(q.root, q.way \o s),
         \A i \in 1..Len(PlanRoots) : \A s : IsWay(PlanRoots[i].of, s) =>
           (Seen(i, s)' <=> Seen(i, s) \/ (i = q.root /\ s = q.way))
  PROVE  ResultInv'
<1>g. PICK g : g = relations'
  OBVIOUS
<1>n. PICK n : n = Len(relations)
  OBVIOUS
<1>l. PICK l : l = n + 1
  OBVIOUS
<1>t. SchemaType /\ relations \in Seq(RelationRecords)
  BY DEF PlanType
<1>1. /\ Len(g) = l /\ n \in Nat /\ g[l] = r /\ (\A k \in 1..n : g[k] = relations[k])
      /\ (\A k \in 1..l : k \in 1..n \/ k = l) /\ (\A k \in 1..n : k \in 1..l /\ k # l) /\ l \in 1..l
  <2>1. Len(g) = l /\ n \in Nat /\ g[l] = r /\ \A k \in 1..n : g[k] = relations[k]
    BY <1>t, <1>g, <1>n, <1>l, AppendIs
  <2>2. (\A k \in 1..l : k \in 1..n \/ k = l) /\ (\A k \in 1..n : k \in 1..l /\ k # l) /\ l \in 1..l
    BY <2>1, <1>l
  <2> QED
    BY <2>1, <2>2
<1>2. /\ \A m : Supported(m)' <=> Supported(m)
      /\ Places' = Places
      /\ Acceptable' <=> Acceptable
  BY SameGraph
<1>3. \A p : NameAt(p)' = NameAt(p) /\ MessageAt(p)' = MessageAt(p) /\ ColumnsAt(p)' = ColumnsAt(p)
  BY SameGraph
<1>4. \A e : Field(e)' = Field(e)
  BY SameGraph
<1>5. \A p \in Places : p.root = q.root /\ p.way = q.way => p = q
  BY PlaceIs
<1>6. Handled' = Handled \cup {q}
  <2>1. \A p \in Places : Seen(p.root, p.way)' <=> Seen(p.root, p.way) \/ p = q
    BY <1>5, PlaceIs
  <2> QED
    BY <2>1, <1>2 DEF Handled
<1>7. Handled \subseteq Places
  BY DEF Handled
<1>8. (refused => ~Acceptable)'
  BY <1>2 DEF ResultInv
<1> SUFFICES ASSUME ~refused PROVE RelationsInv' /\ ColumnsInv'
  BY <1>8 DEF ResultInv, RelationsInv, ColumnsInv
<1>9. /\ \A p \in Handled : Legal(NameAt(p)) /\ \E i \in 1..n : StandsAt(i, p)
      /\ \A i \in 1..n : \E p \in Handled : StandsAt(i, p)
      /\ \A p, o \in Handled : NameAt(p) = NameAt(o) => p = o
      /\ \A i, j \in 1..n : relations[i].name = relations[j].name => i = j
  BY <1>n DEF ResultInv, RelationsInv
<1>10. /\ Legal(NameAt(q))
       /\ \A i \in 1..n : relations[i].name # NameAt(q)
  BY <1>n DEF MayRegister, TakenNames
<1>11. ASSUME NEW p \in Handled PROVE NameAt(p) # NameAt(q)
  <2>1. PICK i \in 1..n : StandsAt(i, p)
    BY <1>9
  <2>2. relations[i].name = NameAt(p)
    BY <2>1 DEF StandsAt
  <2> QED
    BY <2>2, <1>10
<1>12. \A i \in 1..n : \A p : StandsAt(i, p) => StandsAt(i, p)'
  BY <1>n, StillStands
<1>13. StandsAt(l, q)'
  <2>1. q.way # <<>> => r.parent \in 1..l - 1 /\ g[r.parent] = relations[r.parent]
    <3>1. l - 1 = n
      BY <1>1, <1>l
    <3> QED
      BY <3>1, <1>1, <1>n
  <2>2. Kind(Field(Last(q.way)))' = Kind(Field(Last(q.way)))
    BY <1>4 DEF Kind, IsMessage
  <2> QED
    BY <2>1, <2>2, <1>1, <1>3, <1>g DEF StandsAt
<1>14. RelationsInv'
  <2>1. ASSUME NEW p \in Handled' PROVE Legal(NameAt(p))' /\ \E i \in 1..Len(g) : StandsAt(i, p)'
    <3>1. Legal(NameAt(p))' <=> Legal(NameAt(p))
      BY <1>3 DEF Legal
    <3>2. CASE p = q
      BY <3>1, <3>2, <1>1, <1>10, <1>13
    <3>3. CASE p \in Handled
      <4>1. PICK i \in 1..n : StandsAt(i, p)
        BY <3>3, <1>9
      <4>2. StandsAt(i, p)' /\ i \in 1..Len(g)
        BY <4>1, <1>1, <1>12
      <4> QED
        BY <3>1, <3>3, <4>2, <1>9
    <3> QED
      BY <3>2, <3>3, <1>6
  <2>2. ASSUME NEW i \in 1..Len(g) PROVE \E p \in Handled' : StandsAt(i, p)'
    <3>1. CASE i = l
      BY <3>1, <1>6, <1>13
    <3>2. CASE i \in 1..n
      <4>1. PICK p \in Handled : StandsAt(i, p)
        BY <3>2, <1>9
      <4>2. StandsAt(i, p)' /\ p \in Handled'
        BY <3>2, <4>1, <1>6, <1>12
      <4> QED
        BY <4>2
    <3> QED
      BY <3>1, <3>2, <1>1
  <2>3. \A p, o \in Handled' : NameAt(p)' = NameAt(o)' => p = o
    BY <1>3, <1>6, <1>9, <1>11
  <2>4. \A i, j \in 1..Len(g) : g[i].name = g[j].name => i = j
    BY <1>1, <1>9, <1>10
  <2> QED
    <3>1. \A i \in 1..root' - 1 : Supported(PlanRoots[i].of)'
      BY <1>2
    <3>2. \A p \in Handled' : Legal(NameAt(p))' /\ \E i \in 1..Len(relations') : StandsAt(i, p)'
      BY <2>1, <1>g
    <3>3. \A i \in 1..Len(relations') : \E p \in Handled' : StandsAt(i, p)'
      BY <2>2, <1>g
    <3>4. \A i, j \in 1..Len(relations') : relations'[i].name = relations'[j].name => i = j
      BY <2>4, <1>g
    <3> QED
      BY ONLY <3>1, <3>2, <3>3, <3>4, <2>3 DEF RelationsInv
<1>15. q.way \in Seq(Steps) /\ (q.way # <<>> => OwnRelation(Field(Last(q.way)))) /\ q.root \in 1..Len(PlanRoots)
  BY PlaceIs
<1>16. \A p \in Handled : \A t \in ColumnsAt(p) : Seen(p.root, p.way \o t)' <=> Seen(p.root, p.way \o t)
  <2> SUFFICES ASSUME NEW p \in Handled, NEW t \in ColumnsAt(p)
               PROVE  Seen(p.root, p.way \o t)' <=> Seen(p.root, p.way \o t)
    OBVIOUS
  <2>1. p \in Places /\ p # q
    BY <1>7
  <2>2. /\ p.root \in 1..Len(PlanRoots) /\ p.way \in Seq(Steps)
        /\ p.way # <<>> => OwnRelation(Field(Last(p.way)))
    BY <2>1, PlaceIs
  <2>3. t \in Seq(Steps) /\ IsWay(PlanRoots[p.root].of, p.way \o t) /\ \A k \in 1..Len(t) : ~OwnRelation(Field(t[k]))
    BY <2>1, <1>t, ColumnIs
  <2>4. Seen(p.root, p.way \o t)' <=> Seen(p.root, p.way \o t) \/ (p.root = q.root /\ p.way \o t = q.way)
    BY <2>2, <2>3
  <2>5. ASSUME p.root = q.root, p.way \o t = q.way PROVE FALSE
    <3>0. <<>> \in Seq(Steps) /\ Len(<<>>) = 0
      OBVIOUS
    <3>x. PICK x \in Seq(Steps) : x = <<>> /\ Len(x) = 0
      BY <3>0
    <3>1. q.way \o x = q.way /\ \A k \in 1..Len(x) : ~OwnRelation(Field(x[k]))
      BY <3>x, <1>15, ConcatEmptySeq
    <3>2. p.way \o t = q.way \o x
      BY <3>1, <2>5
    <3>3. p.way = q.way
      BY <3>1, <3>2, <1>15, <2>2, <2>3, SplitOnce
    <3> QED
      BY <3>3, <2>1, <2>5, <1>5
  <2> QED
    BY <2>4, <2>5
<1>17. \A t \in ColumnsAt(q) : Seen(q.root, q.way \o t)' <=> t = <<>>
  <2> SUFFICES ASSUME NEW t \in ColumnsAt(q) PROVE Seen(q.root, q.way \o t)' <=> t = <<>>
    OBVIOUS
  <2>1. t \in Seq(Steps) /\ IsWay(PlanRoots[q.root].of, q.way \o t)
    BY <1>t, ColumnIs
  <2>2. t \in Seq(Frames)
    <3>1. \A k \in 1..Len(t) : t[k] \in Frames
      BY <2>1, <1>t, StepIs, ElementOfSeq
    <3>2. t = [k \in 1..Len(t) |-> t[k]] /\ Len(t) \in Nat
      BY <2>1
    <3> QED
      BY <3>1, <3>2
  <2>3. Seen(q.root, q.way \o t)' <=> q.way \o t = q.way
    BY <2>1, <2>2, <1>15
  <2>4. q.way \o t = q.way <=> t = <<>>
    <3>1. Len(q.way \o t) = Len(q.way) + Len(t) /\ Len(q.way) \in Nat /\ Len(t) \in Nat
      BY <2>1, <1>15, ConcatProperties
    <3>2. q.way \o t = q.way => Len(t) = 0
      BY <3>1
    <3>3. Len(t) = 0 <=> t = <<>>
      BY <2>1, EmptySeq
    <3>4. t = <<>> => q.way \o t = q.way
      BY <1>15, ConcatEmptySeq
    <3> QED
      BY <3>2, <3>3, <3>4
  <2> QED
    BY <2>3, <2>4
<1>18. \A p \in Handled' :
         /\ \A i \in 1..Len(g) :
              g[i].name = NameAt(p) =>
                g[i].columns = {t \in ColumnsAt(p) : Seen(p.root, p.way \o t)'}
         /\ \A t \in ColumnsAt(p) : Seen(p.root, p.way \o t)' /\ Len(t) = 1 =>
              Field(t[1]).name \notin ReservedColumns
  <2> SUFFICES ASSUME NEW p \in Handled'
               PROVE  /\ \A i \in 1..Len(g) :
                           g[i].name = NameAt(p) =>
                             g[i].columns = {t \in ColumnsAt(p) : Seen(p.root, p.way \o t)'}
                      /\ \A t \in ColumnsAt(p) : Seen(p.root, p.way \o t)' /\ Len(t) = 1 =>
                           Field(t[1]).name \notin ReservedColumns
    OBVIOUS
  <2>1. CASE p \in Handled
    <3>1. /\ \A i \in 1..n :
               relations[i].name = NameAt(p) =>
                 relations[i].columns = {t \in ColumnsAt(p) : Seen(p.root, p.way \o t)}
          /\ \A t \in ColumnsAt(p) : Seen(p.root, p.way \o t) /\ Len(t) = 1 =>
               Field(t[1]).name \notin ReservedColumns
      BY <2>1, <1>n DEF ResultInv, ColumnsInv
    <3>2. {t \in ColumnsAt(p) : Seen(p.root, p.way \o t)'} = {t \in ColumnsAt(p) : Seen(p.root, p.way \o t)}
      BY <2>1, <1>16
    <3>3. \A i \in 1..Len(g) : g[i].name = NameAt(p) => i \in 1..n /\ g[i] = relations[i]
      BY <2>1, <1>1, <1>11
    <3>4. \A t \in ColumnsAt(p) : Seen(p.root, p.way \o t)' /\ Len(t) = 1 =>
            Field(t[1]).name \notin ReservedColumns
      BY <3>1, <2>1, <1>16
    <3> QED
      BY <3>1, <3>2, <3>3, <3>4
  <2>2. CASE p = q
    <3>1. \A i \in 1..Len(g) : g[i].name = NameAt(q) => g[i] = r
      BY <1>1, <1>10
    <3>2. {t \in ColumnsAt(q) : Seen(q.root, q.way \o t)'} = IF MessageAt(q) = "scalar" THEN {<<>>} ELSE {}
      <4>1. CASE MessageAt(q) = "scalar"
        <5>1. ColumnsAt(q) = {<<>>}
          BY <4>1 DEF ColumnsAt
        <5>2. \A t \in {<<>>} : Seen(q.root, q.way \o t)' /\ t = <<>>
          BY <5>1, <1>17
        <5>3. {t \in ColumnsAt(q) : Seen(q.root, q.way \o t)'} = ColumnsAt(q)
          BY <5>1, <5>2
        <5> QED
          BY <4>1, <5>1, <5>3
      <4>2. CASE MessageAt(q) # "scalar"
        <5>1. \A t \in ColumnsAt(q) : t # <<>>
          BY <4>2 DEF ColumnsAt
        <5> QED
          BY <4>2, <5>1, <1>17
      <4> QED
        BY <4>1, <4>2
    <3>3. \A t \in ColumnsAt(q) : ~(Seen(q.root, q.way \o t)' /\ Len(t) = 1)
      <4> SUFFICES ASSUME NEW t \in ColumnsAt(q), Seen(q.root, q.way \o t)', Len(t) = 1 PROVE FALSE
        OBVIOUS
      <4>1. t = <<>>
        BY <1>17
      <4>2. Len(t) = 0
        BY ONLY <4>1
      <4> QED
        BY <4>2
    <3> QED
      BY <2>2, <3>1, <3>2, <3>3
  <2> QED
    BY <2>1, <2>2, <1>6
<1>19. ColumnsInv'
  <2> SUFFICES ASSUME NEW p \in Handled'
               PROVE  /\ \A i \in 1..Len(g) :
                           g[i].name = NameAt(p)' =>
                             g[i].columns = {t \in ColumnsAt(p)' : Seen(p.root, p.way \o t)'}
                      /\ \A t \in ColumnsAt(p)' : Seen(p.root, p.way \o t)' /\ Len(t) = 1 =>
                           Field(t[1])'.name \notin ReservedColumns
    BY <1>g DEF ColumnsInv
  <2>1. /\ \A i \in 1..Len(g) :
             g[i].name = NameAt(p) =>
               g[i].columns = {t \in ColumnsAt(p) : Seen(p.root, p.way \o t)'}
        /\ \A t \in ColumnsAt(p) : Seen(p.root, p.way \o t)' /\ Len(t) = 1 =>
             Field(t[1]).name \notin ReservedColumns
    BY <1>18
  <2>2. NameAt(p)' = NameAt(p) /\ ColumnsAt(p)' = ColumnsAt(p)
    BY <1>3
  <2>3. \A t : Field(t[1])' = Field(t[1])
    BY <1>4
  <2>4. \A i \in 1..Len(g) : g[i].name = NameAt(p)' =>
          g[i].columns = {t \in ColumnsAt(p)' : Seen(p.root, p.way \o t)'}
    BY <2>1, <2>2
  <2>5. \A t \in ColumnsAt(p)' : Seen(p.root, p.way \o t)' /\ Len(t) = 1 => Field(t[1])'.name \notin ReservedColumns
    BY <2>1, <2>2, <2>3
  <2> QED
    BY <2>4, <2>5
<1> QED
  BY <1>14, <1>19

\* A root: its relation, and the call for its columns.
LEMMA RootName ==
  ASSUME NEW i \in 1..Len(PlanRoots)
  PROVE  NameAt([root |-> i, way |-> <<>>]) = PlanRoots[i].name
<1>r. PICK r : r = PlanRoots[i].name
  OBVIOUS
<1>1. r \in Seq(STRING)
  BY <1>r, RootIs
<1>2. Len(<<>>) = 0 /\ [k \in 1..0 |-> Field(<<>>[k]).name] = <<>>
  OBVIOUS
<1>3. FlattenSeq(<<>>) = <<>>
  BY <1>2 DEF FlattenSeq
<1>4. r \o <<>> = r
  BY <1>1, ConcatEmptySeq
<1> QED
  BY <1>2, <1>3, <1>4, <1>r DEF NameAt

LEMMA PlanRootResult ==
  PlanType /\ SupportedInv /\ CallsInv /\ ResultInv /\ PlanRoot => ResultInv' /\ CallsInv'
<1> SUFFICES ASSUME PlanType, SupportedInv, CallsInv, ResultInv, PlanRoot PROVE ResultInv' /\ CallsInv'
  OBVIOUS
<1>m. PICK m : m = PlanRoots[root].of
  OBVIOUS
<1>q. PICK q : q = [root |-> root, way |-> <<>>]
  OBVIOUS
<1>a. PICK a : a = PlanRoots[root].name
  OBVIOUS
<1>n. PICK n : n = Len(relations)
  OBVIOUS
<1>r. PICK r : r = Relation(a, m, "root", 0, 0, {})
  OBVIOUS
<1>c. PICK c : c = ColumnsCall(m, n + 1, a, <<>>)
  OBVIOUS
<1>1. /\ root \in 1..Len(PlanRoots) /\ calls = <<>> /\ SchemaType /\ UNCHANGED schema
      /\ relations \in Seq(RelationRecords) /\ n \in Nat
  BY <1>n DEF PlanRoot, PlanType
<1>2. m \in Messages /\ Supported(m) /\ a \in Seq(STRING) /\ m # "scalar"
  BY <1>1, <1>m, <1>a, RootIs, MessagesAssumption DEF SupportedInv, PlanRoot
<1>3. q.root = root /\ q.way = <<>>
  BY <1>q
<1>4. q \in Places
  <2>1. IsWay(m, <<>>)
    BY <1>1, WayOfOne
  <2>x. PICK x : x = <<>>
    OBVIOUS
  <2>2. [root |-> root, way |-> x] \in Places
    BY <2>1, <2>x, <1>1, <1>2, <1>m, IsPlace
  <2> QED
    BY <2>2, <2>x, <1>q
<1>5. ASSUME NEW s \in Seq(Frames) PROVE ~Seen(root, s)
  <2>1. WayTo(calls, Len(calls)) = <<>>
    BY <1>1 DEF WayTo
  <2>2. ~Behind(<<>>, s)
    BY NothingBehind
  <2>3. ~(root < root)
    BY <1>1
  <2> QED
    BY <2>1, <2>2, <2>3 DEF Seen
<1>6. q \notin Handled
  <2>1. <<>> \in Seq(Frames)
    OBVIOUS
  <2>2. ~Seen(q.root, q.way)
    BY <2>1, <1>3, <1>5
  <2> QED
    BY <2>2 DEF Handled
<1>7. NameAt(q) = a /\ MessageAt(q) = m
  BY <1>1, <1>3, <1>a, <1>m, <1>q, RootName DEF MessageAt
<1>8. CASE ~MayRegister(a)
  <2>1. ~Acceptable
    BY <1>4, <1>6, <1>7, <1>8, CannotRegister
  <2>2. Refuse
    BY <1>8, <1>a DEF PlanRoot
  <2> QED
    BY <2>1, <2>2, <1>1, RefuseIsSound
<1>9. CASE MayRegister(a)
  <2>1. /\ relations' = Append(relations, r) /\ calls' = <<c>> /\ task' = "columns" /\ UNCHANGED <<root, refused>>
    BY <1>9, <1>a, <1>m, <1>n, <1>r, <1>c DEF PlanRoot
  <2>2. c \in ColumnCalls
    BY <1>1, <1>2, <1>c DEF ColumnsCall, ColumnCalls
  <2>3. c.of = m /\ c.at = 1 /\ c.slot = n + 1 /\ c.name = a /\ c.arrow = <<>>
    BY <1>c DEF ColumnsCall
  <2>4. r \in RelationRecords
    BY <1>2, <1>r DEF Relation, RelationRecords, RelationKinds
  <2>5. r.name = a /\ r.of = m /\ r.kind = "root" /\ r.parent = 0 /\ r.columns = {}
    BY <1>r DEF Relation
  <2>6. calls' = Append(calls, c)
    BY <2>1, <1>1
  <2>7. ASSUME NEW i \in 1..Len(PlanRoots), NEW s, IsWay(PlanRoots[i].of, s)
        PROVE  Seen(i, s)' <=> Seen(i, s) \/ (i = q.root /\ s = q.way)
    <3>1. s \in Seq(Frames)
      BY <2>7, <1>1, WayIsFrames
    <3>2. WayTo(calls, Len(calls)) = <<>>
      BY <1>1 DEF WayTo
    <3>3. Seen(i, s)' <=> Seen(i, s) \/ (i = root /\ s = WayTo(calls, Len(calls)))
      BY <3>1, <2>1, <2>2, <2>3, <2>6, EnterSeen
    <3> QED
      BY <3>2, <3>3, <1>3
  <2>8. \A s \in Seq(Frames) : ~Seen(q.root, q.way \o s)
    <3>1. \A s \in Seq(Frames) : q.way \o s = s
      BY <1>3, ConcatEmptySeq
    <3> QED
      BY <3>1, <1>3, <1>5
  <2>9. ~refused => \A i \in 1..root' - 1 : Supported(PlanRoots[i].of)
    BY <2>1 DEF ResultInv, RelationsInv
  <2>10. ResultInv'
    BY <1>1, <1>2, <1>3, <1>4, <1>6, <1>7, <1>9, <2>1, <2>4, <2>5, <2>7, <2>8, <2>9, Registered
  <2>g. PICK g : g = calls'
    OBVIOUS
  <2>11. Len(g) = 1 /\ g[1] = c /\ g # <<>>
    BY <2>1, <2>g
  <2>12. Chained(g)
    <3>1. ~ \E k : k \in 1..Len(g) - 1
      BY <2>11
    <3>2. Len(schema[m]) \in Nat
      BY <1>1, <1>2, StepIs
    <3>3. \A k \in 1..Len(g) : g[k] = c
      BY <2>11
    <3>4. c.at <= Len(schema[c.of]) + 1
      BY <3>2, <2>3
    <3> QED
      BY <3>1, <3>3, <3>4 DEF Chained
  <2>13. CallFor(c, WayTo(g, 0))'
    <3>1. WayTo(g, 0) = <<>> /\ WayTo(g, 0)' = <<>>
      BY DEF WayTo
    <3>2. q \in Places' /\ NameAt(q)' = a
      BY <1>1, <1>4, <1>7, SameGraph
    <3>3. relations'[n + 1] = r
      BY <1>1, <1>n, <2>1, <2>4, AppendIs
    <3>4. q.way \o c.arrow = <<>> /\ Len(c.arrow) = 0
      <4>1. <<>> \o <<>> = <<>> /\ Len(<<>>) = 0
        OBVIOUS
      <4> QED
        BY <4>1, <1>3, <2>3
    <3>5. \A j \in 1..Len(c.arrow) : ~OwnRelation(Field(c.arrow[j]))'
      BY <3>4
    <3> QED
      BY <3>1, <3>2, <3>3, <3>4, <3>5, <1>3, <2>1, <2>3, <2>5 DEF CallFor
  <2>14. CallsInv'
    <3>1. \A k \in 1..Len(g) : k = 1 /\ k - 1 = 0
      BY <2>11
    <3>2. \A k \in 1..Len(g) : CallFor(g[k], WayTo(g, k - 1))'
      <4> TAKE k \in 1..Len(g)
      <4>1. g[k] = c /\ WayTo(g, k - 1) = WayTo(g, 0)
        BY <3>1, <2>11
      <4> QED
        BY <4>1, <2>13
    <3>3. Chained(g)'
      BY <2>12, <1>1 DEF Chained, AtField, Field
    <3> QED
      BY <3>2, <3>3, <2>1, <2>3, <2>11, <2>g, <1>m DEF CallsInv, WayTo
  <2> QED
    BY <2>10, <2>14
<1> QED
  BY <1>8, <1>9

\* The calls that stay are for the places they were for.
LEMMA CallsOf ==
  ASSUME PlanType, CallsInv, calls # <<>>, UNCHANGED <<schema, root>>, NEW g, NEW n \in Nat, n <= Len(calls),
         \A k \in 1..n : g[k].slot = calls[k].slot /\ g[k].name = calls[k].name /\ g[k].arrow = calls[k].arrow,
         \A k \in 1..n - 1 : g[k].of = calls[k].of /\ g[k].at = calls[k].at,
         \A k \in 1..Len(relations) : relations'[k].name = relations[k].name
  PROVE  \A k \in 1..n : CallFor(g[k], WayTo(g, k - 1))'
<1> SUFFICES ASSUME NEW k \in 1..n PROVE CallFor(g[k], WayTo(g, k - 1))'
  OBVIOUS
<1>1. k \in 1..Len(calls) /\ k - 1 \in Nat /\ \A j \in 1..k - 1 : j \in 1..n - 1
  <2>1. Len(calls) \in Nat
    BY DEF PlanType
  <2> QED
    BY <2>1
<1>w. PICK w : w = WayTo(calls, k - 1)
  OBVIOUS
<1>c. PICK c : c = calls[k]
  OBVIOUS
<1>d. PICK d : d = g[k]
  OBVIOUS
<1>2. CallFor(c, w)
  BY <1>1, <1>w, <1>c DEF CallsInv
<1>3. WayTo(g, k - 1) = w
  BY <1>1, <1>w, SameWayTo
<1>4. c.slot \in 1..Len(relations)
  BY <1>1, <1>c DEF PlanType
<1>5. d.slot = c.slot /\ d.name = c.name /\ d.arrow = c.arrow /\ relations'[c.slot].name = relations[c.slot].name
  BY <1>4, <1>c, <1>d
<1>6. CallFor(d, w)'
  BY <1>2, <1>5, CallForStays
<1> QED
  BY <1>3, <1>6, <1>d DEF CallFor, WayTo

LEMMA CallsPushed ==
  ASSUME PlanType, SupportedInv, CallsInv, task = "columns", AtField(Here), UNCHANGED <<schema, root>>,
         NEW c \in ColumnCalls, c.of = Field(Here).to, c.at = 1, calls' = Append(calls, c),
         \A k \in 1..Len(relations) : relations'[k].name = relations[k].name,
         NEW w, w = WayTo(calls, Len(calls)), CallFor(c, w)'
  PROVE  CallsInv'
<1>n. PICK n : n = Len(calls)
  OBVIOUS
<1>g. PICK g : g = calls'
  OBVIOUS
<1>1. /\ SchemaType /\ calls # <<>> /\ calls \in Seq(ColumnCalls) /\ Steady(ColumnCalls) /\ n \in Nat /\ n >= 1
      /\ Chained(calls) /\ calls[1].of = PlanRoots[root].of
  <2>m. PICK m : m = PlanRoots[root].of
    OBVIOUS
  <2>b. PICK b : b = WayTo(calls, n - 1)
    OBVIOUS
  <2>w. PICK v : v = WayTo(calls, n)
    OBVIOUS
  <2>e. PICK e : e = [of |-> Here.of, at |-> Here.at]
    OBVIOUS
  <2> QED
    BY <1>n, <2>m, <2>b, <2>w, <2>e, CallIs
<1>2. g \in Seq(ColumnCalls) /\ Len(g) = n + 1 /\ g[n + 1] = c /\ g # <<>> /\ \A k \in 1..n : g[k] = calls[k]
  BY <1>1, <1>g, <1>n, AppendIs
<1>3. Chained(g)
  <2>1. Here = Last(calls)
    BY DEF Here
  <2>2. c.of = Field(Last(calls)).to /\ c.at = 1 /\ AtField(Last(calls))
    BY <2>1
  <2>3. Chained(Append(calls, c))
    BY <2>2, <1>1, ChainedSteps
  <2> QED
    BY <2>3, <1>g
<1>4. \A k \in 1..n - 1 : k \in 1..n
  BY <1>1
<1>5. \A k \in 1..n : CallFor(g[k], WayTo(g, k - 1))'
  <2>1. \A k \in 1..n : g[k].slot = calls[k].slot /\ g[k].name = calls[k].name /\ g[k].arrow = calls[k].arrow
    BY <1>2
  <2>2. \A k \in 1..n - 1 : g[k].of = calls[k].of /\ g[k].at = calls[k].at
    BY <1>2, <1>4
  <2>3. n \in Nat /\ n <= Len(calls)
    BY <1>1, <1>n
  <2> QED
    BY <1>1, <2>1, <2>2, <2>3, CallsOf
<1>6. WayTo(g, n) = w
  BY <1>1, <1>2, <1>n, SameWayTo
<1>7. \A k \in 1..n + 1 : k \in 1..n \/ (k = n + 1 /\ k - 1 = n)
  BY <1>1
<1>8. CallFor(g[n + 1], WayTo(g, n))'
  BY <1>2, <1>6 DEF CallFor, WayTo
<1>9. \A k \in 1..n + 1 : CallFor(g[k], WayTo(g, k - 1))'
  BY <1>5, <1>7, <1>8
<1>10. g[1].of = PlanRoots[root].of
  <2>1. 1 \in 1..n
    BY <1>1
  <2> QED
    BY <2>1, <1>1, <1>2
<1>11. Chained(g)'
  BY <1>3 DEF Chained, AtField, Field
<1> QED
  BY <1>2, <1>9, <1>10, <1>11, <1>g DEF CallsInv, WayTo

\* A call that goes on is for the same place.
LEMMA CallAdvances ==
  ASSUME NEW c \in ColumnCalls, NEW d, d = [c EXCEPT !.at = @ + 1]
  PROVE  d.slot = c.slot /\ d.name = c.name /\ d.arrow = c.arrow
BY DEF ColumnCalls

LEMMA CallsAdvanced ==
  ASSUME PlanType, SupportedInv, CallsInv, task = "columns", AtField(Here), UNCHANGED <<schema, root>>,
         calls' = Advanced(calls),
         \A k \in 1..Len(relations) : relations'[k].name = relations[k].name
  PROVE  CallsInv'
<1>n. PICK n : n = Len(calls)
  OBVIOUS
<1>g. PICK g : g = calls'
  OBVIOUS
<1>1. /\ SchemaType /\ calls # <<>> /\ calls \in Seq(ColumnCalls) /\ Steady(ColumnCalls) /\ n \in Nat /\ n >= 1
      /\ n \in 1..n /\ Chained(calls) /\ calls[1].of = PlanRoots[root].of /\ Here = calls[n] /\ Here \in ColumnCalls
  <2>m. PICK m : m = PlanRoots[root].of
    OBVIOUS
  <2>b. PICK b : b = WayTo(calls, n - 1)
    OBVIOUS
  <2>w. PICK w : w = WayTo(calls, n)
    OBVIOUS
  <2>e. PICK e : e = [of |-> Here.of, at |-> Here.at]
    OBVIOUS
  <2> QED
    BY <1>n, <2>m, <2>b, <2>w, <2>e, CallIs
<1>2. Len(g) = n /\ g # <<>>
  BY <1>1, <1>g, <1>n, AdvancedIs
<1>3. \A k \in 1..n - 1 : g[k] = calls[k]
  BY <1>1, <1>g, <1>n, AdvancedIs
<1>4. g[n] = [calls[n] EXCEPT !.at = @ + 1]
  BY <1>1, <1>g, <1>n, AdvancedIs
<1>5. g[n].of = calls[n].of /\ g[n].slot = calls[n].slot /\ g[n].name = calls[n].name /\ g[n].arrow = calls[n].arrow
  <2>1. g[n].of = calls[n].of
    BY <1>1, <1>4 DEF Steady
  <2>2. g[n].slot = calls[n].slot /\ g[n].name = calls[n].name /\ g[n].arrow = calls[n].arrow
    BY <1>1, <1>4, CallAdvances
  <2> QED
    BY <2>1, <2>2
<1>6. \A k \in 1..n : k \in 1..n - 1 \/ k = n
  BY <1>1
<1>7. \A k \in 1..n : g[k].slot = calls[k].slot /\ g[k].name = calls[k].name /\ g[k].arrow = calls[k].arrow
  BY <1>3, <1>5, <1>6
<1>8. \A k \in 1..n : CallFor(g[k], WayTo(g, k - 1))'
  <2>1. \A k \in 1..n - 1 : g[k].of = calls[k].of /\ g[k].at = calls[k].at
    BY <1>3
  <2>2. n \in Nat /\ n <= Len(calls)
    BY <1>1, <1>n
  <2> QED
    BY <1>1, <1>7, <2>1, <2>2, CallsOf
<1>9. Chained(g)'
  <2>1. Here = Last(calls)
    BY DEF Here
  <2>2. Chained(Advanced(calls))
    BY <2>1, <1>1, ChainedSteps
  <2> QED
    BY <2>2, <1>g DEF Chained, AtField, Field
<1>10. g[1].of = PlanRoots[root].of
  <2>1. 1 \in 1..n
    BY <1>1
  <2> QED
    BY <2>1, <1>1, <1>3, <1>5, <1>6
<1> QED
  BY <1>2, <1>8, <1>9, <1>10, <1>g DEF CallsInv, WayTo

LEMMA EndColumnsResult ==
  PlanType /\ SupportedInv /\ CallsInv /\ ResultInv /\ EndColumns => ResultInv' /\ CallsInv'
<1> SUFFICES ASSUME PlanType, SupportedInv, CallsInv, ResultInv, EndColumns PROVE ResultInv' /\ CallsInv'
  OBVIOUS
<1>n. PICK n : n = Len(calls)
  OBVIOUS
<1>g. PICK g : g = calls'
  OBVIOUS
<1>1. task = "columns" /\ calls # <<>> /\ calls' = Returned(calls) /\ UNCHANGED <<schema, relations, refused>>
  BY DEF EndColumns, Planning, PlanType
<1>2. /\ SchemaType /\ calls \in Seq(ColumnCalls) /\ Steady(ColumnCalls) /\ n \in Nat /\ n >= 1
      /\ Chained(calls) /\ calls[1].of = PlanRoots[root].of
      /\ root \in 1..Len(PlanRoots) /\ Supported(PlanRoots[root].of)
  <2>m. PICK m : m = PlanRoots[root].of
    OBVIOUS
  <2>b. PICK b : b = WayTo(calls, n - 1)
    OBVIOUS
  <2>w. PICK w : w = WayTo(calls, n)
    OBVIOUS
  <2>e. PICK e : e = [of |-> Here.of, at |-> Here.at]
    OBVIOUS
  <2> QED
    BY <1>1, <1>n, <2>m, <2>b, <2>w, <2>e, CallIs
<1>3. ~refused => \A i \in 1..root' - 1 : Supported(PlanRoots[i].of)
  <2>1. ~refused => \A i \in 1..root - 1 : Supported(PlanRoots[i].of)
    BY DEF ResultInv, RelationsInv
  <2>2. root' = root \/ root' = root + 1
    BY DEF EndColumns
  <2>3. \A i \in 1..root' - 1 : i \in 1..root - 1 \/ i = root
    <3>1. root \in Nat
      BY <1>2
    <3> QED
      BY <3>1, <2>2
  <2> QED
    BY <2>1, <2>3, <1>2
<1>4. \A i \in 1..Len(PlanRoots) : \A s : IsWay(PlanRoots[i].of, s) => (Seen(i, s)' <=> Seen(i, s))
  BY ReturnSeen
<1>5. ResultInv'
  BY <1>1, <1>3, <1>4, ResultStays
<1>6. CASE n = 1
  <2>1. calls' = <<>>
    BY <1>1, <1>6, <1>n DEF Returned
  <2> QED
    BY <2>1, <1>5 DEF CallsInv
<1>7. CASE n # 1
  <2>f. PICK f : f = Front(calls)
    OBVIOUS
  <2>l. PICK l : l = n - 1
    OBVIOUS
  <2>1. UNCHANGED root /\ calls' = Advanced(f)
    BY <1>1, <1>7, <1>n, <2>f DEF EndColumns, Returned
  <2>2. f \in Seq(ColumnCalls) /\ Len(f) = l /\ f # <<>>
    <3>1. Front(calls) \in Seq(ColumnCalls)
      BY <1>1, <1>2, FrontIs
    <3>2. Len(Front(calls)) = Len(calls) - 1
      BY <1>1, <1>2, FrontIs
    <3>3. Len(calls) = 1 <=> Front(calls) = <<>>
      BY <1>1, <1>2, FrontIs
    <3> QED
      BY <3>1, <3>2, <3>3, <1>7, <1>n, <2>f, <2>l
  <2>3. \A k \in 1..l : f[k] = calls[k]
    BY <1>1, <1>2, <1>n, <2>f, <2>l, FrontElements
  <2>4. Len(g) = l /\ g # <<>>
    BY <2>1, <2>2, <1>g, <1>2, AdvancedIs
  <2>5. \A k \in 1..l - 1 : g[k] = f[k]
    BY <2>1, <2>2, <1>g, <1>2, AdvancedIs
  <2>6. g[l] = [f[l] EXCEPT !.at = @ + 1]
    BY <2>1, <2>2, <1>g, <1>2, AdvancedIs
  <2>7. l \in 1..l /\ l \in Nat /\ l <= n /\ (\A k \in 1..l - 1 : k \in 1..l) /\ (\A k \in 1..l : k \in 1..l - 1 \/ k = l)
        /\ 1 \in 1..l
    BY <1>2, <1>7, <2>l
  <2>8. f[l] \in ColumnCalls /\ f[l] = calls[l]
    BY <2>2, <2>3, <2>7, ElementOfSeq
  <2>9. g[l].of = f[l].of
    BY <2>6, <2>8, <1>2 DEF Steady
  <2>10. g[l].slot = f[l].slot /\ g[l].name = f[l].name /\ g[l].arrow = f[l].arrow
    BY <2>6, <2>8, CallAdvances
  <2>11. \A k \in 1..l : g[k].slot = calls[k].slot /\ g[k].name = calls[k].name /\ g[k].arrow = calls[k].arrow
    BY <2>3, <2>5, <2>7, <2>10
  <2>12. \A k \in 1..l - 1 : g[k].of = calls[k].of /\ g[k].at = calls[k].at
    BY <2>3, <2>5, <2>7
  <2>13. \A k \in 1..l : CallFor(g[k], WayTo(g, k - 1))'
    BY <1>1, <1>n, <2>1, <2>7, <2>11, <2>12, CallsOf
  <2>14. Chained(g)'
    <3>1. Chained(f)
      BY <1>1, <1>2, <2>f, ChainedSteps
    <3>2. AtField(calls[n - 1])
      BY <1>1, <1>2, <1>7, <1>n, ChainedSteps
    <3>3. AtField(Last(f))
      BY <3>2, <2>2, <2>8, <2>l DEF Last
    <3>4. Chained(Advanced(f))
      BY <3>1, <3>3, <1>2, <2>2, ChainedSteps
    <3> QED
      BY <3>4, <2>1, <1>g, <1>1 DEF Chained, AtField, Field
  <2>15. g[1].of = PlanRoots[root].of
    BY <2>3, <2>5, <2>7, <2>9, <1>2
  <2>16. CallsInv'
    BY <2>1, <2>4, <2>13, <2>14, <2>15, <1>g DEF CallsInv, WayTo
  <2> QED
    BY <2>16, <1>5
<1> QED
  BY <1>6, <1>7

-----------------------------------------------------------------------------
(* A field that becomes a relation or a column. *)

LEMMA PassAdds ==
  ASSUME PlanType, SupportedInv, CallsInv, task = "columns", AtField(Here), UNCHANGED <<schema, root>>,
         NEW w, w = WayTo(calls, Len(calls)),
         IF IsMessage(Field(Here)) THEN \E c \in ColumnCalls : c.at = 1 /\ calls' = Append(calls, c)
                                   ELSE calls' = Advanced(calls),
         NEW i \in 1..Len(PlanRoots), NEW s, IsWay(PlanRoots[i].of, s)
  PROVE  Seen(i, s)' <=> Seen(i, s) \/ (i = root /\ s = w)
<1>m. PICK m : m = PlanRoots[root].of
  OBVIOUS
<1>n. PICK n : n = Len(calls)
  OBVIOUS
<1>b. PICK b : b = WayTo(calls, n - 1)
  OBVIOUS
<1>e. PICK e : e = [of |-> Here.of, at |-> Here.at]
  OBVIOUS
<1>f. PICK f : f = Field(Here)
  OBVIOUS
<1>1. SchemaType /\ calls # <<>> /\ w \in Seq(Frames)
  BY <1>m, <1>n, <1>b, <1>e, CallIs
<1>2. IsWay(m, w) /\ w # <<>> /\ Last(w) = e /\ Field(e) = f
  BY <1>m, <1>n, <1>b, <1>e, <1>f, CallFieldIs
<1>3. s \in Seq(Frames)
  BY <1>1, WayIsFrames
<1>4. CASE IsMessage(f)
  <2>1. PICK c \in ColumnCalls : c.at = 1 /\ calls' = Append(calls, c)
    BY <1>4, <1>f
  <2> QED
    BY <2>1, <1>3, EnterSeen
<1>5. CASE ~IsMessage(f)
  <2>1. Seen(i, s)' <=> Seen(i, s) \/ (i = root /\ Under(w, s))
    BY <1>1, <1>3, <1>5, <1>f, PassSeen
  <2>2. Under(w, w)
    BY <1>1, UnderItself
  <2>3. i = root /\ Under(w, s) => s = w
    BY <1>1, <1>2, <1>5, <1>m, NoWayOn
  <2> QED
    BY <2>1, <2>2, <2>3
<1> QED
  BY <1>4, <1>5

\* Nothing that begins with the way of the call has been seen.
LEMMA AheadOfCall ==
  ASSUME PlanType, root \in Nat, NEW w \in Seq(Frames), w = WayTo(calls, Len(calls)), NEW s \in Seq(Frames)
  PROVE  ~Seen(root, w \o s)
<1>1. Under(w, w \o s)
  BY UnderItself
<1>2. w \o s \in Seq(Frames)
  BY ConcatProperties
<1>3. ~Behind(w, w \o s)
  BY <1>1, <1>2, UnderIsAhead
<1> QED
  BY <1>3 DEF Seen

\* What is known decides rightly.
LEMMA FieldKnown ==
  ASSUME AskInv, asking = <<>>, NEW f, IsMessage(f) => f.to \in Messages
  PROVE  (GetsRelation(f) => OwnRelation(f)) /\ (GetsColumn(f) => ~OwnRelation(f))
<1>1. IsMessage(f) => Known(f.to)
  <2>1. ~ \E k \in 1..Len(asking) : asking[k].of = f.to
    <3>1. Len(asking) = 0
      OBVIOUS
    <3>2. ~ \E k : k \in 1..0
      OBVIOUS
    <3> QED
      BY <3>1, <3>2
  <2> QED
    BY <2>1 DEF AskInv, MemoInv
<1> QED
  BY <1>1 DEF Known, GetsRelation, GetsColumn, Several, Single, OwnRelation, Multiple

\* A struct holds no field that has a relation.
LEMMA NoArrow ==
  ASSUME SchemaType, Here.of \in Messages, Supported(Here.of), Here.at \in 1..Len(schema[Here.of]),
         OwnRelation(schema[Here.of][Here.at]),
         Here.arrow \in Seq(Steps), NEW m, EndOf(m, Here.arrow) = Here.of,
         \A j \in 1..Len(Here.arrow) : ~OwnRelation(Field(Here.arrow[j]))
  PROVE  Here.arrow = <<>>
<1> SUFFICES ASSUME Here.arrow # <<>> PROVE FALSE
  OBVIOUS
<1>a. PICK a : a = Here.arrow
  OBVIOUS
<1>h. PICK h : h = Field(Last(a))
  OBVIOUS
<1>1. Len(a) \in 1..Len(a) /\ Last(a) = a[Len(a)]
  <2>1. a \in Seq(Steps) /\ a # <<>>
    BY <1>a
  <2>2. Len(a) \in Nat /\ Len(a) >= 1
    BY <2>1, EmptySeq
  <2> QED
    BY <2>2 DEF Last
<1>2. ~OwnRelation(h)
  BY <1>1, <1>a, <1>h
<1>3. h.to = Here.of
  BY <1>a, <1>h DEF EndOf
<1>4. IsMessage(h)
  BY <1>3, MessagesAssumption DEF IsMessage
<1>5. ~Spread(Here.of)
  BY <1>2, <1>3, <1>4 DEF OwnRelation
<1>6. Spread(Here.of)
  BY SpreadIs
<1> QED
  BY <1>5, <1>6

LEMMA PlanChildResult ==
  PlanType /\ SupportedInv /\ CallsInv /\ AskInv /\ ResultInv /\ PlanChild => ResultInv' /\ CallsInv'
<1> SUFFICES ASSUME PlanType, SupportedInv, CallsInv, AskInv, ResultInv, PlanChild PROVE ResultInv' /\ CallsInv'
  OBVIOUS
<1>m. PICK m : m = PlanRoots[root].of
  OBVIOUS
<1>n. PICK n : n = Len(calls)
  OBVIOUS
<1>b. PICK b : b = WayTo(calls, n - 1)
  OBVIOUS
<1>w. PICK w : w = WayTo(calls, n)
  OBVIOUS
<1>e. PICK e : e = [of |-> Here.of, at |-> Here.at]
  OBVIOUS
<1>f. PICK f : f = Field(Here)
  OBVIOUS
<1>a. PICK a : a = Here.name \o f.name
  OBVIOUS
<1>q. PICK q : q = [root |-> root, way |-> w]
  OBVIOUS
<1>l. PICK l : l = Len(relations) + 1
  OBVIOUS
<1>r. PICK r : r = Relation(a, f.to, Kind(f), Here.slot, Here.at, IF IsMessage(f) THEN {} ELSE {<<>>})
  OBVIOUS
<1>c. PICK c : c = ColumnsCall(f.to, l, a, <<>>)
  OBVIOUS
<1>1. task = "columns" /\ asking = <<>> /\ AtField(Here) /\ GetsRelation(f) /\ UNCHANGED schema
      /\ relations \in Seq(RelationRecords) /\ Len(relations) \in Nat
  BY <1>f DEF PlanChild, Planning, PlanType
<1>2. /\ SchemaType /\ calls # <<>> /\ root \in 1..Len(PlanRoots) /\ root \in Nat /\ m \in Messages /\ Supported(m)
      /\ Here.of \in Messages /\ Here.at \in Nat \ {0} /\ Here.slot \in 1..Len(relations) /\ Here.name \in Seq(STRING)
      /\ Supported(Here.of) /\ w \in Seq(Frames) /\ w = Append(b, e) /\ b \in Seq(Frames)
  BY <1>1, <1>m, <1>n, <1>b, <1>w, <1>e, CallIs
<1>3. /\ e \in Steps /\ Field(e) = f /\ f \in Fields /\ f.name \in Seq(STRING)
      /\ f = schema[Here.of][Here.at] /\ Here.at \in 1..Len(schema[Here.of])
      /\ IsMessage(f) <=> f.to \in Messages
      /\ IsWay(m, w) /\ w # <<>> /\ Last(w) = e /\ Front(w) = b /\ b \in Seq(Steps)
  BY <1>1, <1>m, <1>n, <1>b, <1>w, <1>e, <1>f, CallFieldIs
<1>4. OwnRelation(f)
  BY <1>1, <1>3, FieldKnown
<1>5. PICK p \in Handled :
        /\ p.root = root /\ p.way \in Seq(Steps) /\ p.way \o Here.arrow = b /\ Here.arrow \in Seq(Steps)
        /\ Here.name = NameAt(p) /\ relations[Here.slot].name = NameAt(p)
        /\ \A j \in 1..Len(Here.arrow) : ~OwnRelation(Field(Here.arrow[j]))
        /\ IsWay(MessageAt(p), Here.arrow) /\ EndOf(MessageAt(p), Here.arrow) = Here.of
  BY <1>1, <1>m, <1>n, <1>b, PlaceOfCall
<1>6. Here.arrow = <<>>
  BY <1>2, <1>3, <1>4, <1>5, NoArrow
<1>7. p = [root |-> root, way |-> b]
  <2>1. p.way = b
    BY <1>5, <1>6, ConcatEmptySeq
  <2>2. p \in Places
    BY DEF Handled
  <2>3. p = [root |-> p.root, way |-> p.way]
    BY <2>2, PlaceIs
  <2> QED
    BY <2>1, <2>3, <1>5
<1>8. q.root = root /\ q.way = w
  BY <1>q
<1>9. q \in Places
  <2>1. OwnRelation(Field(Last(w)))
    BY <1>3, <1>4
  <2> QED
    BY <2>1, <1>2, <1>3, <1>m, <1>q, IsPlace
<1>10. \A s \in Seq(Frames) : ~Seen(q.root, q.way \o s)
  BY <1>2, <1>8, <1>n, <1>w, AheadOfCall
<1>11. q \notin Handled
  <2>1. Under(w, w)
    BY <1>2, UnderItself
  <2>2. ~Behind(w, w)
    BY <2>1, <1>2, UnderIsAhead
  <2>3. ~Seen(q.root, q.way)
    BY <2>2, <1>2, <1>8, <1>n, <1>w DEF Seen
  <2> QED
    BY <2>3 DEF Handled
<1>12. NameAt(q) = a
  <2>1. NameAt([root |-> root, way |-> Append(b, e)]) = NameAt([root |-> root, way |-> b]) \o Field(e).name
    BY <1>2, <1>3, NameGrows
  <2> QED
    BY <2>1, <1>2, <1>3, <1>5, <1>7, <1>a, <1>q
<1>13. MessageAt(q) = f.to
  BY <1>3, <1>8 DEF MessageAt
<1>14. CASE ~MayRegister(a)
  <2>1. ~Acceptable
    BY <1>9, <1>11, <1>12, <1>14, CannotRegister
  <2>2. Refuse
    BY <1>14, <1>a, <1>f DEF PlanChild
  <2> QED
    BY <2>1, <2>2, <1>1, RefuseIsSound
<1>15. CASE MayRegister(a)
  <2>1. /\ relations' = Append(relations, r) /\ UNCHANGED <<root, refused>>
        /\ calls' = IF IsMessage(f) THEN Append(calls, c) ELSE Advanced(calls)
    BY <1>15, <1>a, <1>f, <1>l, <1>r, <1>c DEF PlanChild
  <2>2. a \in Seq(STRING)
    BY <1>2, <1>3, <1>a, ConcatProperties
  <2>3. f.to \in Messages \cup {"scalar"}
    BY <1>3 DEF Fields
  <2>4. r \in RelationRecords
    <3>1. Kind(f) \in RelationKinds
      BY DEF Kind, RelationKinds
    <3>2. (IF IsMessage(f) THEN {} ELSE {<<>>}) \in SUBSET Seq(Frames)
      <4>1. <<>> \in Seq(Frames)
        OBVIOUS
      <4> QED
        BY <4>1
    <3>3. Here.slot \in Nat /\ Here.at \in Nat
      BY <1>1, <1>2
    <3> QED
      BY <3>1, <3>2, <3>3, <2>2, <2>3, <1>r DEF Relation, RelationRecords
  <2>5. r.name = a /\ r.of = f.to /\ r.kind = Kind(f) /\ r.parent = Here.slot /\ r.field = Here.at
        /\ r.columns = IF IsMessage(f) THEN {} ELSE {<<>>}
    BY <1>r DEF Relation
  <2>6. IsMessage(f) => c \in ColumnCalls
    BY <2>2, <1>1, <1>3, <1>c, <1>l DEF ColumnsCall, ColumnCalls
  <2>7. c.of = f.to /\ c.at = 1 /\ c.slot = l /\ c.name = a /\ c.arrow = <<>>
    BY <1>c DEF ColumnsCall
  <2>8. IF IsMessage(Field(Here)) THEN \E d \in ColumnCalls : d.at = 1 /\ calls' = Append(calls, d)
                                  ELSE calls' = Advanced(calls)
    BY <2>1, <2>6, <2>7, <1>f
  <2>9. \A i \in 1..Len(PlanRoots) : \A s : IsWay(PlanRoots[i].of, s) =>
          (Seen(i, s)' <=> Seen(i, s) \/ (i = q.root /\ s = q.way))
    BY <1>1, <1>8, <1>n, <1>w, <2>1, <2>8, PassAdds
  <2>10. ~refused => \A i \in 1..root' - 1 : Supported(PlanRoots[i].of)
    BY <2>1 DEF ResultInv, RelationsInv
  <2>11. relations[r.parent].name = NameAt([root |-> q.root, way |-> Front(q.way)])
    BY <2>5, <1>3, <1>5, <1>7, <1>8
  <2>12. r.field = Last(q.way).at /\ r.kind = Kind(Field(Last(q.way))) /\ r.parent \in 1..Len(relations)
    <3>1. e.at = Here.at
      BY <1>e
    <3> QED
      BY <3>1, <2>5, <1>2, <1>3, <1>8
  <2>13. r.columns = IF MessageAt(q) = "scalar" THEN {<<>>} ELSE {}
    BY <2>5, <1>13 DEF IsMessage
  <2>14. ResultInv'
    BY <1>1, <1>3, <1>8, <1>9, <1>10, <1>11, <1>12, <1>13, <1>15, <2>1, <2>4, <2>5, <2>9, <2>10, <2>11, <2>12, <2>13, Registered
  <2>15. relations'[l] = r /\ \A k \in 1..Len(relations) : relations'[k] = relations[k]
    BY <2>1, <2>4, <1>1, <1>l, AppendIs
  <2>16. \A k \in 1..Len(relations) : relations'[k].name = relations[k].name
    BY <2>15
  <2>17. CASE IsMessage(f)
    <3>1. CallFor(c, w)'
      <4>1. q \in Places' /\ NameAt(q)' = a
        BY <1>1, <1>9, <1>12, SameGraph
      <4>2. q.way \o c.arrow = w /\ Len(c.arrow) = 0
        <5>1. Len(<<>>) = 0
          OBVIOUS
        <5> QED
          BY <5>1, <1>2, <1>8, <2>7, ConcatEmptySeq
      <4>3. \A j \in 1..Len(c.arrow) : ~OwnRelation(Field(c.arrow[j]))'
        BY <4>2
      <4> QED
        BY <4>1, <4>2, <4>3, <1>8, <2>1, <2>5, <2>7, <2>15 DEF CallFor
    <3> QED
      BY <3>1, <2>1, <2>6, <2>7, <2>14, <2>16, <2>17, <1>1, <1>f, <1>n, <1>w, CallsPushed
  <2>18. CASE ~IsMessage(f)
    BY <2>1, <2>14, <2>16, <2>18, <1>1, CallsAdvanced
  <2> QED
    BY <2>17, <2>18
<1> QED
  BY <1>14, <1>15

\* A field of a place that comes to be seen.
LEMMA ColumnSeen ==
  ASSUME PlanType, ResultInv, UNCHANGED <<schema, root, refused>>,
         NEW z \in Handled, NEW a \in ColumnsAt(z), a # <<>>,
         NEW h \in 1..Len(relations), relations[h].name = NameAt(z),
         Len(relations') = Len(relations),
         \A k \in 1..Len(relations) :
           /\ relations'[k].name = relations[k].name /\ relations'[k].of = relations[k].of
           /\ relations'[k].kind = relations[k].kind /\ relations'[k].parent = relations[k].parent
           /\ relations'[k].field = relations[k].field
           /\ relations'[k].columns = IF k = h THEN relations[k].columns \cup {a} ELSE relations[k].columns,
         Len(a) = 1 => Field(a[1]).name \notin ReservedColumns,
         \A i \in 1..Len(PlanRoots) : \A s : IsWay(PlanRoots[i].of, s) =>
           (Seen(i, s)' <=> Seen(i, s) \/ (i = z.root /\ s = z.way \o a))
  PROVE  ResultInv'
<1>g. PICK g : g = relations'
  OBVIOUS
<1>n. PICK n : n = Len(relations)
  OBVIOUS
<1>t. SchemaType /\ relations \in Seq(RelationRecords)
  BY DEF PlanType
<1>1. \A k \in 1..n : /\ g[k].name = relations[k].name /\ g[k].of = relations[k].of /\ g[k].kind = relations[k].kind
                      /\ g[k].parent = relations[k].parent /\ g[k].field = relations[k].field
                      /\ g[k].columns = IF k = h THEN relations[k].columns \cup {a} ELSE relations[k].columns
  BY <1>g, <1>n
<1>2. Len(g) = n /\ h \in 1..n
  BY <1>g, <1>n
<1>3. Places' = Places /\ (Acceptable' <=> Acceptable) /\ (\A m : Supported(m)' <=> Supported(m))
  BY SameGraph
<1>4. \A p : NameAt(p)' = NameAt(p) /\ MessageAt(p)' = MessageAt(p) /\ ColumnsAt(p)' = ColumnsAt(p)
  BY SameGraph
<1>5. \A e : Field(e)' = Field(e)
  BY SameGraph
<1>6. z \in Places /\ \A p \in Places : p.root = z.root /\ p.way = z.way => p = z
  BY PlaceIs DEF Handled
<1>7. /\ z.way \in Seq(Steps) /\ (z.way # <<>> => OwnRelation(Field(Last(z.way))))
      /\ a \in Seq(Steps) /\ \A k \in 1..Len(a) : ~OwnRelation(Field(a[k]))
  BY <1>t, <1>6, PlaceIs, ColumnIs
<1>8. ASSUME NEW p \in Places, NEW t \in Seq(Steps), \A k \in 1..Len(t) : ~OwnRelation(Field(t[k])),
             p.root = z.root, p.way \o t = z.way \o a
      PROVE  p = z /\ t = a
  <2>1. p.way \in Seq(Steps) /\ (p.way # <<>> => OwnRelation(Field(Last(p.way))))
    BY PlaceIs
  <2>u. PICK u : u = p.way
    OBVIOUS
  <2>v. PICK v : v = z.way
    OBVIOUS
  <2>3. /\ u \in Seq(Steps) /\ v \in Seq(Steps) /\ t \in Seq(Steps) /\ a \in Seq(Steps) /\ u \o t = v \o a
        /\ u # <<>> => OwnRelation(Field(Last(u)))
        /\ v # <<>> => OwnRelation(Field(Last(v)))
        /\ \A k \in 1..Len(t) : ~OwnRelation(Field(t[k]))
        /\ \A k \in 1..Len(a) : ~OwnRelation(Field(a[k]))
    BY <2>1, <2>u, <2>v, <1>7, <1>8
  <2>6. /\ p.way \o t = z.way \o a
        /\ p.way \in Seq(Steps) /\ (p.way # <<>> => OwnRelation(Field(Last(p.way))))
        /\ \A k \in 1..Len(t) : ~OwnRelation(Field(t[k]))
    BY <2>1, <1>8
  <2>4. p.way = z.way
    BY <2>6, <1>7, SplitOnce
  <2>7. u = v /\ u \o t = u \o a /\ u \in Seq(Steps) /\ t \in Seq(Steps) /\ a \in Seq(Steps)
    BY <2>3, <2>4, <2>u, <2>v
  <2>5. t = a
    BY ONLY <2>7, ConcatSimplifications
  <2>2. p.way = z.way /\ t = a
    BY <2>4, <2>5, <2>u, <2>v
  <2> QED
    BY <2>2, <1>6, <1>8
<1>9. Handled' = Handled
  <2>1. ASSUME NEW p \in Places PROVE Seen(p.root, p.way)' <=> Seen(p.root, p.way)
    <3>1. p.root \in 1..Len(PlanRoots) /\ IsWay(PlanRoots[p.root].of, p.way) /\ p.way \in Seq(Steps)
      BY PlaceIs
    <3>2. Seen(p.root, p.way)' <=> Seen(p.root, p.way) \/ (p.root = z.root /\ p.way = z.way \o a)
      BY <3>1
    <3>3. ASSUME p.root = z.root, p.way = z.way \o a PROVE FALSE
      <4>0. <<>> \in Seq(Steps) /\ Len(<<>>) = 0
        OBVIOUS
      <4>x. PICK x \in Seq(Steps) : x = <<>> /\ Len(x) = 0
        BY <4>0
      <4>1. p.way \o x = p.way /\ \A k \in 1..Len(x) : ~OwnRelation(Field(x[k]))
        BY <4>x, <3>1, ConcatEmptySeq
      <4>2. p.way \o x = z.way \o a
        BY <4>1, <3>3
      <4>3. x = a
        BY <4>1, <4>2, <3>3, <1>8
      <4> QED
        BY <4>3, <4>x
    <3> QED
      BY <3>2, <3>3
  <2> QED
    BY <2>1, <1>3 DEF Handled
<1>10. (refused => ~Acceptable)'
  BY <1>3 DEF ResultInv
<1> SUFFICES ASSUME ~refused PROVE RelationsInv' /\ ColumnsInv'
  BY <1>10 DEF ResultInv, RelationsInv, ColumnsInv
<1>11. /\ \A i \in 1..root - 1 : Supported(PlanRoots[i].of)
       /\ \A p \in Handled : Legal(NameAt(p)) /\ \E i \in 1..n : StandsAt(i, p)
       /\ \A i \in 1..n : \E p \in Handled : StandsAt(i, p)
       /\ \A p, o \in Handled : NameAt(p) = NameAt(o) => p = o
       /\ \A i, j \in 1..n : relations[i].name = relations[j].name => i = j
  BY <1>n DEF ResultInv, RelationsInv
<1>12. ASSUME NEW i \in 1..n, NEW p, StandsAt(i, p) PROVE StandsAt(i, p)'
  <2>o. PICK o : o = relations[i]
    OBVIOUS
  <2>1. /\ o.name = NameAt(p) /\ o.of = MessageAt(p)
        /\ p.way = <<>> => o.parent = 0 /\ o.kind = "root"
        /\ p.way # <<>> =>
             /\ o.parent \in 1..i - 1
             /\ relations[o.parent].name = NameAt([root |-> p.root, way |-> Front(p.way)])
             /\ o.field = Last(p.way).at /\ o.kind = Kind(Field(Last(p.way)))
    BY <1>12, <2>o DEF StandsAt
  <2>2. g[i].name = o.name /\ g[i].of = o.of /\ g[i].kind = o.kind /\ g[i].parent = o.parent /\ g[i].field = o.field
    BY <1>1, <2>o
  <2>3. p.way # <<>> => g[o.parent].name = relations[o.parent].name
    <3>1. n \in Nat
      BY <1>t, <1>n
    <3>2. o.parent \in 1..i - 1 => o.parent \in 1..n
      BY <3>1
    <3> QED
      BY <3>2, <2>1, <1>1
  <2>4. Kind(Field(Last(p.way)))' = Kind(Field(Last(p.way)))
    BY <1>5 DEF Kind, IsMessage
  <2> QED
    BY <2>1, <2>2, <2>3, <2>4, <1>4, <1>g DEF StandsAt
<1>13. RelationsInv'
  <2>1. \A p \in Handled : Legal(NameAt(p))' /\ \E i \in 1..n : StandsAt(i, p)'
    <3>1. \A p : Legal(NameAt(p))' <=> Legal(NameAt(p))
      BY <1>4 DEF Legal
    <3> QED
      BY <3>1, <1>11, <1>12
  <2>2. \A i \in 1..n : \E p \in Handled : StandsAt(i, p)'
    BY <1>11, <1>12
  <2>3. \A p, o \in Handled : NameAt(p)' = NameAt(o)' => p = o
    BY <1>4, <1>11
  <2>4. \A i, j \in 1..n : g[i].name = g[j].name => i = j
    BY <1>1, <1>11
  <2>5. \A i \in 1..root' - 1 : Supported(PlanRoots[i].of)'
    BY <1>3, <1>11
  <2> QED
    BY <2>1, <2>2, <2>3, <2>4, <2>5, <1>2, <1>9, <1>g DEF RelationsInv
<1>14. \A p \in Handled : \A t \in ColumnsAt(p) :
         Seen(p.root, p.way \o t)' <=> Seen(p.root, p.way \o t) \/ (p = z /\ t = a)
  <2> SUFFICES ASSUME NEW p \in Handled, NEW t \in ColumnsAt(p)
               PROVE  Seen(p.root, p.way \o t)' <=> Seen(p.root, p.way \o t) \/ (p = z /\ t = a)
    OBVIOUS
  <2>1. p \in Places
    BY DEF Handled
  <2>2. p.root \in 1..Len(PlanRoots)
    BY <2>1, PlaceIs
  <2>3. t \in Seq(Steps) /\ IsWay(PlanRoots[p.root].of, p.way \o t) /\ \A k \in 1..Len(t) : ~OwnRelation(Field(t[k]))
    BY <2>1, <1>t, ColumnIs
  <2>4. Seen(p.root, p.way \o t)' <=> Seen(p.root, p.way \o t) \/ (p.root = z.root /\ p.way \o t = z.way \o a)
    BY <2>2, <2>3
  <2>5. p.root = z.root /\ p.way \o t = z.way \o a => p = z /\ t = a
    BY <2>1, <2>3, <1>8
  <2> QED
    BY <2>4, <2>5
<1>15. ASSUME NEW p \in Handled
       PROVE  /\ \A i \in 1..n :
                   g[i].name = NameAt(p) =>
                     g[i].columns = {t \in ColumnsAt(p) : Seen(p.root, p.way \o t)'}
              /\ \A t \in ColumnsAt(p) : Seen(p.root, p.way \o t)' /\ Len(t) = 1 =>
                   Field(t[1]).name \notin ReservedColumns
  <2>1. /\ \A i \in 1..n :
             relations[i].name = NameAt(p) =>
               relations[i].columns = {t \in ColumnsAt(p) : Seen(p.root, p.way \o t)}
        /\ \A t \in ColumnsAt(p) : Seen(p.root, p.way \o t) /\ Len(t) = 1 =>
             Field(t[1]).name \notin ReservedColumns
    BY <1>n DEF ResultInv, ColumnsInv
  <2>2. ASSUME NEW i \in 1..n, g[i].name = NameAt(p)
        PROVE  g[i].columns = {t \in ColumnsAt(p) : Seen(p.root, p.way \o t)'}
    <3>0. g[i].name = relations[i].name
      BY <1>1
    <3>1. relations[i].name = NameAt(p)
      BY <3>0, <2>2
    <3>2. relations[i].columns = {t \in ColumnsAt(p) : Seen(p.root, p.way \o t)}
      BY <2>1, <3>1
    <3>3. i = h <=> p = z
      <4>1. i = h => NameAt(p) = NameAt(z)
        BY <3>1
      <4>2. p = z => relations[i].name = relations[h].name
        BY <3>1
      <4>3. \A q, o \in Handled : NameAt(q) = NameAt(o) => q = o
        BY <1>11
      <4>4. \A j, k \in 1..n : relations[j].name = relations[k].name => j = k
        BY <1>11
      <4>5. NameAt(p) = NameAt(z) => p = z
        BY <4>3
      <4>6. relations[i].name = relations[h].name => i = h
        BY <4>4, <1>2
      <4> QED
        BY <4>1, <4>2, <4>5, <4>6
    <3>4. g[i].columns = IF i = h THEN relations[i].columns \cup {a} ELSE relations[i].columns
      BY <1>1
    <3>5. CASE p = z
      <4>1. {t \in ColumnsAt(p) : Seen(p.root, p.way \o t)'} = {t \in ColumnsAt(p) : Seen(p.root, p.way \o t)} \cup {a}
        BY <3>5, <1>14
      <4> QED
        BY <4>1, <3>2, <3>3, <3>4, <3>5
    <3>6. CASE p # z
      <4>1. {t \in ColumnsAt(p) : Seen(p.root, p.way \o t)'} = {t \in ColumnsAt(p) : Seen(p.root, p.way \o t)}
        BY <3>6, <1>14
      <4> QED
        BY <4>1, <3>2, <3>3, <3>4, <3>6
    <3> QED
      BY <3>5, <3>6
  <2>3. \A t \in ColumnsAt(p) : Seen(p.root, p.way \o t)' /\ Len(t) = 1 => Field(t[1]).name \notin ReservedColumns
    BY <2>1, <1>14
  <2> QED
    BY <2>2, <2>3
<1>16. ColumnsInv'
  <2> SUFFICES ASSUME NEW p \in Handled
               PROVE  /\ \A i \in 1..n :
                           g[i].name = NameAt(p)' =>
                             g[i].columns = {t \in ColumnsAt(p)' : Seen(p.root, p.way \o t)'}
                      /\ \A t \in ColumnsAt(p)' : Seen(p.root, p.way \o t)' /\ Len(t) = 1 =>
                           Field(t[1])'.name \notin ReservedColumns
    BY <1>2, <1>9, <1>g DEF ColumnsInv
  <2>1. /\ \A i \in 1..n :
             g[i].name = NameAt(p) =>
               g[i].columns = {t \in ColumnsAt(p) : Seen(p.root, p.way \o t)'}
        /\ \A t \in ColumnsAt(p) : Seen(p.root, p.way \o t)' /\ Len(t) = 1 =>
             Field(t[1]).name \notin ReservedColumns
    BY <1>15
  <2>2. NameAt(p)' = NameAt(p) /\ ColumnsAt(p)' = ColumnsAt(p)
    BY <1>4
  <2>3. \A t : Field(t[1])' = Field(t[1])
    BY <1>5
  <2>4. \A i \in 1..n : g[i].name = NameAt(p)' => g[i].columns = {t \in ColumnsAt(p)' : Seen(p.root, p.way \o t)'}
    BY <2>1, <2>2
  <2>5. \A t \in ColumnsAt(p)' : Seen(p.root, p.way \o t)' /\ Len(t) = 1 => Field(t[1])'.name \notin ReservedColumns
    BY <2>1, <2>2, <2>3
  <2> QED
    BY <2>4, <2>5
<1> QED
  BY <1>13, <1>16

LEMMA PlanColumnResult ==
  PlanType /\ SupportedInv /\ CallsInv /\ AskInv /\ ResultInv /\ PlanColumn => ResultInv' /\ CallsInv'
<1> SUFFICES ASSUME PlanType, SupportedInv, CallsInv, AskInv, ResultInv, PlanColumn PROVE ResultInv' /\ CallsInv'
  OBVIOUS
<1>m. PICK m : m = PlanRoots[root].of
  OBVIOUS
<1>n. PICK n : n = Len(calls)
  OBVIOUS
<1>b. PICK b : b = WayTo(calls, n - 1)
  OBVIOUS
<1>w. PICK w : w = WayTo(calls, n)
  OBVIOUS
<1>e. PICK e : e = [of |-> Here.of, at |-> Here.at]
  OBVIOUS
<1>f. PICK f : f = Field(Here)
  OBVIOUS
<1>a. PICK a : a = Append(Here.arrow, e)
  OBVIOUS
<1>h. PICK h : h = Here.slot
  OBVIOUS
<1>c. PICK c : c = ColumnsCall(f.to, h, Here.name, a)
  OBVIOUS
<1>1. task = "columns" /\ asking = <<>> /\ AtField(Here) /\ GetsColumn(f) /\ UNCHANGED schema
      /\ relations \in Seq(RelationRecords) /\ Len(relations) \in Nat
  BY <1>f DEF PlanColumn, Planning, PlanType
<1>2. /\ SchemaType /\ calls # <<>> /\ root \in 1..Len(PlanRoots) /\ root \in Nat /\ m \in Messages /\ Supported(m)
      /\ Here.of \in Messages /\ Here.at \in Nat \ {0} /\ h \in 1..Len(relations) /\ Here.name \in Seq(STRING)
      /\ Supported(Here.of) /\ w \in Seq(Frames) /\ w = Append(b, e) /\ b \in Seq(Frames) /\ e \in Frames
      /\ Here.arrow \in Seq(Frames)
  BY <1>1, <1>m, <1>n, <1>b, <1>w, <1>e, <1>h, CallIs
<1>3. /\ e \in Steps /\ Field(e) = f /\ f \in Fields /\ f.name \in Seq(STRING)
      /\ f = schema[Here.of][Here.at] /\ Here.at \in 1..Len(schema[Here.of])
      /\ IsMessage(f) <=> f.to \in Messages
      /\ IsWay(m, w) /\ w # <<>> /\ Last(w) = e /\ Front(w) = b /\ b \in Seq(Steps)
  BY <1>1, <1>m, <1>n, <1>b, <1>w, <1>e, <1>f, CallFieldIs
<1>4. ~OwnRelation(f)
  BY <1>1, <1>3, FieldKnown
<1>5. PICK z \in Handled :
        /\ z.root = root /\ z.way \in Seq(Steps) /\ z.way \o Here.arrow = b /\ Here.arrow \in Seq(Steps)
        /\ Here.name = NameAt(z) /\ relations[h].name = NameAt(z)
        /\ \A j \in 1..Len(Here.arrow) : ~OwnRelation(Field(Here.arrow[j]))
        /\ IsWay(MessageAt(z), Here.arrow) /\ EndOf(MessageAt(z), Here.arrow) = Here.of
        /\ MessageAt(z) \in Messages /\ Supported(MessageAt(z))
  <2>1. \E z \in Handled :
          /\ z.root = root /\ z.way \in Seq(Steps) /\ z.way \o Here.arrow = b /\ Here.arrow \in Seq(Steps)
          /\ Here.name = NameAt(z) /\ relations[Here.slot].name = NameAt(z)
          /\ \A j \in 1..Len(Here.arrow) : ~OwnRelation(Field(Here.arrow[j]))
          /\ IsWay(MessageAt(z), Here.arrow) /\ EndOf(MessageAt(z), Here.arrow) = Here.of
          /\ MessageAt(z) \in Messages /\ Supported(MessageAt(z))
    BY <1>1, <1>m, <1>n, <1>b, PlaceOfCall
  <2> QED
    BY <2>1, <1>h
<1>k. PICK k : k = Len(Here.arrow)
  OBVIOUS
<1>d. PICK d : d = Here.arrow
  OBVIOUS
<1>6. /\ a \in Seq(Steps) /\ a # <<>> /\ k \in Nat /\ Len(a) = k + 1 /\ a[k + 1] = e
      /\ \A j \in 1..k : a[j] = Here.arrow[j]
  <2>1. d \in Seq(Steps) /\ e \in Steps /\ a = Append(d, e) /\ k = Len(d)
    BY <1>3, <1>5, <1>a, <1>k, <1>d
  <2>2. a \in Seq(Steps) /\ a # <<>> /\ k \in Nat
    BY ONLY <2>1, AppendIs
  <2>3. Len(a) = k + 1 /\ a[k + 1] = e
    BY ONLY <2>1, AppendIs
  <2>4. \A j \in 1..k : a[j] = d[j]
    BY ONLY <2>1, AppendIs
  <2> QED
    BY <2>2, <2>3, <2>4, <1>d
<1>7. \A j \in 1..Len(a) : ~OwnRelation(Field(a[j]))
  <2> SUFFICES ASSUME NEW j \in 1..Len(a) PROVE ~OwnRelation(Field(a[j]))
    OBVIOUS
  <2>1. j \in 1..k \/ j = k + 1
    BY <1>6
  <2> QED
    BY <2>1, <1>3, <1>4, <1>5, <1>6, <1>k
<1>v. PICK v : v = <<e>>
  OBVIOUS
<1>8. /\ v \in Seq(Steps) /\ IsWay(Here.of, v) /\ a = Here.arrow \o v /\ w = b \o v
  <2>1. <<e>> \in Seq(Steps) /\ (IsWay(Here.of, <<e>>) <=> e.of = Here.of)
    BY <1>2, <1>3, WayOfOne
  <2>2. e.of = Here.of
    BY <1>e
  <2>3. Append(Here.arrow, e) = Here.arrow \o <<e>>
    BY <1>3, <1>5, AppendIsConcat
  <2>4. Append(b, e) = b \o <<e>>
    BY <1>3, AppendIsConcat
  <2>5. v \in Seq(Steps) /\ IsWay(Here.of, v)
    BY <2>1, <2>2, <1>v
  <2>6. a = Here.arrow \o v
    BY <2>3, <1>a, <1>v
  <2>7. w = b \o v
    BY <2>4, <1>v, <1>2
  <2> QED
    BY <2>5, <2>6, <2>7
<1>9. w = z.way \o a
  <2>u. PICK u : u = z.way
    OBVIOUS
  <2>2. \A x, y, o \in Seq(Steps) : (x \o y) \o o = x \o (y \o o)
    BY ConcatAssociative
  <2>3. u \in Seq(Steps) /\ d \in Seq(Steps) /\ v \in Seq(Steps)
    BY <2>u, <1>d, <1>5, <1>8
  <2>4. (u \o d) \o v = u \o (d \o v)
    BY ONLY <2>2, <2>3
  <2>1. (z.way \o Here.arrow) \o v = z.way \o (Here.arrow \o v)
    BY <2>4, <2>u, <1>d
  <2> QED
    BY <2>1, <1>5, <1>8
<1>10. a \in ColumnsAt(z)
  <2>1. IsWay(MessageAt(z), Here.arrow \o v)
    BY <1>5, <1>8, WaySplit
  <2>2. IsWay(MessageAt(z), a)
    BY <2>1, <1>8
  <2>o. PICK o : o = MessageAt(z)
    OBVIOUS
  <2>5. o \in Messages /\ Supported(o) /\ IsWay(o, a)
    BY <2>2, <2>o, <1>5
  <2>6. a \in Ways(o)
    BY <2>5, <1>2, AllWays
  <2>3. a \in Ways(MessageAt(z))
    BY <2>6, <2>o
  <2>4. MessageAt(z) # "scalar"
    BY <1>5, MessagesAssumption
  <2> QED
    BY <2>3, <2>4, <1>6, <1>7 DEF ColumnsAt
<1>11. Len(a) = 1 => Here.arrow = <<>> /\ a[1] = e
  <2>3. k \in Nat /\ Len(a) = k + 1
    BY <1>6
  <2>1. Len(a) = 1 => k = 0
    BY ONLY <2>3
  <2>2. k = 0 => Here.arrow = <<>>
    BY <1>5, <1>k, EmptySeq
  <2> QED
    BY <2>1, <2>2, <1>6
<1>12. CASE Here.arrow = <<>> /\ f.name \in ReservedColumns
  <2>1. Len(a) = 1 /\ a[1] = e
    <3>1. Len(<<>>) = 0
      OBVIOUS
    <3>2. k = 0
      BY <3>1, <1>12, <1>k
    <3> QED
      BY <3>2, <1>6
  <2>2. Field(a[1]).name \in ReservedColumns
    BY <2>1, <1>3, <1>12
  <2>3. z \in Places
    BY DEF Handled
  <2>4. ~Acceptable
    BY <2>1, <2>2, <2>3, <1>10 DEF Acceptable
  <2>5. Refuse
    BY <1>12, <1>f DEF PlanColumn
  <2> QED
    BY <2>4, <2>5, <1>1, RefuseIsSound
<1>13. CASE ~(Here.arrow = <<>> /\ f.name \in ReservedColumns)
  <2>1. /\ relations' = [relations EXCEPT ![h].columns = @ \cup {a}] /\ UNCHANGED <<root, refused>>
        /\ calls' = IF IsMessage(f) THEN Append(calls, c) ELSE Advanced(calls)
    BY <1>13, <1>a, <1>e, <1>f, <1>h, <1>c DEF PlanColumn
  <2>g. PICK g : g = relations'
    OBVIOUS
  <2>2. Len(g) = Len(relations)
    BY <2>1, <2>g, <1>1
  <2>3. ASSUME NEW i \in 1..Len(relations)
        PROVE  /\ g[i].name = relations[i].name /\ g[i].of = relations[i].of /\ g[i].kind = relations[i].kind
               /\ g[i].parent = relations[i].parent /\ g[i].field = relations[i].field
               /\ g[i].columns = IF i = h THEN relations[i].columns \cup {a} ELSE relations[i].columns
    <3>r. PICK r : r = relations[i]
      OBVIOUS
    <3>1. r \in RelationRecords
      BY <3>r, <1>1, ElementOfSeq
    <3>2. g[i] = IF i = h THEN [relations[h] EXCEPT !.columns = @ \cup {a}] ELSE relations[i]
      BY <2>1, <2>g, <1>1
    <3>3. CASE i = h
      <4>1. g[i] = [r EXCEPT !.columns = @ \cup {a}]
        BY <3>2, <3>3, <3>r
      <4>2. [r EXCEPT !.columns = @ \cup {a}].name = r.name /\ [r EXCEPT !.columns = @ \cup {a}].of = r.of
            /\ [r EXCEPT !.columns = @ \cup {a}].kind = r.kind /\ [r EXCEPT !.columns = @ \cup {a}].parent = r.parent
            /\ [r EXCEPT !.columns = @ \cup {a}].field = r.field
            /\ [r EXCEPT !.columns = @ \cup {a}].columns = r.columns \cup {a}
        BY <3>1 DEF RelationRecords
      <4> QED
        BY <4>1, <4>2, <3>3, <3>r
    <3>4. CASE i # h
      BY <3>2, <3>4
    <3> QED
      BY <3>3, <3>4
  <2>4. /\ Len(relations') = Len(relations)
        /\ \A i \in 1..Len(relations) :
             /\ relations'[i].name = relations[i].name /\ relations'[i].of = relations[i].of
             /\ relations'[i].kind = relations[i].kind /\ relations'[i].parent = relations[i].parent
             /\ relations'[i].field = relations[i].field
             /\ relations'[i].columns = IF i = h THEN relations[i].columns \cup {a} ELSE relations[i].columns
    BY <2>2, <2>3, <2>g
  <2>5. IsMessage(f) => c \in ColumnCalls
    <3>1. a \in Seq(Frames) /\ h \in Nat \ {0}
      BY <1>1, <1>2, <1>a, AppendIs
    <3> QED
      BY <3>1, <1>2, <1>3, <1>c DEF ColumnsCall, ColumnCalls
  <2>6. c.of = f.to /\ c.at = 1 /\ c.slot = h /\ c.name = Here.name /\ c.arrow = a
    BY <1>c DEF ColumnsCall
  <2>7. IF IsMessage(Field(Here)) THEN \E y \in ColumnCalls : y.at = 1 /\ calls' = Append(calls, y)
                                  ELSE calls' = Advanced(calls)
    BY <2>1, <2>5, <2>6, <1>f
  <2>8. \A i \in 1..Len(PlanRoots) : \A s : IsWay(PlanRoots[i].of, s) =>
          (Seen(i, s)' <=> Seen(i, s) \/ (i = z.root /\ s = z.way \o a))
    <3>1. \A i \in 1..Len(PlanRoots) : \A s : IsWay(PlanRoots[i].of, s) =>
            (Seen(i, s)' <=> Seen(i, s) \/ (i = root /\ s = w))
      BY <2>1, <2>7, <1>1, <1>n, <1>w, PassAdds
    <3> QED
      BY <3>1, <1>5, <1>9
  <2>9. Len(a) = 1 => Field(a[1]).name \notin ReservedColumns
    BY <1>3, <1>11, <1>13
  <2>10. ResultInv'
    BY <2>1, <2>4, <2>8, <2>9, <1>1, <1>2, <1>5, <1>6, <1>10, ColumnSeen
  <2>11. \A i \in 1..Len(relations) : relations'[i].name = relations[i].name
    BY <2>4
  <2>12. CASE IsMessage(f)
    <3>1. CallFor(c, w)'
      <4>1. z \in Places' /\ NameAt(z)' = NameAt(z)
        <5>1. z \in Places
          BY DEF Handled
        <5> QED
          BY <5>1, <1>1, SameGraph
      <4>2. \A j \in 1..Len(a) : ~OwnRelation(Field(a[j]))'
        <5>1. \A y : Field(y)' = Field(y)
          BY <1>1, SameGraph
        <5>2. \A y : OwnRelation(y)' <=> OwnRelation(y)
          BY <1>1, SameGraph
        <5> QED
          BY <5>1, <5>2, <1>7
      <4>3. relations'[h].name = NameAt(z)
        BY <2>11, <1>2, <1>5
      <4> QED
        BY <4>1, <4>2, <4>3, <1>5, <1>9, <2>1, <2>6 DEF CallFor
    <3> QED
      BY <3>1, <2>1, <2>5, <2>6, <2>10, <2>11, <2>12, <1>1, <1>f, <1>n, <1>w, CallsPushed
  <2>13. CASE ~IsMessage(f)
    BY <2>1, <2>10, <2>11, <2>13, <1>1, CallsAdvanced
  <2> QED
    BY <2>12, <2>13
<1> QED
  BY <1>12, <1>13

-----------------------------------------------------------------------------
(* The actions that plan nothing. *)

LEMMA NothingPlanned ==
  ASSUME PlanType, CallsInv, ResultInv, UNCHANGED <<schema, root, calls, relations, refused>>
  PROVE  ResultInv' /\ CallsInv'
<1>1. CallsInv'
  BY CallsStay
<1>2. \A i, s : Seen(i, s)' <=> Seen(i, s)
  BY DEF Seen, WayTo
<1>3. ~refused => \A i \in 1..root' - 1 : Supported(PlanRoots[i].of)
  BY DEF ResultInv, RelationsInv
<1>4. ResultInv'
  BY <1>2, <1>3, ResultStays
<1> QED
  BY <1>1, <1>4

LEMMA CheckFieldResult ==
  PlanType /\ ValidInv /\ CallsInv /\ ResultInv /\ CheckField => ResultInv' /\ CallsInv'
<1> SUFFICES ASSUME PlanType, ValidInv, CallsInv, ResultInv, CheckField PROVE ResultInv' /\ CallsInv'
  OBVIOUS
<1>f. PICK f : f = Field(Last(closure))
  OBVIOUS
<1>1. task = "validate" /\ AtField(Last(closure)) /\ UNCHANGED schema
  BY DEF CheckField
<1>2. CASE f.mode = "refused" \/ Cyclic(f)
  <2>1. Refuse
    BY <1>2, <1>f DEF CheckField
  <2>2. Field(Last(closure)).mode = "refused" \/ Cyclic(Field(Last(closure)))
    BY <1>2, <1>f
  <2>3. ~Acceptable
    BY <2>2, <1>1, ShapeIsRefused
  <2> QED
    BY <2>1, <2>3, <1>1, RefuseIsSound
<1>3. CASE ~(f.mode = "refused" \/ Cyclic(f))
  <2>1. UNCHANGED <<schema, root, calls, relations, refused>>
    BY <1>3, <1>f DEF CheckField
  <2> QED
    BY <2>1, NothingPlanned
<1> QED
  BY <1>2, <1>3

LEMMA ResultKept ==
  PlanType /\ ValidInv /\ AskInv /\ CallsInv /\ ResultInv /\ [PlanNext]_planVars => ResultInv' /\ CallsInv'
<1> SUFFICES ASSUME PlanType, ValidInv, AskInv, CallsInv, ResultInv, [PlanNext]_planVars
             PROVE  ResultInv' /\ CallsInv'
  OBVIOUS
<1>v. SupportedInv
  BY DEF ValidInv
<1>1. CASE OpenRoot
  <2>1. UNCHANGED <<schema, root, calls, relations, refused>>
    BY <1>1 DEF OpenRoot
  <2> QED
    BY <2>1, NothingPlanned
<1>2. CASE CheckField
  BY <1>2, CheckFieldResult
<1>3. CASE LeaveMessage
  <2>1. UNCHANGED <<schema, root, calls, relations, refused>>
    BY <1>3 DEF LeaveMessage
  <2> QED
    BY <2>1, NothingPlanned
<1>4. CASE PlanRoot
  BY <1>v, <1>4, PlanRootResult
<1>5. CASE PlanChild
  BY <1>v, <1>5, PlanChildResult
<1>6. CASE PlanColumn
  BY <1>v, <1>6, PlanColumnResult
<1>7. CASE EndColumns
  BY <1>v, <1>7, EndColumnsResult
<1>8. CASE Ask
  <2>1. UNCHANGED <<schema, root, calls, relations, refused>>
    BY <1>8 DEF Ask
  <2> QED
    BY <2>1, NothingPlanned
<1>9. CASE AskField
  <2>1. UNCHANGED <<schema, root, calls, relations, refused>>
    BY <1>9 DEF AskField
  <2> QED
    BY <2>1, NothingPlanned
<1>10. CASE AskEnd
  <2>1. UNCHANGED <<schema, root, calls, relations, refused>>
    BY <1>10 DEF AskEnd
  <2> QED
    BY <2>1, NothingPlanned
<1>11. CASE UNCHANGED planVars
  <2>1. UNCHANGED <<schema, root, calls, relations, refused>>
    BY <1>11 DEF planVars
  <2> QED
    BY <2>1, NothingPlanned
<1> QED
  BY <1>1, <1>2, <1>3, <1>4, <1>5, <1>6, <1>7, <1>8, <1>9, <1>10, <1>11 DEF PlanNext

\* Nothing has been planned at first.
LEMMA InitResult == PlanInit => CallsInv /\ ResultInv
<1> SUFFICES ASSUME PlanInit PROVE CallsInv /\ ResultInv
  OBVIOUS
<1>1. SchemaType /\ root = 1 /\ calls = <<>> /\ relations = <<>> /\ refused = FALSE
  BY InitType DEF PlanInit, PlanType
<1>2. CallsInv
  BY <1>1 DEF CallsInv
<1>3. Len(<<>>) = 0 /\ WayTo(<<>>, 0) = <<>>
  BY DEF WayTo
<1>4. Len(relations) = 0 /\ WayTo(calls, Len(calls)) = <<>>
  BY <1>1, <1>3
<1>5. Handled = {}
  <2> SUFFICES ASSUME NEW p \in Places, Seen(p.root, p.way) PROVE FALSE
    BY DEF Handled
  <2>1. p.root \in 1..Len(PlanRoots) /\ IsWay(PlanRoots[p.root].of, p.way)
    BY PlaceIs
  <2>2. p.way \in Seq(Frames)
    BY <2>1, <1>1, WayIsFrames
  <2>3. ~Behind(<<>>, p.way)
    BY <2>2, NothingBehind
  <2>4. ~Behind(WayTo(calls, Len(calls)), p.way)
    BY <2>3, <1>4
  <2>5. p.root < 1
    BY <2>4, <1>1 DEF Seen
  <2> QED
    BY <2>1, <2>5
<1>6. RelationsInv
  <2>1. \A i \in 1..root - 1 : FALSE
    BY <1>1
  <2>2. \A i \in 1..Len(relations) : FALSE
    BY <1>4
  <2> QED
    BY <2>1, <2>2, <1>5 DEF RelationsInv
<1>7. ColumnsInv
  BY <1>5 DEF ColumnsInv
<1> QED
  BY <1>1, <1>2, <1>6, <1>7 DEF ResultInv

-----------------------------------------------------------------------------
(* What the planner promises. *)

PlanParts == PlanType /\ ValidInv /\ AskInv /\ CallsInv /\ ResultInv

LEMMA PartsOfInv == PlanInv <=> PlanParts
  BY DEF PlanInv, PlanParts, ValidInv, AskInv, ResultInv

\* The planner keeps to its types, what it has validated is supported, what its
\* memo knows is so, each call stands at the end of the way it has gone, and the
\* relations and columns planned are those of the ways seen (plan.rs, PlanNext).
THEOREM PlanInductive == PlanSpec => []PlanInv
<1>1. PlanInit => PlanInv
  BY InitType, InitValid, InitAsk, InitResult, PartsOfInv DEF PlanParts
<1>2. PlanInv /\ [PlanNext]_planVars => PlanInv'
  <2> SUFFICES ASSUME PlanInv, [PlanNext]_planVars PROVE PlanInv'
    OBVIOUS
  <2>1. PlanType /\ ValidInv /\ AskInv /\ CallsInv /\ ResultInv
    BY PartsOfInv DEF PlanParts
  <2>2. SupportedInv
    BY <2>1 DEF ValidInv
  <2>3. PlanType'
    BY <2>1, TypeKept
  <2>4. ValidInv'
    BY <2>1, ValidKept
  <2>5. AskInv'
    BY <2>1, <2>2, AskKept
  <2>6. ResultInv' /\ CallsInv'
    BY <2>1, ResultKept
  <2>7. PlanParts'
    BY <2>3, <2>4, <2>5, <2>6 DEF PlanParts
  <2> QED
    BY <2>7 DEF PlanInv, PlanParts, ValidInv, AskInv, ResultInv
<1> QED
  BY <1>1, <1>2, PTL DEF PlanSpec

\* No stack is longer than there are messages.
LEMMA StacksAreShort ==
  ASSUME PlanInv
  PROVE  \A s \in {closure, calls, asking} : Len(s) <= Cardinality(Messages)
<1>1. PlanType /\ ValidInv /\ AskInv /\ CallsInv
  BY PartsOfInv DEF PlanParts
<1>2. SchemaType /\ closure \in Seq(Frames) /\ calls \in Seq(ColumnCalls) /\ asking \in Seq(Frames)
  BY <1>1 DEF PlanType
<1>3. Cardinality(Messages) \in Nat
  BY MessagesAssumption, FS_CardinalityType
<1>4. Len(<<>>) = 0
  OBVIOUS
<1>5. Len(closure) <= Cardinality(Messages)
  <2>1. CASE closure = <<>>
    BY <2>1, <1>3, <1>4
  <2>2. CASE closure # <<>>
    <3>1. NoneTwice(closure)
      BY <2>2, <1>1 DEF PlanType, ValidInv, ClosureInv
    <3> QED
      BY <3>1, <1>2, DistinctIsShort
  <2> QED
    BY <2>1, <2>2
<1>6. Len(calls) <= Cardinality(Messages)
  <2>1. CASE calls = <<>>
    BY <2>1, <1>3, <1>4
  <2>2. CASE calls # <<>>
    <3>1. task = "columns"
      BY <2>2, <1>1 DEF PlanType
    <3>2. Chained(calls) /\ Supported(calls[1].of)
      BY <2>2, <3>1, <1>1 DEF CallsInv, ValidInv, SupportedInv
    <3> QED
      BY <2>2, <3>2, <1>2, CallsSteady, StackDiffers
  <2> QED
    BY <2>1, <2>2
<1>7. Len(asking) <= Cardinality(Messages)
  <2>1. CASE asking = <<>>
    BY <2>1, <1>3, <1>4
  <2>2. CASE asking # <<>>
    <3>1. NoneTwice(asking)
      BY <2>2, <1>1, AskingIs
    <3> QED
      BY <3>1, <1>2, DistinctIsShort
  <2> QED
    BY <2>1, <2>2
<1> QED
  BY <1>5, <1>6, <1>7

\* When all roots are planned, everything has been seen.
LEMMA AllSeen ==
  ASSUME PlanInv, Planned
  PROVE  /\ Handled = Places
         /\ \A p \in Places : \A s : Seen(p.root, s)
         /\ \A i \in 1..Len(PlanRoots) : i \in 1..root - 1
<1>1. root \in 1..Len(PlanRoots) + 1 /\ root > Len(PlanRoots)
  BY DEF PlanInv, PlanType, Planned
<1>2. \A i \in 1..Len(PlanRoots) : i \in 1..root - 1 /\ i < root
  BY <1>1
<1>3. \A p \in Places : \A s : Seen(p.root, s)
  BY <1>2, PlaceIs DEF Seen
<1> QED
  BY <1>2, <1>3 DEF Handled

LEMMA PlanIsWhole ==
  ASSUME PlanInv, Planned, ~refused
  PROVE  /\ Acceptable
         /\ \A p \in Places : \E i \in 1..Len(relations) : StandsAt(i, p) /\ relations[i].columns = ColumnsAt(p)
         /\ \A i \in 1..Len(relations) : \E p \in Places : StandsAt(i, p)
<1>1. Handled = Places /\ (\A p \in Places : \A s : Seen(p.root, s)) /\ \A i \in 1..Len(PlanRoots) : i \in 1..root - 1
  BY AllSeen
<1>2. /\ \A i \in 1..root - 1 : Supported(PlanRoots[i].of)
      /\ \A p \in Places : Legal(NameAt(p)) /\ \E i \in 1..Len(relations) : StandsAt(i, p)
      /\ \A i \in 1..Len(relations) : \E p \in Places : StandsAt(i, p)
      /\ \A p, q \in Places : NameAt(p) = NameAt(q) => p = q
  BY <1>1 DEF PlanInv, RelationsInv
<1>3. ASSUME NEW p \in Places
      PROVE  /\ \A i \in 1..Len(relations) : relations[i].name = NameAt(p) => relations[i].columns = ColumnsAt(p)
             /\ \A t \in ColumnsAt(p) : Len(t) = 1 => Field(t[1]).name \notin ReservedColumns
  <2>1. /\ \A i \in 1..Len(relations) :
             relations[i].name = NameAt(p) =>
               relations[i].columns = {t \in ColumnsAt(p) : Seen(p.root, p.way \o t)}
        /\ \A t \in ColumnsAt(p) : Seen(p.root, p.way \o t) /\ Len(t) = 1 =>
             Field(t[1]).name \notin ReservedColumns
    BY <1>1 DEF PlanInv, ColumnsInv
  <2>2. \A t : Seen(p.root, p.way \o t)
    BY <1>1
  <2>3. {t \in ColumnsAt(p) : Seen(p.root, p.way \o t)} = ColumnsAt(p)
    BY <2>2
  <2> QED
    BY <2>1, <2>2, <2>3
<1>4. Acceptable
  BY <1>1, <1>2, <1>3 DEF Acceptable
<1>5. ASSUME NEW p \in Places
      PROVE  \E i \in 1..Len(relations) : StandsAt(i, p) /\ relations[i].columns = ColumnsAt(p)
  <2>1. PICK i \in 1..Len(relations) : StandsAt(i, p)
    BY <1>2
  <2>2. relations[i].name = NameAt(p)
    BY <2>1 DEF StandsAt
  <2> QED
    BY <2>1, <2>2, <1>3
<1> QED
  BY <1>2, <1>4, <1>5

\* Whatever the messages are, a plan is refused exactly if there is a reason;
\* one that is not has a relation for every place of the graph, with its fields
\* as columns, and no other; and no schema sends the planner round in circles
\* (plan.rs: build, validate_closure, plan_message_columns).
THEOREM PlanIsSound == PlanSpec => []PlanIsFaithful
<1>1. PlanInv => PlanIsFaithful
  <2> SUFFICES ASSUME PlanInv PROVE PlanIsFaithful
    OBVIOUS
  <2>1. \A s \in {closure, calls, asking} : Len(s) <= Cardinality(Messages)
    BY StacksAreShort
  <2>2. refused => ~Acceptable
    BY DEF PlanInv
  <2>3. Planned /\ ~refused =>
          /\ Acceptable
          /\ \A p \in Places : \E i \in 1..Len(relations) : StandsAt(i, p) /\ relations[i].columns = ColumnsAt(p)
          /\ \A i \in 1..Len(relations) : \E p \in Places : StandsAt(i, p)
    BY PlanIsWhole
  <2> QED
    BY <2>1, <2>2, <2>3 DEF PlanIsFaithful
<1> QED
  BY <1>1, PlanInductive, PTL
=============================================================================
