--------------------------- MODULE CommandsProofs ---------------------------
(***************************************************************************)
(* Proofs about a command (RuntimeCommand) and the parts of it that keep   *)
(* no state beyond it: the Outputs (RunFacts), the Workflow that is called *)
(* (ProductionPack), the PACK a name stands for (PackDiscovery), and what  *)
(* the Runtime says on its way to the log (TextProjection).  They hold for *)
(* any texts, modules, directories, layouts, edits and pieces of output.   *)
(***************************************************************************)
EXTENDS RuntimeCommand, PackDiscovery, ProductionPack, RunFacts, TextProjection,
        SequenceTheorems, WellFoundedInduction, TLAPS

------------------------------------------------------------------------------
(* The Outputs of a Run *)

\* The least of a set of numbers.
LEMMA LeastNumber ==
  ASSUME NEW T \in SUBSET Nat, T # {}
  PROVE  \E x \in T : \A y \in T : x <= y
<1> DEFINE R == {ss \in Nat \X Nat : ss[1] < ss[2]}
<1>1. IsWellFoundedOn(R, Nat)
  BY NatLessThanWellFounded DEF OpToRel
<1> HIDE DEF R
<1>2. PICK x \in T : \A y \in T : ~ (<<y, x>> \in R)
  BY <1>1, WFMin
<1>3. ASSUME NEW y \in T PROVE x <= y
  <2>1. ~ (<<y, x>> \in R)
    BY <1>2
  <2>2. x \in Nat /\ y \in Nat
    OBVIOUS
  <2>3. ~ (y < x)
    BY <2>1, <2>2 DEF R
  <2> QED
    BY <2>2, <2>3
<1> QED
  BY <1>3

\* The greatest of a set of numbers with a bound.
LEMMA GreatestNumber ==
  ASSUME NEW n \in Nat, NEW T \in SUBSET (0..n), T # {}
  PROVE  \E x \in T : \A y \in T : y <= x
<1> DEFINE U == {n - y : y \in T}
<1>1. U \in SUBSET Nat /\ U # {}
  <2>1. U \in SUBSET Nat
    OBVIOUS
  <2>2. PICK y \in T : TRUE
    OBVIOUS
  <2>3. n - y \in U
    OBVIOUS
  <2> QED
    BY <2>1, <2>3
<1> HIDE DEF U
<1>2. PICK u \in U : \A v \in U : u <= v
  BY <1>1, LeastNumber
<1>3. PICK x \in T : u = n - x
  BY <1>2 DEF U
<1>4. ASSUME NEW y \in T PROVE y <= x
  <2>1. u <= n - y
    BY <1>2 DEF U
  <2> QED
    BY <2>1, <1>3
<1> QED
  BY <1>4

\* What both languages take for the name of an Output, character by character.
Sound(name) ==
  /\ name # <<>> /\ name[1] \in Lower /\ name[Len(name)] # Underscore
  /\ \A i \in 1..Len(name) : name[i] \in Lower \cup Digit \cup {Underscore}
  /\ \A i \in 1..Len(name) - 1 : name[i] # Underscore \/ name[i + 1] # Underscore

\* The Runtime: a run of the automaton exists for the sound texts, and no other.
LEMMA MatchesSound ==
  ASSUME NEW name \in Seq(STRING)
  PROVE  Matches(name) <=> Sound(name)
<1> DEFINE n == Len(name)
<1>n. n \in Nat /\ (name = <<>> <=> n = 0)
  OBVIOUS
<1> USE CharactersAssumption
<1>1. ASSUME Matches(name) PROVE Sound(name)
  <2>1. PICK run \in [0..n -> {"start", "word", "gap"}] :
          /\ run[0] = "start" /\ run[n] = "word"
          /\ \A i \in 1..n : run[i] \in Step(run[i - 1], name[i])
    BY <1>1 DEF Matches
  <2> HIDE DEF n
  <2>2. n # 0
    BY <2>1
  <2>3. ASSUME NEW i \in 1..n
        PROVE  /\ name[i] \in Lower \cup Digit \cup {Underscore}
               /\ name[i] = Underscore <=> run[i] = "gap"
               /\ name[i] = Underscore => run[i - 1] = "word"
               /\ run[i - 1] = "start" => name[i] \in Lower
    BY <2>1 DEF Step
  <2>4. name[1] \in Lower
    <3>1. 1 \in 1..n /\ run[1 - 1] = "start"
      BY <2>1, <2>2, <1>n
    <3> QED
      BY <2>3, <3>1
  <2>5. name[n] # Underscore
    <3>1. n \in 1..n
      BY <2>2, <1>n
    <3> QED
      BY <2>3, <3>1, <2>1
  <2>6. ASSUME NEW i \in 1..n - 1 PROVE name[i] # Underscore \/ name[i + 1] # Underscore
    <3>1. i \in 1..n /\ i + 1 \in 1..n /\ (i + 1) - 1 = i
      BY <1>n
    <3> QED
      BY <3>1, <2>3
  <2> QED
    BY <2>2, <2>3, <2>4, <2>5, <2>6, <1>n DEF Sound, n
<1>2. ASSUME Sound(name) PROVE Matches(name)
  <2> DEFINE run == [i \in 0..n |-> IF i = 0 THEN "start" ELSE IF name[i] = Underscore THEN "gap" ELSE "word"]
  <2>1. n \in 1..n
    BY <1>2, <1>n DEF Sound
  <2>2. run \in [0..n -> {"start", "word", "gap"}]
    OBVIOUS
  <2>3. run[0] = "start" /\ run[n] = "word"
    BY <1>2, <2>1 DEF Sound
  <2>4. ASSUME NEW i \in 1..n PROVE run[i] \in Step(run[i - 1], name[i])
    <3>1. name[i] \in Lower \cup Digit \cup {Underscore}
      BY <1>2 DEF Sound
    <3>2. CASE i = 1
      <4>1. name[i] \in Lower /\ name[i] # Underscore
        BY <3>2, <1>2 DEF Sound
      <4>2. run[i] = "word"
        BY <4>1
      <4> QED
        BY <4>1, <4>2 DEF Step
    <3>3. CASE i # 1
      <4>1. i - 1 \in 1..n - 1 /\ i - 1 \in 0..n /\ i - 1 # 0 /\ (i - 1) + 1 = i
        BY <3>3, <1>n
      <4>2. run[i - 1] # "start"
        BY <4>1
      <4>3. CASE name[i] = Underscore
        <5>1. name[i - 1] # Underscore
          BY <4>1, <4>3, <1>2 DEF Sound
        <5>2. run[i - 1] = "word" /\ run[i] = "gap"
          BY <5>1, <4>1, <4>3
        <5> QED
          BY <5>2, <4>3 DEF Step
      <4>4. CASE name[i] # Underscore
        <5>1. run[i] = "word"
          BY <4>4
        <5> QED
          BY <5>1, <4>2, <4>4, <3>1 DEF Step
      <4> QED
        BY <4>3, <4>4
    <3> QED
      BY <3>2, <3>3
  <2> HIDE DEF run
  <2> QED
    BY <2>2, <2>3, <2>4 DEF Matches
<1> QED
  BY <1>1, <1>2

\* A segment is what lies between two neighbouring cuts.
Neighbours(p, q, name) ==
  p \in Cuts(name) /\ q \in Cuts(name) /\ p < q /\ \A c \in Cuts(name) : c <= p \/ c >= q
LEMMA SegmentBetween ==
  ASSUME NEW name \in Seq(STRING), NEW p, NEW q, Neighbours(p, q, name)
  PROVE  /\ SubSeq(name, p + 1, q - 1) \in Segments(name)
         /\ p \in 0..Len(name) /\ q \in 1..Len(name) + 1
         /\ SubSeq(name, p + 1, q - 1) \in Seq(STRING)
         /\ (SubSeq(name, p + 1, q - 1) = <<>>) <=> q = p + 1
         /\ ToSet(SubSeq(name, p + 1, q - 1)) = {name[i] : i \in p + 1..q - 1}
<1> DEFINE s == SubSeq(name, p + 1, q - 1)
<1>1. p \in 0..Len(name) /\ q \in 1..Len(name) + 1 /\ p < q
  BY DEF Neighbours, Cuts
<1>2. s \in Segments(name)
  <2>1. <<p, q>> \in {x \in Cuts(name) \X Cuts(name) :
            x[1] < x[2] /\ \A c \in Cuts(name) : c <= x[1] \/ c >= x[2]}
    BY DEF Neighbours
  <2>2. s = SubSeq(name, <<p, q>>[1] + 1, <<p, q>>[2] - 1)
    OBVIOUS
  <2> QED
    BY <2>1, <2>2 DEF Segments
<1>3. /\ s \in Seq(STRING)
      /\ Len(s) = IF p + 1 <= q - 1 THEN (q - 1) - (p + 1) + 1 ELSE 0
      /\ \A i \in 1..(q - 1) - (p + 1) + 1 : s[i] = name[p + 1 + i - 1]
  <2>1. p + 1 \in Int /\ q - 1 \in Int
    BY <1>1
  <2>2. \A i \in p + 1..q - 1 : name[i] \in STRING
    BY <1>1
  <2> QED
    BY <2>1, <2>2, SubSeqProperties
<1> HIDE DEF s
<1>4. (s = <<>>) <=> q = p + 1
  BY <1>1, <1>3
<1>5. ToSet(s) = {name[i] : i \in p + 1..q - 1}
  <2>1. DOMAIN s = 1..Len(s)
    BY <1>3
  <2>2. ASSUME NEW x \in ToSet(s) PROVE x \in {name[i] : i \in p + 1..q - 1}
    <3>1. PICK i \in 1..Len(s) : x = s[i]
      BY <2>1, <2>2 DEF ToSet
    <3>2. p + 1 + i - 1 \in p + 1..q - 1 /\ x = name[p + 1 + i - 1]
      BY <3>1, <1>1, <1>3
    <3> QED
      BY <3>2
  <2>3. ASSUME NEW i \in p + 1..q - 1 PROVE name[i] \in ToSet(s)
    <3>1. i - p \in 1..(q - 1) - (p + 1) + 1 /\ p + 1 + (i - p) - 1 = i /\ p + 1 <= q - 1
      BY <1>1
    <3>2. s[i - p] = name[p + 1 + (i - p) - 1]
      BY <3>1, <1>3
    <3> QED
      BY <3>1, <3>2, <2>1, <1>3 DEF ToSet
  <2> QED
    BY <2>2, <2>3
<1> QED
  BY <1>1, <1>2, <1>3, <1>4, <1>5 DEF s

\* Every character but "_" lies in a segment.
LEMMA Enclosed ==
  ASSUME NEW name \in Seq(STRING), NEW i \in 1..Len(name), name[i] # Underscore
  PROVE  \E p, q : Neighbours(p, q, name) /\ p < i /\ i < q
<1> DEFINE n == Len(name)
           B == {c \in Cuts(name) : c < i}
           A == {c \in Cuts(name) : c > i}
<1>1. Cuts(name) \subseteq 0..n + 1 /\ i \notin Cuts(name) /\ 0 \in Cuts(name) /\ n + 1 \in Cuts(name) /\ n \in Nat
  BY DEF Cuts
<1>2. PICK p \in B : \A c \in B : c <= p
  <2>1. n + 1 \in Nat /\ B \in SUBSET (0..n + 1) /\ B # {}
    BY <1>1
  <2> QED
    BY <2>1, GreatestNumber
<1>3. PICK q \in A : \A c \in A : q <= c
  <2>1. A \in SUBSET Nat /\ A # {}
    BY <1>1
  <2> QED
    BY <2>1, LeastNumber
<1>4. ASSUME NEW c \in Cuts(name) PROVE c <= p \/ c >= q
  <2>1. c \in Nat /\ c # i
    BY <1>1
  <2>2. c < i \/ c > i
    BY <2>1
  <2>3. c \in B \/ c \in A
    BY <2>2
  <2> QED
    BY <2>3, <1>2, <1>3, <1>1
<1>5. p \in Cuts(name) /\ q \in Cuts(name) /\ p < i /\ i < q /\ p \in Nat /\ q \in Nat
  BY <1>1
<1>6. p < q
  BY <1>5
<1> QED
  BY <1>4, <1>5, <1>6 DEF Neighbours

\* The CLI: the segments are as they must be in the sound texts, and no other.
SegmentsSound(name) ==
  /\ name # <<>> /\ Head(name) \in Lower
  /\ \A s \in Segments(name) : s # <<>> /\ ToSet(s) \subseteq Lower \cup Digit
LEMMA SegmentsAgree ==
  ASSUME NEW name \in Seq(STRING)
  PROVE  SegmentsSound(name) <=> Sound(name)
<1> DEFINE n == Len(name)
<1> USE CharactersAssumption
<1>1. n \in Nat /\ (name = <<>> <=> n = 0) /\ (name # <<>> => Head(name) = name[1])
  OBVIOUS
<1>2. ASSUME Sound(name) PROVE SegmentsSound(name)
  <2>1. ASSUME NEW s \in Segments(name) PROVE s # <<>> /\ ToSet(s) \subseteq Lower \cup Digit
    <3>1. PICK p, q : Neighbours(p, q, name) /\ s = SubSeq(name, p + 1, q - 1)
      BY <2>1 DEF Segments, Neighbours
    <3>2. p \in 0..n /\ q \in 1..n + 1 /\ p < q
      BY <3>1, SegmentBetween DEF Neighbours
    <3>3. q # p + 1
      <4> SUFFICES ASSUME q = p + 1 PROVE FALSE
        OBVIOUS
      <4>1. p = 0 \/ (p \in 1..n /\ name[p] = Underscore)
        BY <3>1, <3>2 DEF Neighbours, Cuts
      <4>2. q = n + 1 \/ (q \in 1..n /\ name[q] = Underscore)
        BY <3>1, <3>2 DEF Neighbours, Cuts
      <4>3. n # 0 /\ name[1] # Underscore /\ name[n] # Underscore
        BY <1>1, <1>2 DEF Sound
      <4>4. CASE p = 0
        BY <4>2, <4>3, <4>4, <1>1
      <4>5. CASE p \in 1..n /\ name[p] = Underscore
        <5>1. p # n
          BY <4>3, <4>5
        <5>2. p \in 1..n - 1 /\ q = p + 1 /\ q # n + 1
          BY <5>1, <4>5, <1>1
        <5>3. name[p + 1] # Underscore
          BY <5>2, <4>5, <1>2 DEF Sound
        <5> QED
          BY <5>2, <5>3, <4>2
      <4> QED
        BY <4>1, <4>4, <4>5
    <3>4. ASSUME NEW i \in p + 1..q - 1 PROVE name[i] \in Lower \cup Digit
      <4>1. i \in 1..n /\ i > p /\ i < q
        BY <3>2, <1>1
      <4>2. i \notin Cuts(name)
        BY <4>1, <3>1, <3>2 DEF Neighbours
      <4>3. name[i] # Underscore
        BY <4>1, <4>2 DEF Cuts
      <4> QED
        BY <4>1, <4>3, <1>2 DEF Sound
    <3> QED
      BY <3>1, <3>3, <3>4, SegmentBetween
  <2> QED
    BY <2>1, <1>1, <1>2 DEF Sound, SegmentsSound
<1>3. ASSUME SegmentsSound(name) PROVE Sound(name)
  <2>1. n \in 1..n /\ name[1] \in Lower
    BY <1>1, <1>3 DEF SegmentsSound
  <2>2. ASSUME NEW i \in 1..n PROVE name[i] \in Lower \cup Digit \cup {Underscore}
    <3>1. CASE name[i] # Underscore
      <4>1. PICK p, q : Neighbours(p, q, name) /\ p < i /\ i < q
        BY <3>1, Enclosed
      <4>2. p \in 0..n /\ q \in 1..n + 1
        BY <4>1, SegmentBetween
      <4>3. i \in p + 1..q - 1
        BY <4>1, <4>2
      <4>4. ToSet(SubSeq(name, p + 1, q - 1)) \subseteq Lower \cup Digit
        BY <4>1, <1>3, SegmentBetween DEF SegmentsSound
      <4>5. name[i] \in ToSet(SubSeq(name, p + 1, q - 1))
        BY <4>1, <4>3, SegmentBetween
      <4> QED
        BY <4>4, <4>5
    <3> QED
      BY <3>1
  <2>3. ASSUME NEW p \in Cuts(name), p + 1 \in Cuts(name) PROVE FALSE
    <3>1. Neighbours(p, p + 1, name)
      BY <2>3 DEF Neighbours, Cuts
    <3>2. SubSeq(name, p + 1, (p + 1) - 1) \in Segments(name) /\ SubSeq(name, p + 1, (p + 1) - 1) = <<>>
      BY <3>1, SegmentBetween
    <3> QED
      BY <3>2, <1>3 DEF SegmentsSound
  <2>4. name[n] # Underscore
    <3>1. n + 1 \in Cuts(name) /\ (name[n] = Underscore => n \in Cuts(name))
      BY <2>1 DEF Cuts
    <3> QED
      BY <3>1, <2>3
  <2>5. ASSUME NEW i \in 1..n - 1 PROVE name[i] # Underscore \/ name[i + 1] # Underscore
    <3>1. i \in 1..n /\ i + 1 \in 1..n
      BY <1>1
    <3>2. name[i] = Underscore /\ name[i + 1] = Underscore => i \in Cuts(name) /\ i + 1 \in Cuts(name)
      BY <3>1 DEF Cuts
    <3> QED
      BY <3>2, <2>3
  <2> QED
    BY <1>1, <2>1, <2>2, <2>4, <2>5, <1>3 DEF Sound, SegmentsSound
<1> QED
  BY <1>2, <1>3

\* The two languages accept the same names: the automaton of the regular
\* expression of the Runtime and the segments of the CLI are one rule.
THEOREM NamesAgree ==
  \A name \in Seq(STRING) : RuntimeAccepts(name) <=> HostAccepts(name)
BY MatchesSound, SegmentsAgree DEF RuntimeAccepts, HostAccepts, SegmentsSound

\* What the Runtime wrote and reported at each point.
FactsInv ==
  /\ returned \in Returns
  /\ files \subseteq returned.names
  /\ stray \in {"none", "early", "late"}
  /\ way \in {"returned", "writing", "reported", "judged", "published", "refused"}
  /\ way \notin {"returned", "refused"} =>
       /\ \A name \in returned.names : RuntimeAccepts(name)
       /\ stray # "early"
  /\ way \in {"reported", "judged", "published"} => report = returned.names /\ files = returned.names
  /\ way \in {"judged", "published"} => \A name \in report : HostAccepts(name)
  /\ way = "published" => manifest = report /\ stray = "none"
  /\ way = "refused" => broken \/ shown \/ stray # "none" \/ ~returned.exact
                          \/ ~ \A name \in returned.names : RuntimeAccepts(name)

LEMMA FactsInductive == FactsSpec => []FactsInv
<1>1. FactsInit => FactsInv
  BY ReturnsAssumption DEF FactsInit, FactsInv
<1>2. FactsInv /\ [FactsNext]_factVars => FactsInv'
  <2> SUFFICES ASSUME FactsInv, [FactsNext]_factVars PROVE FactsInv'
    OBVIOUS
  <2> USE DEF FactsInv
  <2>1. CASE Normalize
    BY <2>1 DEF Normalize, Refuse
  <2>2. CASE WriteOutput
    BY <2>2 DEF WriteOutput, Refuse
  <2>3. CASE ReportOutputs
    BY <2>3 DEF ReportOutputs
  <2>4. CASE LeaveStray
    BY <2>4 DEF LeaveStray
  <2>5. CASE JudgeReport
    \* The CLI refuses no name that the Runtime has accepted.
    <3>1. \A name \in report : HostAccepts(name)
      BY <2>5, NamesAgree, ReturnsAssumption DEF JudgeReport
    <3> QED
      BY <2>5, <3>1 DEF JudgeReport, Refuse
  <2>6. CASE PublishOutputs
    BY <2>6 DEF PublishOutputs, Refuse, GateReady, Complete
  <2>7. CASE UNCHANGED factVars
    BY <2>7 DEF factVars
  <2> QED
    BY <2>1, <2>2, <2>3, <2>4, <2>5, <2>6, <2>7 DEF FactsNext
<1> QED
  BY <1>1, <1>2, PTL DEF FactsSpec

\* Whatever is published is what the Workflow returned and is read by every
\* reader of either language, and only what the Runtime refuses is refused.
THEOREM PublishedFactsAreRead == FactsSpec => []PublishedIsReadable
<1>1. FactsInv => PublishedIsReadable
  BY DEF FactsInv, PublishedIsReadable, Resolves, Complete, RuntimeReads
<1> QED
  BY FactsInductive, <1>1, PTL

------------------------------------------------------------------------------
(* The Workflow of a PACK *)

\* An entry as it was read.
Read(m) == [at |-> m, version |-> code[m]]

\* What has been read, whatever the author does meanwhile.
LoadType ==
  /\ operation \in {"inspect", "run"}
  /\ code \in [Modules -> Contents]
  /\ changes \in Nat
  /\ step \in {"scan", "inspect", "guide", "call", "done", "failed"}
  /\ pending \subseteq Modules
  /\ inspected \subseteq [at : Modules, version : Versions]
  /\ step = "scan" => inspected = {} /\ pending = {}
ReadInv ==
  /\ \A d, e \in inspected :
       NameOf[d.version.interface] = NameOf[e.version.interface] => d = e
  /\ step \in {"guide", "call"} => operation = "run"
  /\ step \in {"guide", "call", "done"} =>
       \E e \in inspected : Inspected(Wanted) = {e} /\ loaded = {e.version}
  /\ step = "call" \/ (step = "done" /\ operation = "run") =>
       \A version \in loaded : guideRead = version.guide

\* As long as the author changes nothing, what was read is what there is.
AsItWas ==
  /\ step # "scan" /\ step # "failed" =>
       /\ ~Forbidden(Present)
       /\ pending \subseteq Present
       /\ inspected = {Read(m) : m \in Present \ pending}
       /\ \A m \in Present \ pending : code[m] \in Versions
  /\ step \in {"guide", "call", "done"} => pending = {}
  /\ step = "call" \/ (step = "done" /\ operation = "run") =>
       \A version \in loaded : version.guide \in readable \cup {NoGuide}
  /\ step = "failed" /\ ~died => ~SoundPack
LoadInv == LoadType /\ ReadInv /\ (changes = 0 => AsItWas)

LEMMA TypeKept == LoadType /\ [LoadNext]_loadVars => LoadType'
<1> SUFFICES ASSUME LoadType, [LoadNext]_loadVars PROVE LoadType'
  OBVIOUS
<1> USE DEF LoadType
<1>1. CASE Scan
  BY <1>1 DEF Scan, Present
<1>2. CASE InspectEntry
  <2>1. PICK m \in pending :
          /\ pending' = pending \ {m}
          /\ \/ Fresh(m) /\ inspected' = inspected \cup {[at |-> m, version |-> code[m]]} /\ UNCHANGED <<step, died>>
             \/ step' = "failed" /\ inspected' = inspected
    BY <1>2 DEF InspectEntry
  <2>2. inspected' \subseteq [at : Modules, version : Versions]
    BY <2>1 DEF Fresh
  <2> QED
    BY <1>2, <2>1, <2>2 DEF InspectEntry
<1>3. CASE Report
  BY <1>3 DEF Report
<1>4. CASE Load
  BY <1>4 DEF Load
<1>5. CASE ReadGuide
  BY <1>5 DEF ReadGuide
<1>6. CASE Call
  BY <1>6 DEF Call
<1>7. CASE Change
  <2>1. code' \in [Modules -> Contents]
    BY <1>7 DEF Change
  <2> QED
    BY <1>7, <2>1 DEF Change
<1>8. CASE UNCHANGED loadVars
  BY <1>8 DEF loadVars
<1> QED
  BY <1>1, <1>2, <1>3, <1>4, <1>5, <1>6, <1>7, <1>8 DEF LoadNext

LEMMA ReadKept == LoadType /\ ReadInv /\ [LoadNext]_loadVars => ReadInv'
<1> SUFFICES ASSUME LoadType, ReadInv, [LoadNext]_loadVars PROVE ReadInv'
  OBVIOUS
<1> USE DEF LoadType, ReadInv, Inspected
<1>1. CASE Scan
  BY <1>1 DEF Scan
<1>2. CASE InspectEntry
  <2>1. PICK m \in pending :
          \/ Fresh(m) /\ inspected' = inspected \cup {[at |-> m, version |-> code[m]]} /\ UNCHANGED <<step, died>>
          \/ step' = "failed" /\ inspected' = inspected
    BY <1>2 DEF InspectEntry
  <2>2. step = "inspect" /\ UNCHANGED <<operation, loaded, guideRead>> /\ step' \in {"inspect", "failed"}
    BY <1>2, <2>1 DEF InspectEntry
  <2>3. \A d, e \in inspected' : NameOf[d.version.interface] = NameOf[e.version.interface] => d = e
    BY <2>1 DEF Fresh, NamesInspected
  <2> QED
    BY <2>2, <2>3
<1>3. CASE Report
  <2>1. step' = "done" => \E e \in inspected : Inspected(Wanted) = {e} /\ loaded' = {e.version}
    <3> SUFFICES ASSUME step' = "done" PROVE \E e \in inspected : Inspected(Wanted) = {e} /\ loaded' = {e.version}
      OBVIOUS
    <3>1. PICK e \in inspected : e \in Inspected(Wanted)
      BY <1>3 DEF Report
    <3>2. Inspected(Wanted) = {e}
      BY <3>1
    <3>3. loaded' = {f.version : f \in Inspected(Wanted)}
      BY <1>3 DEF Report
    <3>4. loaded' = {e.version}
      BY <3>2, <3>3
    <3> QED
      BY <3>2, <3>4
  <2> QED
    BY <1>3, <2>1 DEF Report
<1>4. CASE Load
  <2>1. step' = "guide" => \E e \in inspected : Inspected(Wanted) = {e} /\ loaded' = {e.version}
    <3> SUFFICES ASSUME step' = "guide" PROVE \E e \in inspected : Inspected(Wanted) = {e} /\ loaded' = {e.version}
      OBVIOUS
    <3>1. PICK e \in Inspected(Wanted) : Unchanged(e) /\ loaded' = {code[e.at]}
      BY <1>4 DEF Load
    <3>2. Inspected(Wanted) = {e}
      BY <3>1
    <3> QED
      BY <3>1, <3>2 DEF Unchanged
  <2> QED
    BY <1>4, <2>1 DEF Load
<1>5. CASE ReadGuide
  <2>1. PICK e \in inspected : Inspected(Wanted) = {e} /\ loaded = {e.version}
    BY <1>5 DEF ReadGuide
  <2>2. step' = "call" => \A version \in loaded : guideRead' = version.guide
    BY <1>5, <2>1 DEF ReadGuide
  <2>3. step' \in {"call", "failed"} /\ operation = "run"
    BY <1>5, <2>1 DEF ReadGuide
  <2> QED
    BY <1>5, <2>1, <2>2, <2>3 DEF ReadGuide
<1>6. CASE Call
  BY <1>6 DEF Call
<1>7. CASE Change
  BY <1>7 DEF Change
<1>8. CASE UNCHANGED loadVars
  BY <1>8 DEF loadVars
<1> QED
  BY <1>1, <1>2, <1>3, <1>4, <1>5, <1>6, <1>7, <1>8 DEF LoadNext

\* A checkout that does not change is judged as it is.
LEMMA JudgedAsItIs == LoadInv /\ LoadNext /\ changes' = 0 => AsItWas'
<1> SUFFICES ASSUME LoadInv, LoadNext, changes' = 0 PROVE AsItWas'
  OBVIOUS
<1> USE DEF LoadInv
<1>0. /\ changes = 0 /\ AsItWas /\ ~Change
      /\ UNCHANGED <<operation, code, readable, changes>>
  <2>1. ~Change
    BY DEF Change, LoadType
  <2> QED
    BY <2>1 DEF LoadNext, Scan, InspectEntry, Report, Load, ReadGuide, Call
<1>a. Present' = Present /\ Forbidden(Present)' = Forbidden(Present) /\ SoundPack' = SoundPack
  BY <1>0 DEF Present, Forbidden, SoundPack
<1>b. \A m : Read(m)' = Read(m)
  BY <1>0 DEF Read
<1>c. Present \subseteq Modules
  BY DEF Present
<1>1. CASE Scan
  <2>1. CASE Forbidden(Present)
    <3>1. ~SoundPack
      BY <2>1 DEF Forbidden, SoundPack
    <3> QED
      BY <1>1, <2>1, <3>1, <1>0, <1>a DEF Scan, AsItWas
  <2>2. CASE ~Forbidden(Present)
    <3>1. step' = "inspect" /\ pending' = Present /\ inspected' = {}
      BY <1>1, <2>2 DEF Scan, LoadType
    <3> QED
      BY <2>2, <3>1, <1>a, <1>b DEF AsItWas
  <2> QED
    BY <2>1, <2>2
<1>2. CASE InspectEntry
  <2>1. PICK m \in pending :
          /\ pending' = pending \ {m}
          /\ \/ /\ Fresh(m) /\ inspected' = inspected \cup {[at |-> m, version |-> code[m]]}
                /\ UNCHANGED <<step, died>>
             \/ ~Fresh(m) /\ step' = "failed" /\ UNCHANGED <<inspected, died>>
             \/ step' = "failed" /\ died' = TRUE /\ UNCHANGED inspected
    BY <1>2 DEF InspectEntry
  <2>2. /\ step = "inspect" /\ ~Forbidden(Present) /\ pending \subseteq Present /\ m \in Present
        /\ inspected = {Read(n) : n \in Present \ pending}
        /\ \A n \in Present \ pending : code[n] \in Versions
    BY <1>0, <1>2, <2>1 DEF InspectEntry, AsItWas
  <2>3. CASE step' = "failed"
    <3>1. ASSUME ~died' PROVE ~SoundPack
      <4>1. ~Fresh(m) /\ ~died
        BY <2>1, <2>3, <3>1, <2>2
      <4>2. CASE code[m] \notin Versions
        BY <4>2, <2>2 DEF SoundPack
      <4>3. CASE NameOf[code[m].interface] \in NamesInspected
        <5>1. PICK e \in inspected : NameOf[code[m].interface] = NameOf[e.version.interface]
          BY <4>3 DEF NamesInspected
        <5>2. PICK n \in Present \ pending : e = Read(n)
          BY <5>1, <2>2
        <5>3. e.version = code[n]
          BY <5>2 DEF Read
        <5>4. n # m /\ n \in Present
          BY <5>2, <2>1
        <5> QED
          BY <5>1, <5>3, <5>4, <2>2 DEF SoundPack
      <4> QED
        BY <4>1, <4>2, <4>3 DEF Fresh
    <3> QED
      BY <2>3, <3>1, <1>a DEF AsItWas
  <2>4. CASE step' # "failed"
    <3>1. /\ Fresh(m) /\ step' = "inspect"
          /\ inspected' = inspected \cup {Read(m)} /\ pending' = pending \ {m}
      BY <2>1, <2>2, <2>4 DEF Read
    <3>2. Present \ pending' = (Present \ pending) \cup {m}
      BY <3>1, <2>2
    <3>3. inspected' = {Read(n) : n \in Present \ pending'}
      BY <3>1, <3>2, <2>2
    <3>4. \A n \in Present \ pending' : code[n] \in Versions
      BY <3>1, <3>2, <2>2 DEF Fresh
    <3>5. pending' \subseteq Present
      BY <3>1, <2>2
    <3> QED
      BY <3>1, <3>3, <3>4, <3>5, <2>2, <1>0, <1>a, <1>b DEF AsItWas
  <2> QED
    BY <2>3, <2>4
<1>d. ASSUME step = "inspect", pending = {}
      PROVE  /\ inspected = {Read(m) : m \in Present} /\ \A m \in Present : code[m] \in Versions
             /\ ~Forbidden(Present)
             /\ \A e \in Inspected(Wanted) : e.at \in Present /\ code[e.at] = e.version
             /\ Inspected(Wanted) = {} => ~SoundPack
  <2>1. /\ inspected = {Read(m) : m \in Present} /\ \A m \in Present : code[m] \in Versions
        /\ ~Forbidden(Present)
    <3>1. Present \ pending = Present
      BY <1>d
    <3> QED
      BY <3>1, <1>d, <1>0 DEF AsItWas
  <2>2. \A e \in Inspected(Wanted) : e.at \in Present /\ code[e.at] = e.version
    BY <2>1 DEF Inspected, Read
  <2>3. ASSUME Inspected(Wanted) = {}, SoundPack PROVE FALSE
    <3>1. PICK m \in Present : NameOf[code[m].interface] = Wanted
      BY <2>3 DEF SoundPack
    <3>2. Read(m) \in inspected /\ Read(m).version = code[m]
      BY <3>1, <2>1 DEF Read
    <3> QED
      BY <3>1, <3>2, <2>3 DEF Inspected
  <2> QED
    BY <2>1, <2>2, <2>3
<1>3. CASE Report
  <2>1. step = "inspect" /\ pending = {} /\ operation = "inspect"
        /\ UNCHANGED <<pending, inspected, died>> /\ step' \in {"done", "failed"}
        /\ (step' = "failed" => Inspected(Wanted) = {})
    BY <1>3 DEF Report
  <2>2. Present' \ pending' = Present
    BY <2>1, <1>a
  <2>3. step' = "failed" => ~SoundPack'
    BY <2>1, <1>d, <1>a
  <2>4. {Read(m)' : m \in Present} = {Read(m) : m \in Present}
    BY <1>b
  <2> QED
    BY <2>1, <2>2, <2>3, <2>4, <1>d, <1>0, <1>a, <1>b DEF AsItWas
<1>4. CASE Load
  <2>1. /\ step = "inspect" /\ pending = {} /\ operation = "run"
        /\ UNCHANGED <<pending, inspected, died>> /\ step' \in {"guide", "failed"}
        /\ (step' = "failed" => \A e \in Inspected(Wanted) : ~Unchanged(e))
    BY <1>4 DEF Load
  <2>2. Present' \ pending' = Present
    BY <2>1, <1>a
  <2>3. step' = "failed" => ~SoundPack'
    BY <2>1, <1>d, <1>a DEF Unchanged
  <2> QED
    BY <2>1, <2>2, <2>3, <1>d, <1>0, <1>a, <1>b DEF AsItWas
<1>5. CASE ReadGuide
  <2>1. PICK e \in inspected : Inspected(Wanted) = {e} /\ loaded = {e.version}
    BY <1>5 DEF ReadGuide, ReadInv
  <2>2. /\ step = "guide" /\ pending = {} /\ operation = "run"
        /\ UNCHANGED <<pending, inspected, died, loaded>>
        /\ \/ step' = "call" /\ e.version.guide \in readable \cup {NoGuide}
           \/ step' = "failed" /\ e.version.guide \notin readable \cup {NoGuide}
    BY <1>5, <2>1, <1>0 DEF ReadGuide, ReadInv, AsItWas
  <2>3. ~Forbidden(Present) /\ inspected = {Read(m) : m \in Present} /\ \A m \in Present : code[m] \in Versions
    <3>1. Present \ pending = Present
      BY <2>2
    <3> QED
      BY <3>1, <2>2, <1>0 DEF AsItWas
  <2>4. ASSUME e.version.guide \notin readable \cup {NoGuide}, SoundPack PROVE FALSE
    <3>1. PICK m \in Present : NameOf[code[m].interface] = Wanted /\ code[m].guide \in readable \cup {NoGuide}
      BY <2>4, <2>2 DEF SoundPack
    <3>2. Read(m) \in inspected /\ Read(m).version = code[m]
      BY <3>1, <2>3 DEF Read
    <3>3. Read(m) = e
      BY <3>1, <3>2, <2>1 DEF Inspected
    <3> QED
      BY <3>1, <3>2, <3>3, <2>4
  <2>5. Present' \ pending' = Present
    BY <2>2, <1>a
  <2> QED
    BY <2>1, <2>2, <2>3, <2>4, <2>5, <1>0, <1>a, <1>b DEF AsItWas
<1>6. CASE Call
  <2>1. step = "call" /\ step' = "done" /\ UNCHANGED <<pending, inspected, died, loaded>> /\ operation = "run"
    BY <1>6 DEF Call, ReadInv
  <2> QED
    BY <2>1, <1>0, <1>a, <1>b DEF AsItWas
<1> QED
  BY <1>1, <1>2, <1>3, <1>4, <1>5, <1>6, <1>0 DEF LoadNext

LEMMA LoadInductive == LoadSpec => []LoadInv
<1>1. LoadInit => LoadInv
  BY DEF LoadInit, LoadInv, LoadType, ReadInv, AsItWas
<1>2. LoadInv /\ [LoadNext]_loadVars => LoadInv'
  <2> SUFFICES ASSUME LoadInv, [LoadNext]_loadVars PROVE LoadInv'
    OBVIOUS
  <2>1. LoadType' /\ ReadInv'
    BY TypeKept, ReadKept DEF LoadInv
  <2>2. CASE LoadNext
    BY <2>1, <2>2, JudgedAsItIs DEF LoadInv
  <2>3. CASE UNCHANGED loadVars
    <3>1. (changes = 0 => AsItWas)' = (changes = 0 => AsItWas)
      BY <2>3 DEF loadVars, AsItWas, Forbidden, Present, Read, SoundPack
    <3> QED
      BY <2>1, <3>1 DEF LoadInv
  <2> QED
    BY <2>2, <2>3
<1> QED
  BY <1>1, <1>2, PTL DEF LoadSpec

\* A Workflow is called or reported only as it was inspected, whatever the author
\* changes meanwhile; and while nothing changes, a sound checkout succeeds and
\* every other one fails.
THEOREM OnlyInspectedWorkflowsRun == LoadSpec => []OnlyTheInspectedRuns
<1>1. LoadInv => OnlyTheInspectedRuns
  <2> SUFFICES ASSUME LoadInv PROVE OnlyTheInspectedRuns
    OBVIOUS
  <2> USE DEF LoadInv
  <2>1. ASSUME step = "done" PROVE \E e \in inspected :
         /\ Inspected(Wanted) = {e} /\ loaded = {e.version}
         /\ operation = "run" => guideRead = e.version.guide
    BY <2>1 DEF ReadInv
  <2>2. ASSUME step = "done", changes = 0 PROVE SoundPack
    <3>1. PICK e \in inspected : Inspected(Wanted) = {e} /\ loaded = {e.version}
      BY <2>2 DEF ReadInv
    <3>2. /\ ~Forbidden(Present) /\ pending = {} /\ inspected = {Read(m) : m \in Present}
          /\ \A m \in Present : code[m] \in Versions
          /\ operation = "run" => e.version.guide \in readable \cup {NoGuide}
      <4>1. pending = {}
        BY <2>2 DEF AsItWas
      <4>2. Present \ pending = Present
        BY <4>1
      <4> QED
        BY <4>1, <4>2, <2>2, <3>1 DEF AsItWas
    <3>3. PICK m \in Present : e = Read(m)
      BY <3>1, <3>2
    <3>4. NameOf[code[m].interface] = Wanted /\ e.version = code[m]
      BY <3>1, <3>3 DEF Inspected, Read
    <3>5. ASSUME NEW n \in Present, NEW o \in Present, n # o
          PROVE  NameOf[code[n].interface] # NameOf[code[o].interface]
      <4>1. Read(n) \in inspected /\ Read(o) \in inspected /\ Read(n) # Read(o)
            /\ Read(n).version = code[n] /\ Read(o).version = code[o]
        BY <3>5, <3>2 DEF Read
      <4> QED
        BY <4>1 DEF ReadInv
    <3> QED
      BY <3>2, <3>3, <3>4, <3>5 DEF SoundPack, Forbidden
  <2>3. ASSUME step = "failed", changes = 0, ~died PROVE ~SoundPack
    BY <2>3 DEF AsItWas
  <2> QED
    BY <2>1, <2>2, <2>3 DEF OnlyTheInspectedRuns
<1> QED
  BY LoadInductive, <1>1, PTL

------------------------------------------------------------------------------
(* The PACK of a name *)

\* The elements of sequences.
LEMMA ElementsOfTwo ==
  ASSUME NEW S, NEW s \in Seq(S), NEW t \in Seq(S)
  PROVE  ToSet(s \o t) = ToSet(s) \cup ToSet(t)
<1>1. /\ s \o t \in Seq(S) /\ Len(s \o t) = Len(s) + Len(t)
      /\ \A i \in 1..Len(s) + Len(t) : (s \o t)[i] = IF i <= Len(s) THEN s[i] ELSE t[i - Len(s)]
  BY ConcatProperties
<1>2. /\ DOMAIN s = 1..Len(s) /\ DOMAIN t = 1..Len(t) /\ DOMAIN (s \o t) = 1..Len(s) + Len(t)
      /\ Len(s) \in Nat /\ Len(t) \in Nat
  BY <1>1
<1>3. ASSUME NEW x \in ToSet(s \o t) PROVE x \in ToSet(s) \cup ToSet(t)
  <2>1. PICK i \in 1..Len(s) + Len(t) : x = (s \o t)[i]
    BY <1>2, <1>3 DEF ToSet
  <2>2. CASE i <= Len(s)
    BY <2>1, <2>2, <1>1, <1>2 DEF ToSet
  <2>3. CASE ~(i <= Len(s))
    <3>1. i - Len(s) \in 1..Len(t) /\ x = t[i - Len(s)]
      BY <2>1, <2>3, <1>1, <1>2
    <3> QED
      BY <3>1, <1>2 DEF ToSet
  <2> QED
    BY <2>2, <2>3
<1>4. ASSUME NEW x \in ToSet(s) PROVE x \in ToSet(s \o t)
  <2>1. PICK i \in 1..Len(s) : x = s[i]
    BY <1>2, <1>4 DEF ToSet
  <2>2. i \in 1..Len(s) + Len(t) /\ x = (s \o t)[i]
    BY <2>1, <1>1, <1>2
  <2> QED
    BY <2>2, <1>2 DEF ToSet
<1>5. ASSUME NEW x \in ToSet(t) PROVE x \in ToSet(s \o t)
  <2>1. PICK i \in 1..Len(t) : x = t[i]
    BY <1>2, <1>5 DEF ToSet
  <2>2. i + Len(s) \in 1..Len(s) + Len(t) /\ ~(i + Len(s) <= Len(s)) /\ (i + Len(s)) - Len(s) = i
    BY <1>2
  <2>3. x = (s \o t)[i + Len(s)]
    BY <2>1, <2>2, <1>1
  <2> QED
    BY <2>2, <2>3, <1>2 DEF ToSet
<1> QED
  BY <1>3, <1>4, <1>5

LEMMA ElementsOfTail ==
  ASSUME NEW S, NEW s \in Seq(S), s # <<>>
  PROVE  /\ ToSet(s) = {Head(s)} \cup ToSet(Tail(s))
         /\ Head(s) \in S /\ Tail(s) \in Seq(S)
<1>1. /\ Tail(s) \in Seq(S) /\ Len(Tail(s)) = Len(s) - 1 /\ Head(s) \in S
      /\ \A i \in 1..Len(Tail(s)) : Tail(s)[i] = s[i + 1]
  BY HeadTailProperties
<1>2. /\ DOMAIN s = 1..Len(s) /\ Len(s) \in Nat /\ Len(s) # 0 /\ Head(s) = s[1]
      /\ DOMAIN Tail(s) = 1..Len(Tail(s))
  BY <1>1
<1>3. ASSUME NEW x \in ToSet(s) PROVE x \in {Head(s)} \cup ToSet(Tail(s))
  <2>1. PICK i \in 1..Len(s) : x = s[i]
    BY <1>2, <1>3 DEF ToSet
  <2>2. CASE i # 1
    <3>1. i - 1 \in 1..Len(Tail(s)) /\ x = Tail(s)[i - 1]
      BY <2>1, <2>2, <1>1, <1>2
    <3> QED
      BY <3>1, <1>2 DEF ToSet
  <2> QED
    BY <2>1, <2>2, <1>2
<1>4. ASSUME NEW x \in ToSet(Tail(s)) PROVE x \in ToSet(s)
  <2>1. PICK i \in 1..Len(Tail(s)) : x = Tail(s)[i]
    BY <1>2, <1>4 DEF ToSet
  <2>2. i + 1 \in 1..Len(s) /\ x = s[i + 1]
    BY <2>1, <1>1, <1>2
  <2> QED
    BY <2>2, <1>2 DEF ToSet
<1>5. Head(s) \in ToSet(s)
  <2>1. 1 \in 1..Len(s)
    BY <1>2
  <2> QED
    BY <2>1, <1>2 DEF ToSet
<1> QED
  BY <1>1, <1>3, <1>4, <1>5

LEMMA ElementOfOne == \A x : ToSet(<<x>>) = {x} /\ ToSet(<<>>) = {}
BY DEF ToSet

\* What can stand on the list of steps, and where a step can lead.
Steps == {List(r) : r \in SearchRoots} \cup {Probe(e, l) : e \in Entries, l \in BOOLEAN}
           \cup {Take(d) : d \in Directories}
Roots == {layout.skill, layout.home}
EntriesOf(r) == ToSet(r.entries)
Leads(s, d) ==
  \/ s = Take(d)
  \/ \E e \in Entries : s = Probe(e, TRUE) /\ ~e.link /\ e.at = d
  \/ \E r \in SearchRoots : s = List(r) /\ \E e \in EntriesOf(r) : ~e.link /\ e.at = d
Ahead(d) == \E s \in ToSet(todo) : Leads(s, d)
Proper(s) ==
  \/ \E r \in Roots : s = List(r)
  \/ \E r \in Roots, l \in BOOLEAN : \E e \in EntriesOf(r) : s = Probe(e, l)
  \/ \E d \in Named \cup Listed : s = Take(d) /\ (edits = 0 => d \in SurelyReached)

PackType ==
  /\ layout \in Layouts
  /\ pinned \in Directories \cup {Nowhere}
  /\ holds \in [Directories -> PackNames \cup Flaws]
  /\ said \in [Directories -> SUBSET (PackNames \cup Flaws)]
  /\ edits \in Nat
  /\ phase \in {"start", "search", "end"}
  /\ todo \in Seq(Steps)
  /\ seen \subseteq Directories
  /\ packs \subseteq [name : PackNames, at : Directories]
  /\ answer \in Directories \cup {Nowhere}
  /\ phase = "start" => todo = <<>> /\ seen = {} /\ packs = {}
\* What has been said includes what is held, and nothing else without an edit.
SaidInv ==
  /\ \A d \in Directories : holds[d] \in said[d] /\ (edits = 0 => said[d] = {holds[d]})
  /\ edits = 0 /\ pinned # Nowhere => holds[pinned] = Asked
\* One PACK of one name was found in each directory taken.
FoundInv ==
  /\ \A p \in packs : p.at \in seen /\ p.name \in said[p.at]
  /\ \A d \in seen : \E p \in packs : p.at = d
  /\ \A p, q \in packs : p.name = q.name => p = q
\* Nothing in reach is forgotten, and nothing out of reach is taken.
SearchInv ==
  pinned = Nowhere =>
    /\ seen \subseteq Named \cup Listed
    /\ edits = 0 => seen \subseteq SurelyReached
    /\ phase = "search" =>
         /\ layout.sdk # SdkFails
         /\ \A r \in Roots : r.readable \/ List(r) \in ToSet(todo)
         /\ \A s \in ToSet(todo) : Proper(s)
         /\ \A d \in Named : d \in seen \/ Take(d) \in ToSet(todo)
         /\ \A d \in SurelyReached : d \in seen \/ Ahead(d)
\* A pinned PACK is the only thing there is to take.
PinnedInv ==
  pinned # Nowhere /\ phase = "search" =>
    \/ todo = <<Take(pinned)>> /\ packs = {}
    \/ todo = <<>> /\ \E p \in packs : packs = {p} /\ p.at = pinned
DiscoveryInv == PackType /\ SaidInv /\ FoundInv /\ SearchInv /\ PinnedInv /\ AnswerIsTheSet

LEMMA LayoutTypes ==
  ASSUME PackType
  PROVE  /\ layout.skill \in SearchRoots /\ layout.home \in SearchRoots
         /\ Roots \subseteq SearchRoots
         /\ layout.additional \in Seq(Directories)
         /\ layout.sdk \in Directories \cup {Nowhere, SdkFails}
         /\ \A r \in Roots : r.readable \in BOOLEAN /\ r.entries \in Seq(Entries) /\ EntriesOf(r) \subseteq Entries
         /\ Named \subseteq Directories
         /\ Listed = {e.at : e \in {f \in EntriesOf(layout.skill) \cup EntriesOf(layout.home) : ~f.link}}
         /\ Listed \subseteq Directories
         /\ SurelyReached \subseteq Directories
<1>1. /\ layout.skill \in SearchRoots /\ layout.home \in SearchRoots
      /\ layout.additional \in Seq(Directories)
      /\ layout.sdk \in Directories \cup {Nowhere, SdkFails}
  BY LayoutsAssumption DEF PackType
<1>2. ASSUME NEW r \in SearchRoots
      PROVE  r.readable \in BOOLEAN /\ r.entries \in Seq(Entries) /\ EntriesOf(r) \subseteq Entries
  <2>1. r.readable \in BOOLEAN /\ r.entries \in Seq(Entries)
    BY DEF SearchRoots
  <2>2. DOMAIN r.entries = 1..Len(r.entries) /\ \A i \in 1..Len(r.entries) : r.entries[i] \in Entries
    BY <2>1
  <2> QED
    BY <2>1, <2>2 DEF EntriesOf, ToSet
<1>3. ToSet(layout.skill.entries \o layout.home.entries) = EntriesOf(layout.skill) \cup EntriesOf(layout.home)
  BY <1>1, <1>2, ElementsOfTwo DEF EntriesOf
<1>4. Listed = {e.at : e \in {f \in EntriesOf(layout.skill) \cup EntriesOf(layout.home) : ~f.link}}
  BY <1>3 DEF Listed
<1>5. Listed \subseteq Directories
  <2>1. \A e \in EntriesOf(layout.skill) \cup EntriesOf(layout.home) : e.at \in Directories
    BY <1>1, <1>2 DEF Entries
  <2> QED
    BY <1>4, <2>1
<1>6. Named \subseteq Directories
  <2>1. DOMAIN layout.additional = 1..Len(layout.additional)
        /\ \A i \in 1..Len(layout.additional) : layout.additional[i] \in Directories
    BY <1>1
  <2> QED
    BY <2>1 DEF Named, ToSet
<1> QED
  BY <1>1, <1>2, <1>4, <1>5, <1>6 DEF Roots, SurelyReached

\* The kinds of steps cannot be confused.
LEMMA StepKinds ==
  /\ \A s \in Steps : s.do = "list" => \E r \in SearchRoots : s = List(r) /\ s.root = r
  /\ \A s \in Steps : s.do = "probe" => \E e \in Entries, l \in BOOLEAN : s = Probe(e, l) /\ s.entry = e /\ s.listed = l
  /\ \A s \in Steps : s.do = "take" => \E d \in Directories : s = Take(d) /\ s.at = d
  /\ \A r, x : List(r) = List(x) => r = x
  /\ \A e, l, f, m : Probe(e, l) = Probe(f, m) => e = f /\ l = m
  /\ \A d, e : Take(d) = Take(e) => d = e
  /\ \A r, e, l, d : List(r) # Probe(e, l) /\ List(r) # Take(d) /\ Probe(e, l) # Take(d)
<1>1. \A r, e, l, d : List(r).do = "list" /\ Probe(e, l).do = "probe" /\ Take(d).do = "take"
                      /\ List(r).root = r /\ Probe(e, l).entry = e /\ Probe(e, l).listed = l /\ Take(d).at = d
  BY DEF List, Probe, Take
<1>2. \A r, e, l, d : List(r) # Probe(e, l) /\ List(r) # Take(d) /\ Probe(e, l) # Take(d)
  <2> SUFFICES ASSUME NEW r, NEW e, NEW l, NEW d
               PROVE  List(r) # Probe(e, l) /\ List(r) # Take(d) /\ Probe(e, l) # Take(d)
    OBVIOUS
  <2>1. List(r).do # Probe(e, l).do /\ List(r).do # Take(d).do /\ Probe(e, l).do # Take(d).do
    BY <1>1
  <2> QED
    BY <2>1
<1>3. \A r, x : List(r) = List(x) => r = x
  BY <1>1
<1>4. \A e, l, f, m : Probe(e, l) = Probe(f, m) => e = f /\ l = m
  BY <1>1
<1>5. \A d, e : Take(d) = Take(e) => d = e
  BY <1>1
<1>6. \A s \in Steps : \/ \E r \in SearchRoots : s = List(r)
                       \/ \E e \in Entries, l \in BOOLEAN : s = Probe(e, l)
                       \/ \E d \in Directories : s = Take(d)
  BY DEF Steps
<1> QED
  BY <1>1, <1>2, <1>3, <1>4, <1>5, <1>6

LEMMA WhereStepsLead ==
  /\ \A x, d : Leads(Take(x), d) <=> x = d
  /\ \A e \in Entries : \A l, d : Leads(Probe(e, l), d) <=> l = TRUE /\ ~e.link /\ e.at = d
  /\ \A r \in SearchRoots : \A d : Leads(List(r), d) <=> \E e \in EntriesOf(r) : ~e.link /\ e.at = d
<1>1. ASSUME NEW x, NEW d PROVE Leads(Take(x), d) <=> x = d
  BY StepKinds DEF Leads
<1>2. ASSUME NEW e \in Entries, NEW l, NEW d PROVE Leads(Probe(e, l), d) <=> l = TRUE /\ ~e.link /\ e.at = d
  <2>1. ASSUME Leads(Probe(e, l), d) PROVE l = TRUE /\ ~e.link /\ e.at = d
    <3>a. \A x, r : Probe(e, l) # Take(x) /\ Probe(e, l) # List(r)
      BY StepKinds
    <3>1. PICK f \in Entries : Probe(e, l) = Probe(f, TRUE) /\ ~f.link /\ f.at = d
      BY <2>1, <3>a, Zenon DEF Leads
    <3>2. \A g, k, h, m : Probe(g, k) = Probe(h, m) => g = h /\ k = m
      BY StepKinds
    <3>3. e = f /\ l = TRUE
      BY <3>1, <3>2, Zenon
    <3> QED
      BY <3>1, <3>3, Zenon
  <2>2. ASSUME l = TRUE, ~e.link, e.at = d PROVE Leads(Probe(e, l), d)
    BY <2>2, Zenon DEF Leads
  <2> QED
    BY <2>1, <2>2
<1>3. ASSUME NEW r \in SearchRoots, NEW d
      PROVE  Leads(List(r), d) <=> \E e \in EntriesOf(r) : ~e.link /\ e.at = d
  <2>1. Leads(List(r), d) <=> \E q \in SearchRoots : List(r) = List(q) /\ \E e \in EntriesOf(q) : ~e.link /\ e.at = d
    BY StepKinds DEF Leads
  <2>2. \A q : List(r) = List(q) <=> r = q
    BY StepKinds
  <2> QED
    BY <2>1, <2>2
<1> QED
  BY <1>1, <1>2, <1>3

LEMMA ProperSteps ==
  /\ \A d : Proper(Take(d)) <=> d \in Named \cup Listed /\ (edits = 0 => d \in SurelyReached)
  /\ \A e, l : Proper(Probe(e, l)) => \E r \in Roots : e \in EntriesOf(r)
  /\ \A l \in BOOLEAN : \A e : (\E r \in Roots : e \in EntriesOf(r)) => Proper(Probe(e, l))
  /\ \A r : Proper(List(r)) <=> r \in Roots
<1>1. \A d : Proper(Take(d)) <=> d \in Named \cup Listed /\ (edits = 0 => d \in SurelyReached)
  BY StepKinds DEF Proper
<1>2. ASSUME NEW e, NEW l, Proper(Probe(e, l)) PROVE \E r \in Roots : e \in EntriesOf(r)
  <2>1. PICK r \in Roots : \E m \in BOOLEAN : \E f \in EntriesOf(r) : Probe(e, l) = Probe(f, m)
    BY <1>2, StepKinds DEF Proper
  <2> QED
    BY <2>1, StepKinds
<1>3. \A l \in BOOLEAN : \A e : (\E r \in Roots : e \in EntriesOf(r)) => Proper(Probe(e, l))
  BY DEF Proper
<1>4. \A r : Proper(List(r)) <=> r \in Roots
  BY StepKinds DEF Proper
<1> QED
  BY <1>1, <1>2, <1>3, <1>4

\* What stays the same in a step of the command.
Placed == UNCHANGED <<layout, pinned, holds, said, edits>>
LEMMA PlacedSame ==
  ASSUME Placed
  PROVE  /\ Roots' = Roots /\ Named' = Named /\ Listed' = Listed /\ SurelyReached' = SurelyReached
         /\ Discoverable' = Discoverable /\ (\A ds : Clash(ds)' = Clash(ds))
         /\ \A s : Proper(s)' = Proper(s)
BY DEF Placed, Roots, Named, Listed, SurelyReached, Discoverable, Clash, Proper

LEMMA StartKept ==
  ASSUME DiscoveryInv, Start
  PROVE  PackType' /\ SaidInv' /\ FoundInv' /\ SearchInv' /\ PinnedInv'
<1> USE DEF DiscoveryInv
<1>1. Placed /\ UNCHANGED <<seen, packs>> /\ phase = "start" /\ seen = {} /\ packs = {} /\ todo = <<>>
  BY DEF Start, Fail, Placed, PackType
<1>2. SaidInv' /\ FoundInv'
  BY <1>1 DEF Placed, SaidInv, FoundInv
<1>3. CASE Fail
  <2>1. phase' = "end" /\ answer' = Nowhere /\ todo' = todo
    BY <1>3 DEF Fail, StandsFor
  <2> QED
    BY <1>1, <1>2, <2>1, PlacedSame DEF Placed, PackType, SearchInv, PinnedInv
<1>4. CASE ~Fail /\ pinned # Nowhere
  <2>1. phase' = "search" /\ todo' = <<Take(pinned)>> /\ answer' = answer
    BY <1>4 DEF Start
  <2>2. Take(pinned) \in Steps
    BY <1>4 DEF Steps, PackType
  <2>3. todo' \in Seq(Steps)
    BY <2>1, <2>2
  <2> QED
    BY <1>1, <1>2, <1>4, <2>1, <2>3 DEF Placed, PackType, SearchInv, PinnedInv
<1>5. CASE ~Fail /\ pinned = Nowhere
  <2> DEFINE lists == <<List(layout.skill), List(layout.home)>>
             more == [i \in DOMAIN layout.additional |-> Take(layout.additional[i])]
             last == IF layout.sdk = Nowhere THEN <<>> ELSE <<Take(layout.sdk)>>
  <2>1. phase' = "search" /\ todo' = lists \o more \o last /\ answer' = answer /\ layout.sdk # SdkFails
    BY <1>5 DEF Start
  <2>2. lists \in Seq(Steps) /\ ToSet(lists) = {List(layout.skill), List(layout.home)}
    <3>1. List(layout.skill) \in Steps /\ List(layout.home) \in Steps
      BY LayoutTypes DEF Steps
    <3>2. ToSet(lists) = {List(layout.skill), List(layout.home)}
      BY DEF ToSet
    <3> QED
      BY <3>1, <3>2
  <2>3. more \in Seq(Steps) /\ ToSet(more) = {Take(d) : d \in ToSet(layout.additional)}
    <3>1. /\ DOMAIN layout.additional = 1..Len(layout.additional) /\ Len(layout.additional) \in Nat
          /\ \A i \in 1..Len(layout.additional) : layout.additional[i] \in Directories
      BY LayoutTypes
    <3>2. \A i \in 1..Len(layout.additional) : Take(layout.additional[i]) \in Steps
      BY <3>1 DEF Steps
    <3>3. more \in [1..Len(layout.additional) -> Steps]
      BY <3>1, <3>2
    <3>4. more \in Seq(Steps)
      BY <3>1, <3>3
    <3> QED
      BY <3>1, <3>4 DEF ToSet
  <2>4. last \in Seq(Steps) /\ ToSet(last) = {Take(d) : d \in {layout.sdk} \cap Directories}
    <3>1. CASE layout.sdk = Nowhere
      <4>1. last = <<>> /\ {layout.sdk} \cap Directories = {}
        BY <3>1, NamesAssumption
      <4> QED
        BY <4>1, ElementOfOne
    <3>2. CASE layout.sdk # Nowhere
      <4>1. last = <<Take(layout.sdk)>> /\ layout.sdk \in Directories
        BY <3>2, <2>1, LayoutTypes
      <4>2. Take(layout.sdk) \in Steps
        BY <4>1 DEF Steps
      <4>3. {Take(d) : d \in {layout.sdk} \cap Directories} = {Take(layout.sdk)}
        BY <4>1
      <4> QED
        BY <4>1, <4>2, <4>3, ElementOfOne
    <3> QED
      BY <3>1, <3>2
  <2> HIDE DEF lists, more, last
  <2>5. /\ todo' \in Seq(Steps)
        /\ ToSet(todo') = {List(layout.skill), List(layout.home)} \cup {Take(d) : d \in Named}
    <3>1. lists \o more \in Seq(Steps) /\ ToSet(lists \o more) = ToSet(lists) \cup ToSet(more)
      BY <2>2, <2>3, ElementsOfTwo
    <3> DEFINE both == lists \o more
    <3> HIDE DEF both
    <3>2. both \in Seq(Steps)
      BY <3>1 DEF both
    <3>3. ToSet(both \o last) = ToSet(both) \cup ToSet(last)
      BY <3>2, <2>4, ElementsOfTwo
    <3>4. both \o last \in Seq(Steps)
      BY <3>2, <2>4, ConcatProperties
    <3>5. todo' = both \o last
      BY <2>1 DEF both
    <3>6. ToSet(todo') = ToSet(lists) \cup ToSet(more) \cup ToSet(last)
      BY <3>1, <3>3, <3>5 DEF both
    <3> QED
      BY <2>2, <2>3, <2>4, <3>4, <3>5, <3>6 DEF Named
  <2>6. \A s \in ToSet(todo') : Proper(s)
    <3>1. ASSUME NEW d \in Named PROVE Proper(Take(d))
      <4>1. d \in SurelyReached
        BY DEF SurelyReached
      <4> QED
        BY <4>1 DEF Proper
    <3> QED
      BY <2>5, <3>1 DEF Proper, Roots
  <2>7. ASSUME NEW d \in SurelyReached PROVE \E s \in ToSet(todo') : Leads(s, d)
    <3>1. CASE d \in Named
      BY <3>1, <2>5 DEF Leads
    <3>2. CASE d \in Listed
      <4>1. PICK r \in Roots : \E e \in EntriesOf(r) : ~e.link /\ e.at = d
        BY <3>2, LayoutTypes DEF Roots
      <4>2. List(r) \in ToSet(todo') /\ r \in SearchRoots
        BY <4>1, <2>5, LayoutTypes DEF Roots
      <4> QED
        BY <4>1, <4>2 DEF Leads
    <3> QED
      BY <3>1, <3>2 DEF SurelyReached
  <2>8. SearchInv'
    BY <1>1, <1>5, <2>1, <2>5, <2>6, <2>7, PlacedSame DEF Placed, SearchInv, Ahead, Roots
  <2> QED
    BY <1>1, <1>2, <1>5, <2>1, <2>5, <2>8 DEF Placed, PackType, PinnedInv
<1> QED
  BY <1>3, <1>4, <1>5

\* Under a pinned name there is nothing to list or to probe.
LEMMA OnlyTakesWhenPinned ==
  ASSUME DiscoveryInv, phase = "search", todo # <<>>, Head(todo).do # "take"
  PROVE  pinned = Nowhere
<1> SUFFICES ASSUME pinned # Nowhere PROVE FALSE
  OBVIOUS
<1>1. todo = <<Take(pinned)>>
  BY DEF DiscoveryInv, PinnedInv
<1> QED
  BY <1>1 DEF Take

LEMMA ListRootKept ==
  ASSUME DiscoveryInv, ListRoot
  PROVE  PackType' /\ SaidInv' /\ FoundInv' /\ SearchInv' /\ PinnedInv'
<1> USE DEF DiscoveryInv
<1>1. Placed /\ UNCHANGED <<seen, packs>> /\ phase = "search" /\ todo # <<>> /\ pinned = Nowhere
  BY OnlyTakesWhenPinned DEF ListRoot, Fail, Placed
<1>2. SaidInv' /\ FoundInv'
  BY <1>1 DEF Placed, SaidInv, FoundInv
<1>3. CASE Fail
  <2>1. phase' = "end" /\ answer' = Nowhere /\ todo' = todo
    BY <1>3 DEF Fail, StandsFor
  <2> QED
    BY <1>1, <1>2, <2>1, PlacedSame DEF Placed, PackType, SearchInv, PinnedInv
<1>4. CASE ~Fail
  <2>1. /\ Head(todo).root.readable /\ todo' = Collected(Head(todo).root) \o Tail(todo)
        /\ UNCHANGED <<phase, answer>> /\ Head(todo).do = "list"
    BY <1>4 DEF ListRoot
  <2>2. ToSet(todo) = {Head(todo)} \cup ToSet(Tail(todo)) /\ Head(todo) \in Steps /\ Tail(todo) \in Seq(Steps)
    BY <1>1, ElementsOfTail DEF PackType
  <2>3. PICK root \in SearchRoots : Head(todo) = List(root) /\ Head(todo).root = root
    BY <2>1, <2>2, StepKinds
  <2>4. root \in Roots
    BY <1>1, <2>2, <2>3, StepKinds DEF SearchInv, Proper
  <2> DEFINE new == Collected(root)
  <2>5. /\ new \in Seq(Steps)
        /\ ToSet(new) = {Probe(e, holds[e.at] # "gone") : e \in EntriesOf(root)}
    <3>1. /\ DOMAIN root.entries = 1..Len(root.entries) /\ Len(root.entries) \in Nat
          /\ \A i \in 1..Len(root.entries) : root.entries[i] \in Entries
      BY <2>4, LayoutTypes
    <3>2. \A i \in 1..Len(root.entries) :
            Probe(root.entries[i], holds[root.entries[i].at] # "gone") \in Steps
      <4> SUFFICES ASSUME NEW i \in 1..Len(root.entries)
                   PROVE  Probe(root.entries[i], holds[root.entries[i].at] # "gone") \in Steps
        OBVIOUS
      <4>1. \A l \in BOOLEAN : Probe(root.entries[i], l) \in Steps
        BY <3>1 DEF Steps
      <4>2. (holds[root.entries[i].at] # "gone") \in BOOLEAN
        OBVIOUS
      <4> QED
        BY <4>1, <4>2
    <3>3. new \in [1..Len(root.entries) -> Steps]
      BY <3>1, <3>2 DEF Collected
    <3>4. new \in Seq(Steps) /\ DOMAIN new = 1..Len(root.entries)
      BY <3>1, <3>3
    <3>5. \A i \in 1..Len(root.entries) : new[i] = Probe(root.entries[i], holds[root.entries[i].at] # "gone")
      BY <3>1 DEF Collected
    <3> HIDE DEF new
    <3> QED
      BY <3>1, <3>4, <3>5 DEF ToSet, EntriesOf
  <2> HIDE DEF new
  <2>6. todo' \in Seq(Steps) /\ ToSet(todo') = ToSet(new) \cup ToSet(Tail(todo))
    <3>1. todo' = new \o Tail(todo)
      BY <2>1, <2>3 DEF new
    <3>a. new \in Seq(Steps) /\ Tail(todo) \in Seq(Steps)
      BY <2>2, <2>5
    <3>2. ToSet(new \o Tail(todo)) = ToSet(new) \cup ToSet(Tail(todo))
      BY <3>a, ElementsOfTwo
    <3>3. new \o Tail(todo) \in Seq(Steps)
      BY <2>2, <2>5, ConcatProperties
    <3> QED
      BY <3>1, <3>2, <3>3
  <2>7. ASSUME NEW r \in Roots PROVE r.readable \/ List(r) \in ToSet(todo')
    <3>1. r = root \/ List(r) # Head(todo)
      BY <2>3, StepKinds
    <3> QED
      BY <3>1, <2>1, <2>2, <2>3, <2>6, <1>1 DEF SearchInv
  <2>8. ASSUME NEW s \in ToSet(todo') PROVE Proper(s)
    <3>1. CASE s \in ToSet(new)
      BY <3>1, <2>4, <2>5 DEF Proper
    <3>2. CASE s \in ToSet(Tail(todo))
      BY <3>2, <2>2, <1>1 DEF SearchInv
    <3> QED
      BY <3>1, <3>2, <2>6
  <2>9. ASSUME NEW d \in Named PROVE d \in seen \/ Take(d) \in ToSet(todo')
    BY <1>1, <2>2, <2>3, <2>6, StepKinds DEF SearchInv
  <2>10. ASSUME NEW d \in SurelyReached PROVE d \in seen \/ \E s \in ToSet(todo') : Leads(s, d)
    <3>1. CASE d \in Named
      BY <3>1, <2>9 DEF Leads
    <3>2. CASE d \in seen
      BY <3>2
    <3>3. CASE d \notin Named /\ d \notin seen
      <4>1. PICK s \in ToSet(todo) : Leads(s, d)
        BY <3>3, <1>1 DEF SearchInv, Ahead
      <4>2. CASE s = List(root)
        <5>1. PICK e \in EntriesOf(root) : ~e.link /\ e.at = d
          BY <4>1, <4>2, WhereStepsLead
        <5>2. d \in Directories /\ holds[d] # "gone"
          <6>1. d \in Directories /\ said[d] \cap {"gone", "empty"} = {}
            BY <3>3, LayoutTypes DEF SurelyReached
          <6> QED
            BY <6>1 DEF SaidInv
        <5>3. Probe(e, TRUE) \in ToSet(new) /\ e \in Entries
          <6>1. (holds[e.at] # "gone") = TRUE
            BY <5>1, <5>2
          <6>2. Probe(e, holds[e.at] # "gone") = Probe(e, TRUE)
            BY <6>1
          <6> QED
            BY <5>1, <6>2, <2>4, <2>5, LayoutTypes
        <5> QED
          BY <5>1, <5>3, <2>6 DEF Leads
      <4>3. CASE s # List(root)
        BY <4>1, <4>3, <2>2, <2>3, <2>6
      <4> QED
        BY <4>2, <4>3
    <3> QED
      BY <3>1, <3>2, <3>3
  <2>11. SearchInv'
    BY <1>1, <2>1, <2>7, <2>8, <2>9, <2>10, PlacedSame DEF Placed, SearchInv, Ahead
  <2> QED
    BY <1>1, <1>2, <2>1, <2>6, <2>11 DEF Placed, PackType, PinnedInv
<1> QED
  BY <1>3, <1>4

LEMMA ProbeEntryKept ==
  ASSUME DiscoveryInv, ProbeEntry
  PROVE  PackType' /\ SaidInv' /\ FoundInv' /\ SearchInv' /\ PinnedInv'
<1> USE DEF DiscoveryInv
<1>1. /\ Placed /\ UNCHANGED <<phase, seen, packs, answer>> /\ phase = "search" /\ todo # <<>>
      /\ pinned = Nowhere /\ Head(todo).do = "probe"
  BY OnlyTakesWhenPinned DEF ProbeEntry, Placed
<1>2. SaidInv' /\ FoundInv'
  BY <1>1 DEF Placed, SaidInv, FoundInv
<1>3. ToSet(todo) = {Head(todo)} \cup ToSet(Tail(todo)) /\ Head(todo) \in Steps /\ Tail(todo) \in Seq(Steps)
  BY <1>1, ElementsOfTail DEF PackType
<1>4. PICK e \in Entries, l \in BOOLEAN : Head(todo) = Probe(e, l) /\ Head(todo).entry = e /\ Head(todo).listed = l
  BY <1>1, <1>3, StepKinds
<1>5. PICK r \in Roots : e \in EntriesOf(r)
  <2>1. Proper(Head(todo))
    BY <1>1, <1>3 DEF SearchInv
  <2> QED
    BY <2>1, <1>4, ProperSteps
<1>6. e.at \in Directories /\ e.link \in BOOLEAN
  BY DEF Entries
<1> DEFINE passed == ~l \/ Passes(e)
<1>7. todo' = IF passed THEN Tail(todo) ELSE <<Take(e.at)>> \o Tail(todo)
  BY <1>4 DEF ProbeEntry
<1>8. /\ todo' \in Seq(Steps)
      /\ ToSet(todo') = ToSet(Tail(todo)) \cup (IF passed THEN {} ELSE {Take(e.at)})
  <2>1. <<Take(e.at)>> \in Seq(Steps)
    BY <1>6 DEF Steps
  <2>2. ToSet(<<Take(e.at)>> \o Tail(todo)) = {Take(e.at)} \cup ToSet(Tail(todo))
    <3>a. Tail(todo) \in Seq(Steps)
      BY <1>3
    <3>1. ToSet(<<Take(e.at)>> \o Tail(todo)) = ToSet(<<Take(e.at)>>) \cup ToSet(Tail(todo))
      BY <2>1, <3>a, ElementsOfTwo
    <3> QED
      BY <3>1, ElementOfOne
  <2>3. <<Take(e.at)>> \o Tail(todo) \in Seq(Steps)
    BY <2>1, <1>3
  <2> HIDE DEF passed
  <2> QED
    BY <2>2, <2>3, <1>3, <1>7
<1>9. ~passed => e.at \in Listed /\ holds[e.at] \notin {"gone", "empty"}
  BY <1>5, LayoutTypes DEF Passes, Roots
<1>10. ASSUME NEW s \in ToSet(todo') PROVE Proper(s)
  <2>1. CASE s \in ToSet(Tail(todo))
    BY <2>1, <1>1, <1>3 DEF SearchInv
  <2>2. CASE s = Take(e.at) /\ ~passed
    <3>1. edits = 0 => e.at \in SurelyReached
      <4>1. edits = 0 => said[e.at] = {holds[e.at]}
        BY <1>6 DEF SaidInv
      <4> QED
        BY <2>2, <4>1, <1>9 DEF SurelyReached
    <3> QED
      BY <2>2, <3>1, <1>9 DEF Proper
  <2> QED
    BY <2>1, <2>2, <1>8
<1>11. ASSUME NEW d \in SurelyReached PROVE d \in seen \/ \E s \in ToSet(todo') : Leads(s, d)
  <2>1. CASE d \in Named
    <3>1. d \in seen \/ Take(d) \in ToSet(Tail(todo))
      BY <2>1, <1>1, <1>3, <1>4, StepKinds DEF SearchInv
    <3> QED
      BY <3>1, <1>8, WhereStepsLead
  <2>2. CASE d \in seen
    BY <2>2
  <2>3. CASE d \notin Named /\ d \notin seen
    <3>1. PICK s \in ToSet(todo) : Leads(s, d)
      BY <2>3, <1>1 DEF SearchInv, Ahead
    <3>2. CASE s = Head(todo)
      <4>1. l = TRUE /\ ~e.link /\ e.at = d
        BY <3>1, <3>2, <1>4, WhereStepsLead
      <4>2. holds[d] \notin {"gone", "empty"}
        <5>1. d \in Directories /\ said[d] \cap {"gone", "empty"} = {}
          BY <2>3, LayoutTypes DEF SurelyReached
        <5> QED
          BY <5>1 DEF SaidInv
      <4>3. ~passed
        BY <4>1, <4>2 DEF Passes
      <4> QED
        BY <4>1, <4>3, <1>8 DEF Leads
    <3>3. CASE s # Head(todo)
      BY <3>1, <3>3, <1>3, <1>8
    <3> QED
      BY <3>2, <3>3
  <2> QED
    BY <2>1, <2>2, <2>3
<1> HIDE DEF passed
<1>12. /\ \A q \in Roots : q.readable \/ List(q) \in ToSet(todo')
       /\ \A d \in Named : d \in seen \/ Take(d) \in ToSet(todo')
  BY <1>1, <1>3, <1>4, <1>8, StepKinds DEF SearchInv
<1>13. SearchInv'
  BY <1>1, <1>10, <1>11, <1>12, PlacedSame DEF Placed, SearchInv, Ahead
<1> QED
  BY <1>1, <1>2, <1>8, <1>13 DEF Placed, PackType, PinnedInv

LEMMA TakeDirectoryKept ==
  ASSUME DiscoveryInv, TakeDirectory
  PROVE  PackType' /\ SaidInv' /\ FoundInv' /\ SearchInv' /\ PinnedInv'
<1> USE DEF DiscoveryInv
<1>1. Placed /\ phase = "search" /\ todo # <<>> /\ Head(todo).do = "take"
  BY DEF TakeDirectory, Placed
<1>2. ToSet(todo) = {Head(todo)} \cup ToSet(Tail(todo)) /\ Head(todo) \in Steps /\ Tail(todo) \in Seq(Steps)
  BY <1>1, ElementsOfTail DEF PackType
<1>3. PICK d \in Directories : Head(todo) = Take(d) /\ Head(todo).at = d
  BY <1>1, <1>2, StepKinds
<1>4. \/ Fail
      \/ d \in seen /\ todo' = Tail(todo) /\ UNCHANGED <<phase, seen, packs, answer>>
      \/ /\ d \notin seen /\ ~Refused(d) /\ seen' = seen \cup {d} /\ packs' = Added(d)
         /\ todo' = Tail(todo) /\ UNCHANGED <<phase, answer>>
  BY <1>3 DEF TakeDirectory
<1>5. SaidInv'
  BY <1>1 DEF Placed, SaidInv
<1>6. CASE Fail
  <2>1. phase' = "end" /\ answer' = Nowhere /\ UNCHANGED <<todo, seen, packs>>
    BY <1>6 DEF Fail, StandsFor
  <2> QED
    BY <1>1, <1>5, <2>1, PlacedSame DEF Placed, PackType, FoundInv, SearchInv, PinnedInv
\* The step ahead that led to d is done: d has been taken.
<1>7. ASSUME todo' = Tail(todo), phase' = phase, seen' = seen \cup {d}
      PROVE  SearchInv'
  <2> SUFFICES ASSUME pinned = Nowhere PROVE SearchInv'
    BY <1>1 DEF Placed, SearchInv
  <2>1. Proper(Take(d))
    BY <1>1, <1>2, <1>3 DEF SearchInv
  <2>2. d \in Named \cup Listed /\ (edits = 0 => d \in SurelyReached)
    BY <2>1, ProperSteps
  <2>3. \A r \in Roots : r.readable \/ List(r) \in ToSet(todo')
    BY <1>1, <1>2, <1>3, <1>7, StepKinds DEF SearchInv
  <2>4. \A s \in ToSet(todo') : Proper(s)
    BY <1>1, <1>2, <1>7 DEF SearchInv
  <2>5. \A x \in Named : x \in seen' \/ Take(x) \in ToSet(todo')
    BY <1>1, <1>2, <1>3, <1>7, StepKinds DEF SearchInv
  <2>6. ASSUME NEW x \in SurelyReached, x \notin seen' PROVE \E s \in ToSet(todo') : Leads(s, x)
    <3>1. PICK s \in ToSet(todo) : Leads(s, x)
      BY <2>6, <1>1, <1>7 DEF SearchInv, Ahead
    <3>2. ~Leads(Take(d), x)
      BY <2>6, <1>7, WhereStepsLead
    <3> QED
      BY <3>1, <3>2, <1>2, <1>3, <1>7
  <2> QED
    BY <1>1, <1>7, <2>2, <2>3, <2>4, <2>5, <2>6, PlacedSame DEF Placed, SearchInv, Ahead
<1>8. CASE d \in seen /\ todo' = Tail(todo) /\ UNCHANGED <<phase, seen, packs, answer>>
  <2>1. seen' = seen \cup {d}
    BY <1>8
  <2>2. PackType' /\ FoundInv'
    BY <1>1, <1>2, <1>8 DEF Placed, PackType, FoundInv
  <2>3. PinnedInv'
    <3> SUFFICES ASSUME pinned # Nowhere PROVE FALSE
      BY <1>1, <1>8 DEF Placed, PinnedInv
    <3>1. packs = {}
      BY <1>1 DEF PinnedInv
    <3> QED
      BY <3>1, <1>8 DEF FoundInv
  <2> QED
    BY <1>5, <1>7, <1>8, <2>1, <2>2, <2>3
<1>9. CASE /\ d \notin seen /\ ~Refused(d) /\ seen' = seen \cup {d} /\ packs' = Added(d)
           /\ todo' = Tail(todo) /\ UNCHANGED <<phase, answer>>
  <2>1. holds[d] \in PackNames /\ \A p \in packs : p.name # holds[d]
    BY <1>9 DEF Refused, Declared
  <2>2. packs' = packs \cup {[name |-> holds[d], at |-> d]}
    BY <1>9 DEF Added
  <2>3. PackType'
    BY <1>1, <1>2, <1>9, <2>1, <2>2 DEF Placed, PackType
  <2>4. FoundInv'
    <3>1. \A p \in packs' : p.at \in seen' /\ p.name \in said[p.at]
      <4> SUFFICES ASSUME NEW p \in packs' PROVE p.at \in seen' /\ p.name \in said[p.at]
        OBVIOUS
      <4>1. CASE p \in packs
        BY <4>1, <1>9 DEF FoundInv
      <4>2. CASE p = [name |-> holds[d], at |-> d]
        <5>1. p.name = holds[d] /\ p.at = d /\ holds[d] \in said[d]
          BY <4>2 DEF SaidInv
        <5> QED
          BY <5>1, <1>9
      <4> QED
        BY <4>1, <4>2, <2>2
    <3>2. \A x \in seen' : \E p \in packs' : p.at = x
      <4>1. [name |-> holds[d], at |-> d].at = d /\ [name |-> holds[d], at |-> d] \in packs'
        BY <2>2
      <4> QED
        BY <4>1, <1>9, <2>2 DEF FoundInv
    <3>3. \A p, q \in packs' : p.name = q.name => p = q
      <4>1. [name |-> holds[d], at |-> d].name = holds[d]
        OBVIOUS
      <4> QED
        BY <4>1, <2>1, <2>2 DEF FoundInv
    <3> QED
      BY <3>1, <3>2, <3>3, <1>1 DEF FoundInv, Placed
  <2>5. PinnedInv'
    <3> SUFFICES ASSUME pinned # Nowhere PROVE PinnedInv'
      BY <1>1 DEF Placed, PinnedInv
    <3>1. todo = <<Take(pinned)>> /\ packs = {}
      BY <1>1 DEF PinnedInv
    <3>2. todo' = <<>> /\ Take(d) = Take(pinned)
      BY <3>1, <1>3, <1>9
    <3>3. d = pinned
      BY <3>2, StepKinds
    <3>4. packs' = {[name |-> holds[d], at |-> d]}
      BY <3>1, <2>2
    <3> QED
      BY <3>2, <3>3, <3>4, <1>1 DEF PinnedInv, Placed
  <2> QED
    BY <1>5, <1>7, <1>9, <2>3, <2>4, <2>5
<1> QED
  BY <1>4, <1>6, <1>8, <1>9

LEMMA LookUpKept ==
  ASSUME DiscoveryInv, LookUp
  PROVE  PackType' /\ SaidInv' /\ FoundInv' /\ SearchInv' /\ PinnedInv'
<1>1. /\ Placed /\ UNCHANGED <<todo, seen, packs>> /\ phase' = "end"
      /\ answer' \in Directories \cup {Nowhere}
  BY DEF LookUp, StandsFor, Placed, DiscoveryInv, PackType
<1> QED
  BY <1>1, PlacedSame DEF DiscoveryInv, Placed, PackType, SaidInv, FoundInv, SearchInv, PinnedInv

\* An edit only adds to what was said, and then less is sure to be reached.
LEMMA EditKept ==
  ASSUME DiscoveryInv, Edit
  PROVE  PackType' /\ SaidInv' /\ FoundInv' /\ SearchInv' /\ PinnedInv'
<1> USE DEF DiscoveryInv
<1>1. PICK d \in Directories, state \in PackNames \cup Flaws :
        holds' = [holds EXCEPT ![d] = state] /\ said' = [said EXCEPT ![d] = @ \cup {state}]
  BY DEF Edit
<1>2. /\ edits' = edits + 1 /\ edits' # 0 /\ edits' \in Nat
      /\ UNCHANGED <<layout, pinned, phase, todo, seen, packs, answer>>
  BY DEF Edit, PackType
<1>3. PackType'
  BY <1>1, <1>2 DEF PackType
<1>4. \A x \in Directories : said[x] \subseteq said'[x] /\ holds'[x] \in said'[x]
  BY <1>1 DEF PackType, SaidInv
<1>5. SaidInv' /\ FoundInv'
  <2>1. \A p \in packs : p.at \in Directories
    BY DEF PackType
  <2> QED
    BY <1>2, <1>4, <2>1 DEF SaidInv, FoundInv
<1>6. Roots' = Roots /\ Named' = Named /\ Listed' = Listed
  BY <1>2 DEF Roots, Named, Listed
<1>7. SurelyReached' \subseteq SurelyReached
  <2>1. \A x \in Listed : x \in Directories
    BY LayoutTypes
  <2> QED
    BY <1>4, <1>6, <2>1 DEF SurelyReached
<1>8. \A s : Proper(s) => Proper(s)'
  BY <1>2, <1>6 DEF Proper
<1>9. SearchInv'
  BY <1>2, <1>6, <1>7, <1>8 DEF SearchInv, Ahead
<1> QED
  BY <1>2, <1>3, <1>5, <1>9 DEF PinnedInv

\* The end of the search: with nothing left to do, everything in reach is taken.
LEMMA AllTaken ==
  ASSUME DiscoveryInv, pinned = Nowhere, phase = "search", todo = <<>>
  PROVE  Discoverable /\ SurelyReached \subseteq seen
<1>1. ToSet(todo) = {}
  BY ElementOfOne
<1>2. SurelyReached \subseteq seen
  BY <1>1 DEF DiscoveryInv, SearchInv, Ahead
<1>3. \A r \in Roots : r.readable
  BY <1>1 DEF DiscoveryInv, SearchInv
<1>4. layout.skill.readable /\ layout.home.readable /\ layout.sdk # SdkFails
  BY <1>3 DEF DiscoveryInv, SearchInv, Roots
<1> QED
  BY <1>2, <1>4 DEF Discoverable

\* Two directories taken were never two PACKs of one name and nothing else.
LEMMA TakenDiffer ==
  ASSUME DiscoveryInv
  PROVE  ~Clash(seen) /\ \A d \in seen : said[d] \cap PackNames # {}
<1> USE DEF DiscoveryInv
<1>1. ASSUME NEW d \in seen, NEW e \in seen, NEW n, d # e, said[d] = {n}, said[e] = {n} PROVE FALSE
  <2>1. PICK p \in packs : p.at = d
    BY DEF FoundInv
  <2>2. PICK q \in packs : q.at = e
    BY DEF FoundInv
  <2>3. p.name = n /\ q.name = n
    BY <1>1, <2>1, <2>2 DEF FoundInv
  <2> QED
    BY <1>1, <2>1, <2>2, <2>3 DEF FoundInv
<1>2. ASSUME NEW d \in seen PROVE said[d] \cap PackNames # {}
  <2>1. PICK p \in packs : p.at = d
    BY DEF FoundInv
  <2>2. p.name \in said[d] /\ p.name \in PackNames
    BY <2>1 DEF FoundInv, PackType
  <2> QED
    BY <2>2
<1> QED
  BY <1>1, <1>2 DEF Clash

\* A search that fails had a reason, if nothing was edited.
NoReason ==
  /\ Discoverable /\ ~Clash(SurelyReached)
  /\ \A d \in SurelyReached : holds[d] \in PackNames
  /\ \E d \in SurelyReached : holds[d] = Asked
LEMMA FailedForAReason ==
  ASSUME DiscoveryInv, pinned = Nowhere, edits = 0, PackNext, phase # "end", phase' = "end", answer' = Nowhere
  PROVE  ~NoReason
<1> USE DEF DiscoveryInv
<1>1. CASE Start
  <2>1. layout.sdk = SdkFails
    BY <1>1 DEF Start
  <2> QED
    BY <2>1 DEF NoReason, Discoverable
<1>2. CASE ListRoot
  <2>1. phase = "search" /\ todo # <<>> /\ Head(todo).do = "list" /\ ~Head(todo).root.readable
    BY <1>2 DEF ListRoot
  <2>2. ToSet(todo) = {Head(todo)} \cup ToSet(Tail(todo)) /\ Head(todo) \in Steps
    BY <2>1, ElementsOfTail DEF PackType
  <2>3. PICK root \in SearchRoots : Head(todo) = List(root) /\ Head(todo).root = root
    BY <2>1, <2>2, StepKinds
  <2>4. Proper(List(root))
    BY <2>1, <2>2, <2>3 DEF SearchInv
  <2>5. root \in Roots /\ ~root.readable
    BY <2>1, <2>3, <2>4, ProperSteps
  <2> QED
    BY <2>5 DEF NoReason, Discoverable, Roots
<1>3. CASE TakeDirectory
  <2>1. phase = "search" /\ todo # <<>> /\ Head(todo).do = "take"
    BY <1>3 DEF TakeDirectory
  <2>2. ToSet(todo) = {Head(todo)} \cup ToSet(Tail(todo)) /\ Head(todo) \in Steps
    BY <2>1, ElementsOfTail DEF PackType
  <2>3. PICK d \in Directories : Head(todo) = Take(d) /\ Head(todo).at = d
    BY <2>1, <2>2, StepKinds
  <2>4. holds[d] = "gone" \/ (d \notin seen /\ Refused(d))
    BY <1>3, <2>3 DEF TakeDirectory
  <2>5. Proper(Take(d))
    BY <2>1, <2>2, <2>3 DEF SearchInv
  <2>6. d \in SurelyReached
    BY <2>5, ProperSteps
  <2>7. CASE holds[d] \notin PackNames
    BY <2>6, <2>7 DEF NoReason
  <2>8. CASE holds[d] \in PackNames
    <3>1. d \notin seen /\ holds[d] \in Declared
      BY <2>4, <2>8, NamesAssumption DEF Refused, Flaws
    <3>2. PICK p \in packs : p.name = holds[d]
      BY <3>1 DEF Declared
    <3>3. p.at \in seen /\ p.at \in Directories /\ p.name \in said[p.at]
      BY <3>2 DEF FoundInv, PackType
    <3>4. said[d] = {holds[d]} /\ said[p.at] = {holds[d]}
      BY <3>2, <3>3 DEF SaidInv
    <3>5. p.at \in SurelyReached /\ p.at # d
      BY <3>1, <3>3 DEF SearchInv
    <3>6. Clash(SurelyReached)
      BY <2>6, <2>8, <3>4, <3>5 DEF Clash
    <3> QED
      BY <3>6 DEF NoReason
  <2> QED
    BY <2>7, <2>8
<1>4. CASE LookUp
  <2>1. phase = "search" /\ todo = <<>>
    BY <1>4 DEF LookUp
  <2>2. Asked \notin Declared
    <3>1. \A p \in packs : p.at # Nowhere
      BY NamesAssumption DEF PackType
    <3> QED
      BY <1>4, <3>1 DEF LookUp, StandsFor
  <2>3. SurelyReached \subseteq seen
    BY <2>1, AllTaken
  <2>4. ASSUME NEW d \in SurelyReached PROVE holds[d] # Asked
    <3>1. PICK p \in packs : p.at = d
      BY <2>3 DEF FoundInv
    <3>2. d \in Directories /\ p.name \in said[d]
      BY <3>1 DEF FoundInv, PackType
    <3>3. p.name = holds[d]
      BY <3>2 DEF SaidInv
    <3> QED
      BY <2>2, <3>1, <3>3 DEF Declared
  <2> QED
    BY <2>4 DEF NoReason
<1>5. CASE ProbeEntry
  BY <1>5 DEF ProbeEntry
<1>6. CASE Edit
  BY <1>6 DEF Edit
<1> QED
  BY <1>1, <1>2, <1>3, <1>4, <1>5, <1>6 DEF PackNext

LEMMA AnswerKept ==
  ASSUME DiscoveryInv, PackNext, phase' = "end"
  PROVE  AnswerIsTheSet'
<1> USE DEF DiscoveryInv
<1>1. /\ phase # "end" /\ Placed
      /\ \/ answer' = Nowhere
         \/ /\ phase = "search" /\ todo = <<>>
            /\ \E p \in packs : p.name = Asked /\ answer' = p.at
  <2>1. ~Edit
    BY DEF Edit
  <2> QED
    BY <2>1 DEF PackNext, Start, ListRoot, ProbeEntry, TakeDirectory, LookUp, Fail, StandsFor, Placed, PackType
<1>2. /\ AnswerIsTheSet' <=>
           IF pinned = Nowhere
           THEN /\ answer' # Nowhere =>
                     /\ Discoverable
                     /\ answer' \in Named \cup Listed /\ Asked \in said[answer']
                     /\ \A d \in SurelyReached : said[d] \cap PackNames # {}
                     /\ ~Clash(SurelyReached)
                /\ edits = 0 /\ Discoverable /\ ~Clash(SurelyReached)
                   /\ (\A d \in SurelyReached : holds[d] \in PackNames)
                   /\ (\E d \in SurelyReached : holds[d] = Asked) =>
                     answer' # Nowhere
           ELSE /\ answer' # Nowhere => answer' = pinned /\ Asked \in said[pinned]
                /\ edits = 0 => answer' = pinned
  BY <1>1, PlacedSame DEF Placed, AnswerIsTheSet
<1>3. CASE pinned = Nowhere
  <2>1. ASSUME answer' # Nowhere
        PROVE  /\ Discoverable /\ answer' \in Named \cup Listed /\ Asked \in said[answer']
               /\ \A d \in SurelyReached : said[d] \cap PackNames # {}
               /\ ~Clash(SurelyReached)
    <3>1. PICK p \in packs : p.name = Asked /\ answer' = p.at /\ phase = "search" /\ todo = <<>>
      BY <1>1, <2>1
    <3>2. Discoverable /\ SurelyReached \subseteq seen
      BY <1>3, <3>1, AllTaken
    <3>3. p.at \in seen /\ p.name \in said[p.at]
      BY DEF FoundInv
    <3>4. p.at \in Named \cup Listed
      BY <1>3, <3>3 DEF SearchInv
    <3>5. ~Clash(SurelyReached)
      BY <3>2, TakenDiffer DEF Clash
    <3> QED
      BY <3>1, <3>2, <3>3, <3>4, <3>5, TakenDiffer
  <2>2. ASSUME edits = 0, NoReason PROVE answer' # Nowhere
    BY <1>1, <1>3, <2>2, FailedForAReason
  <2> QED
    BY <1>2, <1>3, <2>1, <2>2 DEF NoReason
<1>4. CASE pinned # Nowhere
  <2>1. ASSUME answer' # Nowhere PROVE answer' = pinned /\ Asked \in said[pinned]
    <3>1. PICK p \in packs : p.name = Asked /\ answer' = p.at /\ phase = "search" /\ todo = <<>>
      BY <1>1, <2>1
    <3>2. p.at = pinned
      BY <1>4, <3>1 DEF PinnedInv
    <3> QED
      BY <3>1, <3>2 DEF FoundInv
  <2>2. ASSUME edits = 0 PROVE answer' = pinned
    <3>1. holds[pinned] = Asked /\ said[pinned] = {Asked} /\ pinned \in Directories
      BY <1>4, <2>2 DEF SaidInv, PackType
    <3>2. CASE Start
      BY <1>4, <3>2 DEF Start
    <3>3. CASE ListRoot
      BY <1>4, <3>3, OnlyTakesWhenPinned DEF ListRoot
    <3>4. CASE ProbeEntry
      BY <1>4, <3>4, OnlyTakesWhenPinned DEF ProbeEntry
    <3>5. CASE TakeDirectory
      <4>1. phase = "search" /\ todo # <<>>
        BY <3>5 DEF TakeDirectory
      <4>2. todo = <<Take(pinned)>> /\ packs = {}
        BY <1>4, <4>1 DEF PinnedInv
      <4>3. Head(todo).at = pinned
        BY <4>2 DEF Take
      <4>4. holds[pinned] \in PackNames /\ holds[pinned] # "gone" /\ ~Refused(pinned)
        BY <3>1, <4>2, AskedAssumption, NamesAssumption DEF Refused, Declared, Flaws
      <4>5. phase' = phase
        BY <3>5, <4>3, <4>4 DEF TakeDirectory
      <4> QED
        BY <4>1, <4>5
    <3>6. CASE LookUp
      <4>1. PICK p \in packs : packs = {p} /\ p.at = pinned
        BY <1>4, <3>6 DEF LookUp, PinnedInv
      <4>2. p.name = Asked
        BY <3>1, <4>1 DEF FoundInv
      <4>3. Asked \in Declared
        BY <4>1, <4>2 DEF Declared
      <4> QED
        BY <3>6, <4>1, <4>3 DEF LookUp, StandsFor
    <3>7. CASE Edit
      BY <3>7 DEF Edit
    <3> QED
      BY <3>2, <3>3, <3>4, <3>5, <3>6, <3>7 DEF PackNext
  <2> QED
    BY <1>2, <1>4, <2>1, <2>2
<1> QED
  BY <1>3, <1>4

LEMMA DiscoveryInductive == PackSpec => []DiscoveryInv
<1>1. PackInit => DiscoveryInv
  <2> SUFFICES ASSUME PackInit PROVE DiscoveryInv
    OBVIOUS
  <2>1. holds \in [Directories -> PackNames \cup Flaws] /\ said = [d \in Directories |-> {holds[d]}]
    BY DEF PackInit
  <2>2. <<>> \in Seq(Steps)
    OBVIOUS
  <2>3. PackType
    BY <2>1, <2>2 DEF PackInit, PackType
  <2>4. SaidInv
    BY <2>1 DEF PackInit, SaidInv
  <2> QED
    BY <2>3, <2>4 DEF PackInit, DiscoveryInv, FoundInv, SearchInv, PinnedInv, AnswerIsTheSet
<1>2. DiscoveryInv /\ [PackNext]_packVars => DiscoveryInv'
  <2> SUFFICES ASSUME DiscoveryInv, [PackNext]_packVars PROVE DiscoveryInv'
    OBVIOUS
  <2>1. CASE PackNext
    <3>1. PackType' /\ SaidInv' /\ FoundInv' /\ SearchInv' /\ PinnedInv'
      BY <2>1, StartKept, ListRootKept, ProbeEntryKept, TakeDirectoryKept, LookUpKept, EditKept DEF PackNext
    <3>2. CASE phase' = "end"
      BY <2>1, <3>1, <3>2, AnswerKept DEF DiscoveryInv
    <3>3. CASE phase' # "end"
      BY <3>1, <3>3 DEF DiscoveryInv, AnswerIsTheSet
    <3> QED
      BY <3>2, <3>3
  <2>2. CASE UNCHANGED packVars
    <3>1. Placed /\ UNCHANGED <<phase, todo, seen, packs, answer>>
      BY <2>2 DEF packVars, Placed
    <3>2. PackType' /\ SaidInv' /\ FoundInv' /\ SearchInv' /\ PinnedInv'
      BY <3>1, PlacedSame DEF DiscoveryInv, Placed, PackType, SaidInv, FoundInv, SearchInv, PinnedInv, Ahead
    <3>3. AnswerIsTheSet'
      BY <3>1, PlacedSame DEF DiscoveryInv, Placed, AnswerIsTheSet
    <3> QED
      BY <3>2, <3>3 DEF DiscoveryInv
  <2> QED
    BY <2>1, <2>2
<1> QED
  BY <1>1, <1>2, PTL DEF PackSpec

\* What a name stands for depends on the set of directories in reach, not on the
\* order of the search, whatever the layout and however often the author edits.
THEOREM NamesStandForTheSet == PackSpec => []AnswerIsTheSet
<1>1. DiscoveryInv => AnswerIsTheSet
  BY DEF DiscoveryInv
<1> QED
  BY DiscoveryInductive, <1>1, PTL

------------------------------------------------------------------------------
(* A command *)

Early == {"start", "resolve", "facts", "allocate", "prepare", "spawn"}
Exchange == {"spawn", "wait", "collect"}
Gates == {"status", "validate", "archive", "remove"}
Closing == {"drop", "publish", "end"}
Alive == stage # "dead"

\* The Runtime exists from its start to its end, which the command waits for,
\* and what it has written by then is there while the command decides.
RuntimeInv ==
  /\ Alive /\ control => stage \in Exchange \/ "control" \in stuck
  /\ stage \in Early => runtime = "none"
  /\ stage = "wait" => runtime # "none"
  /\ Alive /\ runtime \in {"running", "answering"} => stage = "wait"
  /\ runtime = "none" => response = "none" /\ result = "none"
  /\ runtime = "running" => response = "none"
  /\ response = "report" => kind # "query"
  /\ response \in {"inline", "file"} => kind = "query"
  /\ response \in {"inline", "file"} /\ (stage \in Exchange \cup Gates) => result = "whole"

\* What the command has come to at each stage, and what it is founded on.
VerdictInv ==
  /\ stage \in Early \cup Exchange => verdict = "none"
  /\ stage \in Gates => verdict = response /\ verdict \in Good \cup {"diagnostic"} /\ runtime = "ok"
  /\ stage \in {"validate", "archive", "remove"} => kind = "query" /\ verdict \in Good
  /\ stage = "allocate" => kind = "query"
  /\ stage \in {"line", "finish", "commit"} \cup Closing => verdict # "none"
  /\ stage = "line" => verdict # "log"
  /\ stage = "gate" => verdict \in Good
  /\ stage = "cleanup" => verdict \in Verdicts
  /\ stage \in {"gate", "commit"} => kind = "run" /\ verdict \in Good
  /\ verdict \in Good => runtime = "ok" /\ response = verdict

\* The result file and its guard.
FileInv ==
  /\ kind # "query" => guard = "none" /\ result = "none"
  /\ kind = "query" /\ stage \in {"prepare"} \cup Exchange \cup Gates => guard = "armed"
  /\ guard = "armed" => stage \notin {"publish", "end"}
  /\ result # "none" /\ guard = "none" => "result" \in stuck \/ stage = "dead"
  /\ guard \in {"handed", "retained"} =>
       result = "whole" /\ reply.cause = "file" /\ reply.status = "success"
  /\ verdict = "file" /\ Alive /\ stage # "end" =>
       result = "whole" /\ guard = IF stage = "publish" THEN "handed" ELSE "armed"
  /\ verdict = "inline" /\ stage \in {"line", "finish", "drop"} => result = "none"
  /\ guard = "handed" => stage \in {"publish", "dead"}
  /\ guard = "retained" <=> stage = "end" /\ delivered = "yes" /\ verdict = "file"

\* The log is whole until one of its writes fails, which decides the verdict.
LogInv ==
  /\ stage = "start" => log = "none"
  /\ Alive /\ stage # "start" /\ verdict # "log" => log = "whole" \/ stage \in Closing
  /\ stage \in {"finish", "commit"} /\ verdict # "log" => LogAgrees(verdict)
  /\ stage = "cleanup" /\ verdict = "diagnostic" => tail = "runtimeFailed"
  /\ stage = "line" => verdict # "diagnostic" \/ kind # "run"

\* The Run, the evidence, and the Response that speaks of them.
ReplyInv ==
  /\ Alive /\ candidate # "none" => kind = "run"
  /\ stage \in {"cleanup", "gate"} => candidate = "candidate"
  /\ kind = "run" /\ verdict \in Good /\ stage \in {"line", "finish", "commit"} => candidate = "candidate"
  /\ kind = "run" /\ stage \in {"facts", "prepare", "status"} \cup Exchange => candidate = "candidate"
  /\ candidate = "published" => kind = "run" /\ verdict \in Good /\ stage \in Closing \cup {"dead"}
  /\ candidate = "candidate" /\ stage \in {"publish", "end"} => "candidate" \in stuck
  /\ archive => kind = "query"
  /\ archive /\ verdict \in Good /\ stage \in {"remove", "line", "finish"} \cup Closing => evidence
  /\ Alive => (reply = NoReply <=> stage \notin {"commit"} \cup Closing)
  /\ stage \in {"commit"} \cup Closing =>
       /\ reply.cause = verdict
       /\ reply.status = IF verdict \in Good THEN "success" ELSE "failure"
       /\ reply.status = "success" => reply.names /\ (kind = "run" /\ stage # "commit" => candidate = "published")
       /\ reply.names => log # "none"
       /\ reply.names /\ verdict # "log" => LogAgrees(verdict)
  /\ stage # "end" => delivered = "no" /\ exit = "none"
  /\ stage = "end" => delivered # "no" /\ exit = IF delivered = "yes" THEN reply.status ELSE "failure"

IInv == TypeOK /\ RuntimeInv /\ VerdictInv /\ FileInv /\ LogInv /\ ReplyInv

-----------------------------------------------------------------------------
(* IInv is inductive.  The stages and the helpers are expanded everywhere;   *)
(* each leaf names the action it is about.                                   *)

USE DEF Early, Exchange, Gates, Closing, Alive, Stages, Verdicts, Answers, Good,
        input, journal, process, artefacts, outcome, Goes, Fails, FailAs, AppendLine, Removed

\* Init establishes every part of the invariant.
LEMMA InitIInv == Init => IInv
<1> SUFFICES ASSUME Init PROVE IInv
  OBVIOUS
<1>1. archive \in BOOLEAN /\ control \in BOOLEAN /\ stuck = {} /\ evidence \in BOOLEAN
  BY DEF Init
<1>2. reply \in Replies
  BY DEF Init, NoReply, Replies
<1>3. TypeOK
  BY <1>1, <1>2 DEF Init, TypeOK
<1> QED
  BY <1>3, KindsAssumption DEF Init, NoReply, IInv, RuntimeInv, VerdictInv, FileInv, LogInv, ReplyInv, LogAgrees

\* What the reader of a Response finds in it.
LEMMA ReplyType ==
  ASSUME NEW v \in Verdicts, NEW names \in BOOLEAN
  PROVE  ReplyOf(v, names) \in Replies
BY DEF ReplyOf, Replies

\* Every step leaves the state well typed.
LEMMA TypeStep ==
  ASSUME IInv, [Next]_vars
  PROVE  TypeOK'
<1> USE DEF IInv, TypeOK
<1>1. CASE OpenLog
  <2>1. (reply \in Replies)'
    BY <1>1, ReplyType DEF OpenLog, Replies
  <2> QED
    BY <1>1, <2>1 DEF OpenLog, ReplyOf
<1>2. CASE Resolve
  BY <1>2 DEF Resolve
<1>3. CASE LogFacts
  BY <1>3 DEF LogFacts
<1>4. CASE AllocateResult
  BY <1>4 DEF AllocateResult
<1>5. CASE PrepareControl
  <2>1. control' \in BOOLEAN
    BY <1>5 DEF PrepareControl
  <2>2. stuck' \subseteq {"control", "result", "candidate"}
    BY <1>5 DEF PrepareControl
  <2> QED
    BY <1>5, <2>1, <2>2 DEF PrepareControl
<1>6. CASE Spawn
  <2>1. control' \in BOOLEAN
    BY <1>6 DEF Spawn
  <2>2. stuck' \subseteq {"control", "result", "candidate"}
    BY <1>6 DEF Spawn
  <2>3. /\ stage' \in Stages /\ verdict' \in Verdicts \cup {"none"}
        /\ runtime' \in {"none", "running", "answering", "ok", "bad"}
        /\ UNCHANGED <<kind, archive, log, tail, response, result, guard, candidate, evidence, reply,
                       delivered, exit>>
    BY <1>6 DEF Spawn
  <2> QED
    BY <2>1, <2>2, <2>3
<1>7. CASE WriteResult
  BY <1>7 DEF WriteResult
<1>8. CASE Answer
  BY <1>8 DEF Answer
<1>9. CASE Answered
  BY <1>9 DEF Answered
<1>10. CASE RuntimeExits
  BY <1>10 DEF RuntimeExits
<1>11. CASE Wait
  <2>1. control' \in BOOLEAN
    BY <1>11 DEF Wait
  <2>2. stuck' \subseteq {"control", "result", "candidate"}
    BY <1>11 DEF Wait
  <2>3. /\ stage' \in Stages /\ verdict' \in Verdicts \cup {"none"}
        /\ runtime' \in {"none", "running", "answering", "ok", "bad"}
        /\ UNCHANGED <<kind, archive, log, tail, response, result, guard, candidate, evidence, reply,
                       delivered, exit>>
    BY <1>11 DEF Wait
  <2> QED
    BY <2>1, <2>2, <2>3
<1>12. CASE Collect
  <2>1. control' \in BOOLEAN
    BY <1>12 DEF Collect
  <2>2. stuck' \subseteq {"control", "result", "candidate"}
    BY <1>12 DEF Collect
  <2> QED
    BY <1>12, <2>1, <2>2 DEF Collect, Usable
<1>13. CASE Status
  BY <1>13 DEF Status
<1>14. CASE ValidateResult
  BY <1>14 DEF ValidateResult
<1>15. CASE Archive
  <2>1. evidence' \in BOOLEAN
    BY <1>15 DEF Archive
  <2> QED
    BY <1>15, <2>1 DEF Archive
<1>16. CASE RemoveInline
  BY <1>16 DEF RemoveInline
<1>17. CASE Cleanup
  BY <1>17 DEF Cleanup
<1>18. CASE Gate
  BY <1>18 DEF Gate
<1>19. CASE LastLine
  BY <1>19 DEF LastLine
<1>20. CASE FinishLog
  <2>1. verdict \in Verdicts
    BY <1>20 DEF FinishLog, VerdictInv
  <2>2. (reply \in Replies)'
    <3>1. \A names \in BOOLEAN : ReplyOf(verdict, names) \in Replies /\ ReplyOf("log", names) \in Replies
      BY <2>1, ReplyType
    <3>2. reply' \in Replies
      BY <1>20, <3>1, Zenon DEF FinishLog
    <3> QED
      BY <3>2 DEF Replies
  <2> QED
    BY <1>20, <2>2 DEF FinishLog, ReplyOf
<1>21. CASE Commit
  <2>1. reply' = reply \/ reply' = ReplyOf("error", TRUE)
    BY <1>21, Zenon DEF Commit
  <2>2. ReplyOf("error", TRUE) \in Replies
    BY ReplyType
  <2>3. (reply \in Replies)'
    BY <2>1, <2>2 DEF Replies
  <2> QED
    BY <1>21, <2>3 DEF Commit, ReplyOf
<1>22. CASE Drop
  <2>1. stuck' \subseteq {"control", "result", "candidate"}
    BY <1>22 DEF Drop
  <2> QED
    BY <1>22, <2>1 DEF Drop
<1>23. CASE Publish
  <2>1. stuck' \subseteq {"control", "result", "candidate"}
    BY <1>23 DEF Publish
  <2> QED
    BY <1>23, <2>1 DEF Publish, Replies
<1>24. CASE Kill
  BY <1>24 DEF Kill
<1>25. CASE UNCHANGED vars
  BY <1>25 DEF vars
<1> QED
  BY <1>1, <1>2, <1>3, <1>4, <1>5, <1>6, <1>7, <1>8, <1>9, <1>10, <1>11, <1>12, <1>13, <1>14, <1>15, <1>16, <1>17, <1>18, <1>19, <1>20, <1>21, <1>22, <1>23, <1>24, <1>25 DEF Next, Before, RuntimeNext, After

\* Every step of the command and of the Runtime keeps what is known of the exchange.
LEMMA RuntimeStep ==
  ASSUME IInv, [Next]_vars
  PROVE  RuntimeInv'
<1> USE KindsAssumption DEF ReplyOf, NoReply, Replies, IInv, TypeOK, RuntimeInv, VerdictInv, FileInv, LogInv, ReplyInv, LogAgrees
<1>1. CASE OpenLog
  BY <1>1 DEF OpenLog
<1>2. CASE Resolve
  BY <1>2 DEF Resolve
<1>3. CASE LogFacts
  BY <1>3 DEF LogFacts
<1>4. CASE AllocateResult
  BY <1>4 DEF AllocateResult
<1>5. CASE PrepareControl
  BY <1>5 DEF PrepareControl
<1>6. CASE Spawn
  BY <1>6 DEF Spawn
<1>7. CASE WriteResult
  BY <1>7 DEF WriteResult
<1>8. CASE Answer
  BY <1>8 DEF Answer
<1>9. CASE Answered
  BY <1>9 DEF Answered
<1>10. CASE RuntimeExits
  BY <1>10 DEF RuntimeExits
<1>11. CASE Wait
  BY <1>11 DEF Wait
<1>12. CASE Collect
  BY <1>12 DEF Collect, Usable
<1>13. CASE Status
  BY <1>13 DEF Status
<1>14. CASE ValidateResult
  BY <1>14 DEF ValidateResult
<1>15. CASE Archive
  BY <1>15 DEF Archive
<1>16. CASE RemoveInline
  BY <1>16 DEF RemoveInline
<1>17. CASE Cleanup
  BY <1>17 DEF Cleanup
<1>18. CASE Gate
  BY <1>18 DEF Gate
<1>19. CASE LastLine
  BY <1>19 DEF LastLine
<1>20. CASE FinishLog
  BY <1>20 DEF FinishLog
<1>21. CASE Commit
  BY <1>21 DEF Commit
<1>22. CASE Drop
  BY <1>22 DEF Drop
<1>23. CASE Publish
  BY <1>23 DEF Publish
<1>24. CASE Kill
  BY <1>24 DEF Kill
<1>25. CASE UNCHANGED vars
  BY <1>25 DEF vars
<1> QED
  BY <1>1, <1>2, <1>3, <1>4, <1>5, <1>6, <1>7, <1>8, <1>9, <1>10, <1>11, <1>12, <1>13, <1>14, <1>15, <1>16, <1>17, <1>18, <1>19, <1>20, <1>21, <1>22, <1>23, <1>24, <1>25 DEF Next, Before, RuntimeNext, After

\* Every step keeps the verdict founded on what the Runtime answered.
LEMMA VerdictStep ==
  ASSUME IInv, [Next]_vars
  PROVE  VerdictInv'
<1> USE KindsAssumption DEF ReplyOf, NoReply, Replies, IInv, TypeOK, RuntimeInv, VerdictInv, FileInv, LogInv, ReplyInv, LogAgrees
<1>1. CASE OpenLog
  BY <1>1 DEF OpenLog
<1>2. CASE Resolve
  BY <1>2 DEF Resolve
<1>3. CASE LogFacts
  BY <1>3 DEF LogFacts
<1>4. CASE AllocateResult
  BY <1>4 DEF AllocateResult
<1>5. CASE PrepareControl
  BY <1>5 DEF PrepareControl
<1>6. CASE Spawn
  BY <1>6 DEF Spawn
<1>7. CASE WriteResult
  BY <1>7 DEF WriteResult
<1>8. CASE Answer
  BY <1>8 DEF Answer
<1>9. CASE Answered
  BY <1>9 DEF Answered
<1>10. CASE RuntimeExits
  BY <1>10 DEF RuntimeExits
<1>11. CASE Wait
  BY <1>11 DEF Wait
<1>12. CASE Collect
  BY <1>12 DEF Collect, Usable
<1>13. CASE Status
  BY <1>13 DEF Status
<1>14. CASE ValidateResult
  BY <1>14 DEF ValidateResult
<1>15. CASE Archive
  BY <1>15 DEF Archive
<1>16. CASE RemoveInline
  BY <1>16 DEF RemoveInline
<1>17. CASE Cleanup
  BY <1>17 DEF Cleanup
<1>18. CASE Gate
  BY <1>18 DEF Gate
<1>19. CASE LastLine
  BY <1>19 DEF LastLine
<1>20. CASE FinishLog
  BY <1>20 DEF FinishLog
<1>21. CASE Commit
  BY <1>21 DEF Commit
<1>22. CASE Drop
  BY <1>22 DEF Drop
<1>23. CASE Publish
  BY <1>23 DEF Publish
<1>24. CASE Kill
  BY <1>24 DEF Kill
<1>25. CASE UNCHANGED vars
  BY <1>25 DEF vars
<1> QED
  BY <1>1, <1>2, <1>3, <1>4, <1>5, <1>6, <1>7, <1>8, <1>9, <1>10, <1>11, <1>12, <1>13, <1>14, <1>15, <1>16, <1>17, <1>18, <1>19, <1>20, <1>21, <1>22, <1>23, <1>24, <1>25 DEF Next, Before, RuntimeNext, After

\* Every step keeps the result file and its guard together.
LEMMA FileStep ==
  ASSUME IInv, [Next]_vars
  PROVE  FileInv'
<1> USE KindsAssumption DEF ReplyOf, NoReply, Replies, IInv, TypeOK, RuntimeInv, VerdictInv, FileInv, LogInv, ReplyInv, LogAgrees
<1>1. CASE OpenLog
  BY <1>1 DEF OpenLog
<1>2. CASE Resolve
  BY <1>2 DEF Resolve
<1>3. CASE LogFacts
  BY <1>3 DEF LogFacts
<1>4. CASE AllocateResult
  BY <1>4 DEF AllocateResult
<1>5. CASE PrepareControl
  BY <1>5 DEF PrepareControl
<1>6. CASE Spawn
  BY <1>6 DEF Spawn
<1>7. CASE WriteResult
  BY <1>7 DEF WriteResult
<1>8. CASE Answer
  BY <1>8 DEF Answer
<1>9. CASE Answered
  BY <1>9 DEF Answered
<1>10. CASE RuntimeExits
  BY <1>10 DEF RuntimeExits
<1>11. CASE Wait
  BY <1>11 DEF Wait
<1>12. CASE Collect
  BY <1>12 DEF Collect, Usable
<1>13. CASE Status
  BY <1>13 DEF Status
<1>14. CASE ValidateResult
  BY <1>14 DEF ValidateResult
<1>15. CASE Archive
  BY <1>15 DEF Archive
<1>16. CASE RemoveInline
  BY <1>16 DEF RemoveInline
<1>17. CASE Cleanup
  BY <1>17 DEF Cleanup
<1>18. CASE Gate
  BY <1>18 DEF Gate
<1>19. CASE LastLine
  BY <1>19 DEF LastLine
<1>20. CASE FinishLog
  BY <1>20 DEF FinishLog
<1>21. CASE Commit
  BY <1>21 DEF Commit
<1>22. CASE Drop
  BY <1>22 DEF Drop
<1>23. CASE Publish
  BY <1>23 DEF Publish
<1>24. CASE Kill
  BY <1>24 DEF Kill
<1>25. CASE UNCHANGED vars
  BY <1>25 DEF vars
<1> QED
  BY <1>1, <1>2, <1>3, <1>4, <1>5, <1>6, <1>7, <1>8, <1>9, <1>10, <1>11, <1>12, <1>13, <1>14, <1>15, <1>16, <1>17, <1>18, <1>19, <1>20, <1>21, <1>22, <1>23, <1>24, <1>25 DEF Next, Before, RuntimeNext, After

\* Every step keeps the log whole, or makes its failure the verdict.
LEMMA LogStep ==
  ASSUME IInv, [Next]_vars
  PROVE  LogInv'
<1> USE KindsAssumption DEF ReplyOf, NoReply, Replies, IInv, TypeOK, RuntimeInv, VerdictInv, FileInv, LogInv, ReplyInv, LogAgrees
<1>1. CASE OpenLog
  BY <1>1 DEF OpenLog
<1>2. CASE Resolve
  BY <1>2 DEF Resolve
<1>3. CASE LogFacts
  BY <1>3 DEF LogFacts
<1>4. CASE AllocateResult
  BY <1>4 DEF AllocateResult
<1>5. CASE PrepareControl
  BY <1>5 DEF PrepareControl
<1>6. CASE Spawn
  BY <1>6 DEF Spawn
<1>7. CASE WriteResult
  BY <1>7 DEF WriteResult
<1>8. CASE Answer
  BY <1>8 DEF Answer
<1>9. CASE Answered
  BY <1>9 DEF Answered
<1>10. CASE RuntimeExits
  BY <1>10 DEF RuntimeExits
<1>11. CASE Wait
  BY <1>11 DEF Wait
<1>12. CASE Collect
  BY <1>12 DEF Collect, Usable
<1>13. CASE Status
  BY <1>13 DEF Status
<1>14. CASE ValidateResult
  BY <1>14 DEF ValidateResult
<1>15. CASE Archive
  BY <1>15 DEF Archive
<1>16. CASE RemoveInline
  BY <1>16 DEF RemoveInline
<1>17. CASE Cleanup
  BY <1>17 DEF Cleanup
<1>18. CASE Gate
  BY <1>18 DEF Gate
<1>19. CASE LastLine
  BY <1>19 DEF LastLine
<1>20. CASE FinishLog
  BY <1>20 DEF FinishLog
<1>21. CASE Commit
  BY <1>21 DEF Commit
<1>22. CASE Drop
  BY <1>22 DEF Drop
<1>23. CASE Publish
  BY <1>23 DEF Publish
<1>24. CASE Kill
  BY <1>24 DEF Kill
<1>25. CASE UNCHANGED vars
  BY <1>25 DEF vars
<1> QED
  BY <1>1, <1>2, <1>3, <1>4, <1>5, <1>6, <1>7, <1>8, <1>9, <1>10, <1>11, <1>12, <1>13, <1>14, <1>15, <1>16, <1>17, <1>18, <1>19, <1>20, <1>21, <1>22, <1>23, <1>24, <1>25 DEF Next, Before, RuntimeNext, After

\* Every step keeps the Run, the evidence and the Response in agreement.
LEMMA ReplyStep ==
  ASSUME IInv, [Next]_vars
  PROVE  ReplyInv'
<1> USE KindsAssumption DEF ReplyOf, NoReply, Replies, IInv, TypeOK, RuntimeInv, VerdictInv, FileInv, LogInv, ReplyInv, LogAgrees
<1>1. CASE OpenLog
  BY <1>1 DEF OpenLog
<1>2. CASE Resolve
  BY <1>2 DEF Resolve
<1>3. CASE LogFacts
  BY <1>3 DEF LogFacts
<1>4. CASE AllocateResult
  BY <1>4 DEF AllocateResult
<1>5. CASE PrepareControl
  BY <1>5 DEF PrepareControl
<1>6. CASE Spawn
  BY <1>6 DEF Spawn
<1>7. CASE WriteResult
  BY <1>7 DEF WriteResult
<1>8. CASE Answer
  BY <1>8 DEF Answer
<1>9. CASE Answered
  BY <1>9 DEF Answered
<1>10. CASE RuntimeExits
  BY <1>10 DEF RuntimeExits
<1>11. CASE Wait
  BY <1>11 DEF Wait
<1>12. CASE Collect
  BY <1>12 DEF Collect, Usable
<1>13. CASE Status
  BY <1>13 DEF Status
<1>14. CASE ValidateResult
  BY <1>14 DEF ValidateResult
<1>15. CASE Archive
  BY <1>15 DEF Archive
<1>16. CASE RemoveInline
  BY <1>16 DEF RemoveInline
<1>17. CASE Cleanup
  BY <1>17 DEF Cleanup
<1>18. CASE Gate
  BY <1>18 DEF Gate
<1>19. CASE LastLine
  BY <1>19 DEF LastLine
<1>20. CASE FinishLog
  BY <1>20 DEF FinishLog
<1>21. CASE Commit
  BY <1>21 DEF Commit
<1>22. CASE Drop
  BY <1>22 DEF Drop
<1>23. CASE Publish
  BY <1>23 DEF Publish
<1>24. CASE Kill
  BY <1>24 DEF Kill
<1>25. CASE UNCHANGED vars
  BY <1>25 DEF vars
<1> QED
  BY <1>1, <1>2, <1>3, <1>4, <1>5, <1>6, <1>7, <1>8, <1>9, <1>10, <1>11, <1>12, <1>13, <1>14, <1>15, <1>16, <1>17, <1>18, <1>19, <1>20, <1>21, <1>22, <1>23, <1>24, <1>25 DEF Next, Before, RuntimeNext, After

-----------------------------------------------------------------------------
(* Theorems. *)

\* IInv holds in every reachable state, whichever steps fail.
THEOREM Inductive == Spec => []IInv
<1>1. IInv /\ [Next]_vars => IInv'
  BY TypeStep, RuntimeStep, VerdictStep, FileStep, LogStep, ReplyStep DEF IInv
<1> QED
  BY InitIInv, <1>1, PTL DEF Spec

\* Type correctness of a command.
THEOREM TypeCorrect == Spec => []TypeOK
<1>1. IInv => TypeOK
  BY DEF IInv
<1> QED
  BY Inductive, <1>1, PTL

\* What a delivered Response says of the result file, the evidence, the Run and
\* the log is so.
THEOREM AnswersAreTrue == Spec => []AnswerIsTrue
<1>1. IInv => AnswerIsTrue
  <2> SUFFICES ASSUME IInv, delivered = "yes" PROVE AnswerIsTrue
    BY DEF AnswerIsTrue
  <2> USE DEF IInv, TypeOK, VerdictInv, FileInv, ReplyInv
  <2>1. stage = "end" /\ reply.cause = verdict
    OBVIOUS
  <2>2. reply.cause = "file" => result = "whole" /\ guard = "retained"
    BY <2>1
  <2>3. reply.status = "success" => (archive => evidence) /\ (kind = "run" => candidate = "published")
    BY <2>1
  <2>4. reply.status = "failure" => candidate # "published"
    BY <2>1
  <2>5. /\ reply.names => log # "none"
        /\ reply.names /\ reply.cause # "log" => LogAgrees(reply.cause)
        /\ reply.status = "success" => reply.names
    BY <2>1
  <2> QED
    BY <2>2, <2>3, <2>4, <2>5 DEF AnswerIsTrue
<1> QED
  BY Inductive, <1>1, PTL

\* A command that comes to its end has left nothing but what it delivered and
\* what it could not remove.
THEOREM NothingStays == Spec => []NothingIsLeft
<1>1. IInv => NothingIsLeft
  BY KindsAssumption DEF IInv, TypeOK, RuntimeInv, FileInv, VerdictInv, ReplyInv, NothingIsLeft, Replies
<1> QED
  BY Inductive, <1>1, PTL

\* Evidence and a Run are published only when the Runtime has ended well, the
\* exchange is over, and for a Run, its log and its Response are ready.
THEOREM EffectsAreLast == Spec => EffectsComeLast
<1> DEFINE Founded ==
      /\ evidence' # evidence => runtime = "ok" /\ ExchangeOver /\ log = "whole" /\ result = "whole"
      /\ candidate # "published" /\ candidate' = "published" =>
           runtime = "ok" /\ ExchangeOver /\ LogAgrees("report") /\ reply.status = "success"
<1>1. IInv /\ [Next]_vars => Founded
  <2> SUFFICES ASSUME IInv, [Next]_vars PROVE Founded
    OBVIOUS
  <2> USE DEF IInv, TypeOK
  <2>1. CASE Archive
    <3>1. runtime = "ok" /\ log = "whole" /\ result = "whole"
      BY <2>1 DEF Archive, RuntimeInv, VerdictInv, LogInv
    <3>2. ExchangeOver
      BY <2>1 DEF Archive, RuntimeInv, ExchangeOver
    <3>3. candidate' = candidate
      BY <2>1 DEF Archive
    <3> QED
      BY <3>1, <3>2, <3>3
  <2>2. CASE Commit
    <3>1. runtime = "ok" /\ reply.status = "success" /\ LogAgrees("report")
      BY <2>2 DEF Commit, VerdictInv, LogInv, LogAgrees, ReplyInv
    <3>2. ExchangeOver
      BY <2>2 DEF Commit, RuntimeInv, ExchangeOver
    <3>3. evidence' = evidence
      BY <2>2 DEF Commit
    <3> QED
      BY <3>1, <3>2, <3>3
  <2>3. CASE Resolve
    BY <2>3 DEF Resolve
  <2>4. CASE Drop
    BY <2>4 DEF Drop
  <2>5. CASE ~(Archive \/ Commit \/ Resolve \/ Drop)
    <3>1. CASE Next
      BY <2>5, <3>1 DEF Next, Before, RuntimeNext, After, OpenLog, LogFacts, AllocateResult, PrepareControl, Spawn,
            WriteResult, Answer, Answered, RuntimeExits, Wait, Collect, Status, ValidateResult, RemoveInline,
            Cleanup, Gate, LastLine, FinishLog, Publish, Kill
    <3>2. CASE UNCHANGED vars
      BY <3>2 DEF vars
    <3> QED
      BY <3>1, <3>2
  <2> QED
    BY <2>1, <2>2, <2>3, <2>4, <2>5
<1> QED
  BY Inductive, <1>1, PTL DEF Spec, EffectsComeLast

------------------------------------------------------------------------------
(* The log shows the text.                                                  *)
(*                                                                          *)
(* The invariant says that the projection has decoded the first n bytes of  *)
(* the text, where n is a place no character goes over (Settled), and has   *)
(* written their lines but for a carriage return (Tells).  What bytes yield *)
(* before such a place does not depend on what follows (UptoSame), so that  *)
(* it may be computed piece by piece: one round takes one character         *)
(* (NextUnit, RoundFollows), and when no round is left, the start of one    *)
(* character is (WaitsForOne).                                              *)

\* What a text, its characters and its lines are made of.
Glyphs == AllBytes \cup {"replacement", "warning", "newline", "escape"}

\* f is what FlattenSeq computes, as far as n.
Flattens(f, ss, n) ==
  f = [i \in 1..n |-> IF i = 1 THEN ss[i] ELSE f[i - 1] \o ss[i]]

LEMMA FlattensAgree ==
  ASSUME NEW ss, NEW tt, NEW f, NEW g, NEW n \in Nat, NEW m \in Nat, n <= m,
         Flattens(f, ss, n), Flattens(g, tt, m), \A i \in 1..n : ss[i] = tt[i]
  PROVE  \A i \in 1..n : f[i] = g[i]
<1> DEFINE T == {i \in 1..n : f[i] # g[i]}
<1>1. SUFFICES ASSUME T # {} PROVE FALSE
  OBVIOUS
<1>2. T \in SUBSET Nat
  OBVIOUS
<1> HIDE DEF T
<1>3. PICK i \in T : \A j \in T : i <= j
  BY <1>1, <1>2, LeastNumber
<1>4. i \in 1..n /\ i \in 1..m /\ f[i] # g[i]
  BY <1>3 DEF T
<1>5. f[i] = (IF i = 1 THEN ss[i] ELSE f[i - 1] \o ss[i])
  BY <1>4 DEF Flattens
<1>6. g[i] = (IF i = 1 THEN tt[i] ELSE g[i - 1] \o tt[i])
  BY <1>4 DEF Flattens
<1>7. i # 1
  BY <1>4, <1>5, <1>6
<1>8. i - 1 \in 1..n /\ ~ (i <= i - 1)
  BY <1>4, <1>7
<1>9. f[i - 1] = g[i - 1]
  BY <1>3, <1>8 DEF T
<1> QED
  BY <1>4, <1>5, <1>6, <1>7, <1>9

LEMMA FlattensExists ==
  ASSUME NEW ss
  PROVE  \A n \in Nat \ {0} : \E f : Flattens(f, ss, n)
<1> DEFINE T == {n \in Nat \ {0} : ~ \E f : Flattens(f, ss, n)}
<1>1. SUFFICES ASSUME T # {} PROVE FALSE
  OBVIOUS
<1>2. T \in SUBSET Nat
  OBVIOUS
<1> HIDE DEF T
<1>3. PICK n \in T : \A j \in T : n <= j
  BY <1>1, <1>2, LeastNumber
<1>4. n \in Nat \ {0} /\ ~ \E f : Flattens(f, ss, n)
  BY <1>3 DEF T
<1>5. n # 1
  <2>1. Flattens([i \in 1..1 |-> ss[i]], ss, 1)
    BY DEF Flattens
  <2> QED
    BY <1>4, <2>1
<1>6. n - 1 \in Nat \ {0} /\ ~ (n <= n - 1)
  BY <1>4, <1>5
<1>7. PICK f : Flattens(f, ss, n - 1)
  BY <1>3, <1>6 DEF T
<1> DEFINE g == [i \in 1..n |-> IF i = n THEN f[n - 1] \o ss[n] ELSE f[i]]
<1>8. \A i \in 1..n : g[i] = IF i = 1 THEN ss[i] ELSE g[i - 1] \o ss[i]
  <2>1. TAKE i \in 1..n
  <2>2. CASE i = n
    <3>1. n - 1 \in 1..n /\ n \in 1..n /\ n - 1 # n
      BY <1>4, <1>5
    <3>2. g[n] = f[n - 1] \o ss[n] /\ g[n - 1] = f[n - 1]
      BY <3>1
    <3> QED
      BY <1>5, <2>2, <3>2
  <2>3. CASE i # n
    <3>1. i \in 1..n - 1 /\ i - 1 # n
      BY <1>4, <2>1, <2>3
    <3>2. f[i] = (IF i = 1 THEN ss[i] ELSE f[i - 1] \o ss[i])
      BY <1>7, <3>1 DEF Flattens
    <3>3. i # 1 => i - 1 \in 1..n
      BY <1>4, <3>1
    <3> QED
      BY <2>3, <3>1, <3>2, <3>3
  <2> QED
    BY <2>2, <2>3
<1>9. Flattens(g, ss, n)
  <2> DEFINE h == [i \in 1..n |-> IF i = 1 THEN ss[i] ELSE g[i - 1] \o ss[i]]
  <2>1. DOMAIN g = DOMAIN h /\ \A i \in 1..n : g[i] = h[i]
    BY <1>8
  <2>2. g = h
    BY <2>1
  <2> QED
    BY <2>2 DEF Flattens
<1> QED
  BY <1>4, <1>9

LEMMA FlattenIs ==
  ASSUME NEW ss, Len(ss) \in Nat \ {0}
  PROVE  \E f : Flattens(f, ss, Len(ss)) /\ FlattenSeq(ss) = f[Len(ss)]
<1> DEFINE n == Len(ss)
           f == CHOOSE flatten : flatten =
                  [i \in 1..n |-> IF i = 1 THEN ss[i] ELSE flatten[i - 1] \o ss[i]]
<1>1. Len(ss) # 0
  OBVIOUS
<1>2. FlattenSeq(ss) = f[n]
  BY <1>1, Zenon DEF FlattenSeq
<1>3. \E g : g = [i \in 1..n |-> IF i = 1 THEN ss[i] ELSE g[i - 1] \o ss[i]]
  BY FlattensExists DEF Flattens
<1>4. f = [i \in 1..n |-> IF i = 1 THEN ss[i] ELSE f[i - 1] \o ss[i]]
  BY <1>3, Zenon
<1> HIDE DEF f
<1> QED
  BY <1>2, <1>4 DEF Flattens

\* FlattenSeq puts one sequence after another.
LEMMA FlattenAppend ==
  ASSUME NEW S, NEW e, NEW n \in Nat, \A i \in 1..n + 1 : e[i] \in Seq(S)
  PROVE  /\ FlattenSeq([i \in 1..n + 1 |-> e[i]]) = FlattenSeq([i \in 1..n |-> e[i]]) \o e[n + 1]
         /\ n = 0 => FlattenSeq([i \in 1..n |-> e[i]]) = <<>>
<1> DEFINE one == [i \in 1..n |-> e[i]]
           two == [i \in 1..n + 1 |-> e[i]]
<1>1. one \in Seq(Seq(S)) /\ Len(one) = n /\ two \in Seq(Seq(S)) /\ Len(two) = n + 1
  <2>1. one \in [1..n -> Seq(S)] /\ two \in [1..n + 1 -> Seq(S)]
    OBVIOUS
  <2>2. n + 1 \in Nat
    OBVIOUS
  <2> HIDE DEF one, two
  <2> QED
    BY <2>1, <2>2
<1>2. \A i \in 1..n : one[i] = two[i]
  OBVIOUS
<1>3. two[n + 1] = e[n + 1] /\ e[n + 1] \in Seq(S)
  OBVIOUS
<1> HIDE DEF one, two
<1>4. n = 0 => one = <<>> /\ FlattenSeq(one) = <<>>
  <2>1. n = 0 => one = <<>>
    BY <1>1
  <2>2. n = 0 => FlattenSeq(one) = one
    BY <1>1 DEF FlattenSeq
  <2> QED
    BY <2>1, <2>2
<1>5. n + 1 \in Nat \ {0}
  OBVIOUS
<1>6. PICK f : Flattens(f, two, n + 1) /\ FlattenSeq(two) = f[n + 1]
  BY <1>1, <1>5, FlattenIs
<1>7. n + 1 \in 1..n + 1
  OBVIOUS
<1>8. f[n + 1] = IF n + 1 = 1 THEN two[n + 1] ELSE f[n + 1 - 1] \o two[n + 1]
  <2>1. \A k \in 1..n + 1 : f[k] = IF k = 1 THEN two[k] ELSE f[k - 1] \o two[k]
    <3>1. SUFFICES ASSUME NEW k \in 1..n + 1
                   PROVE  f[k] = IF k = 1 THEN two[k] ELSE f[k - 1] \o two[k]
      OBVIOUS
    <3> QED
      BY <1>6 DEF Flattens
  <2> QED
    BY <1>7, <2>1
<1>9. CASE n = 0
  <2>1. FlattenSeq(two) = e[n + 1]
    BY <1>3, <1>6, <1>8, <1>9
  <2>2. <<>> \o e[n + 1] = e[n + 1]
    BY <1>3, ConcatEmptySeq
  <2> QED
    BY <1>4, <1>9, <2>1, <2>2 DEF one, two
<1>10. CASE n # 0
  <2>1. PICK g : Flattens(g, one, n) /\ FlattenSeq(one) = g[n]
    BY <1>1, <1>10, FlattenIs
  <2>2. g[n] = f[n]
    BY <1>2, <1>6, <1>10, <2>1, FlattensAgree
  <2>3. n + 1 # 1 /\ n + 1 - 1 = n
    BY <1>10
  <2>4. FlattenSeq(two) = FlattenSeq(one) \o e[n + 1]
    BY <1>3, <1>6, <1>8, <2>1, <2>2, <2>3
  <2> QED
    BY <1>10, <2>4 DEF one, two
<1> QED
  BY <1>9, <1>10

\* FlattenSeq has the elements of the sequences.
LEMMA FlattenType ==
  ASSUME NEW S, NEW e, NEW m \in Nat, \A i \in 1..m : e[i] \in Seq(S)
  PROVE  \A n \in 0..m : FlattenSeq([i \in 1..n |-> e[i]]) \in Seq(S)
<1> DEFINE G(n) == FlattenSeq([i \in 1..n |-> e[i]])
           T == {n \in 0..m : G(n) \notin Seq(S)}
<1>1. SUFFICES ASSUME T # {} PROVE FALSE
  OBVIOUS
<1>2. T \in SUBSET Nat
  OBVIOUS
<1> HIDE DEF T
<1>3. PICK n \in T : \A j \in T : n <= j
  BY <1>1, <1>2, LeastNumber
<1>4. n \in 0..m /\ G(n) \notin Seq(S)
  BY <1>3 DEF T
<1>5. n # 0
  <2>1. G(0) = <<>>
    <3>1. [i \in 1..0 |-> e[i]] = <<>>
      OBVIOUS
    <3>2. Len(<<>>) = 0
      OBVIOUS
    <3> QED
      BY <3>1, <3>2 DEF FlattenSeq
  <2> QED
    BY <1>4, <2>1
<1>6. n - 1 \in 0..m /\ n - 1 \in Nat /\ n - 1 + 1 = n /\ ~ (n <= n - 1)
  BY <1>4, <1>5
<1>7. G(n - 1) \in Seq(S)
  BY <1>3, <1>6 DEF T
<1>8. \A i \in 1..n : e[i] \in Seq(S)
  BY <1>4
<1>9. G(n) = G(n - 1) \o e[n]
  <2> DEFINE k == n - 1
  <2>1. k \in Nat /\ \A i \in 1..k + 1 : e[i] \in Seq(S)
    BY <1>6, <1>8
  <2> HIDE DEF k
  <2>2. G(k + 1) = G(k) \o e[k + 1]
    BY <2>1, FlattenAppend
  <2> QED
    BY <1>6, <2>2 DEF k
<1>10. n \in 1..n
  BY <1>4, <1>5
<1> HIDE DEF G
<1> QED
  BY <1>4, <1>7, <1>8, <1>9, <1>10, ConcatProperties

\* The characters that the first n bytes of s yield.
Upto(s, n) == FlattenSeq([i \in 1..n |-> UnitAt(s, i)])

LEMMA UnitType ==
  ASSUME NEW s \in Seq(AllBytes), NEW i \in 1..Len(s)
  PROVE  UnitAt(s, i) \in Seq(Glyphs)
<1>1. s[i] \in AllBytes
  OBVIOUS
<1>2. \A g \in Glyphs : <<g>> \in Seq(Glyphs)
  OBVIOUS
<1>3. <<>> \in Seq(Glyphs)
  OBVIOUS
<1>4. s[i] \in Glyphs /\ "replacement" \in Glyphs /\ "char" \in Glyphs
  BY <1>1 DEF Glyphs, AllBytes
<1> QED
  BY <1>2, <1>3, <1>4 DEF UnitAt

LEMMA UptoSteps ==
  ASSUME NEW s \in Seq(AllBytes)
  PROVE  /\ Upto(s, 0) = <<>>
         /\ \A n \in 0..Len(s) : Upto(s, n) \in Seq(Glyphs)
         /\ \A n \in 0..Len(s) - 1 : Upto(s, n + 1) = Upto(s, n) \o UnitAt(s, n + 1)
<1> DEFINE m == Len(s)
           e == [i \in 1..m |-> UnitAt(s, i)]
           u(n) == [i \in 1..n |-> e[i]]
<1>1. m \in Nat
  OBVIOUS
<1>2. \A i \in 1..m : e[i] = UnitAt(s, i) /\ e[i] \in Seq(Glyphs)
  BY UnitType
<1>3. \A n \in 0..m : u(n) = [i \in 1..n |-> UnitAt(s, i)]
  OBVIOUS
<1>4. Upto(s, 0) = <<>>
  <2>1. [i \in 1..0 |-> UnitAt(s, i)] = <<>>
    OBVIOUS
  <2>2. Len(<<>>) = 0
    OBVIOUS
  <2> QED
    BY <2>1, <2>2 DEF FlattenSeq, Upto
<1> HIDE DEF e
<1>5. \A n \in 0..m : FlattenSeq(u(n)) \in Seq(Glyphs)
  <2> HIDE DEF m
  <2> QED
    BY <1>1, <1>2, FlattenType
<1>6. ASSUME NEW n \in 0..m - 1
      PROVE  Upto(s, n + 1) = Upto(s, n) \o UnitAt(s, n + 1)
  <2>1. n \in Nat /\ n + 1 \in 1..m /\ n \in 0..m /\ n + 1 \in 0..m
    OBVIOUS
  <2>2. \A i \in 1..n + 1 : e[i] \in Seq(Glyphs)
    BY <1>1, <1>2
  <2>3. FlattenSeq(u(n + 1)) = FlattenSeq(u(n)) \o e[n + 1]
    BY <2>1, <2>2, FlattenAppend
  <2> HIDE DEF m, u
  <2>4. Upto(s, n) = FlattenSeq(u(n)) /\ Upto(s, n + 1) = FlattenSeq(u(n + 1))
    BY <1>3, <2>1 DEF Upto
  <2> QED
    BY <1>2, <2>1, <2>3, <2>4
<1>7. \A n \in 0..m : Upto(s, n) \in Seq(Glyphs)
  BY <1>3, <1>5 DEF Upto
<1> QED
  BY <1>4, <1>6, <1>7

------------------------------------------------------------------------------
(* Where a text may be cut *)

\* No character that begins among the first n bytes goes on after them.
Settled(s, n) ==
  \A j \in 1..n : \/ j + Tails(s[j]) <= n
                  \/ \E k \in j + 1..n + 1 : k <= Len(s) /\ s[k] # "tail"

\* What begins at i is whole among the first n bytes.
WholeBy(s, i, n) == i + Tails(s[i]) <= n /\ Covers(s, i, i + Tails(s[i]))

LEMMA TailsIs == \A b : Tails(b) \in 0..2
BY DEF Tails

LEMMA WholeIs ==
  ASSUME NEW s \in Seq(AllBytes), NEW n \in 0..Len(s), n = Len(s) \/ Settled(s, n),
         NEW i \in 1..n
  PROVE  Whole(s, i) <=> WholeBy(s, i, n)
<1> DEFINE t == Tails(s[i])
<1>1. t \in 0..2 /\ n <= Len(s) /\ Len(s) \in Nat /\ n \in Nat
  BY TailsIs
<1>2. CASE n = Len(s)
  BY <1>2 DEF Whole, WholeBy
<1>3. CASE Settled(s, n)
  <2>1. WholeBy(s, i, n) => Whole(s, i)
    BY <1>1 DEF Whole, WholeBy
  <2>2. ASSUME Whole(s, i) PROVE i + t <= n
    <3>1. \A k \in i + 1..i + t : s[k] = "tail"
      BY <2>2 DEF Whole, Covers
    <3>2. SUFFICES ASSUME n < i + t PROVE FALSE
      BY <1>1
    <3>3. PICK k \in i + 1..n + 1 : s[k] # "tail"
      BY <1>1, <1>3, <3>2 DEF Settled
    <3>4. k \in i + 1..i + t
      BY <1>1, <3>2
    <3> QED
      BY <3>1, <3>3, <3>4
  <2> QED
    BY <2>1, <2>2 DEF Whole, WholeBy
<1> QED
  BY <1>2, <1>3

\* Two texts with the same beginning yield the same characters there.
LEMMA UptoSame ==
  ASSUME NEW s \in Seq(AllBytes), NEW t \in Seq(AllBytes), NEW n \in 0..Len(s), n <= Len(t),
         n = Len(s) \/ Settled(s, n), n = Len(t) \/ Settled(t, n), \A i \in 1..n : s[i] = t[i]
  PROVE  Upto(s, n) = Upto(t, n)
<1>1. n \in 0..Len(t) /\ n \in Nat
  OBVIOUS
<1>2. ASSUME NEW i \in 1..n PROVE UnitAt(s, i) = UnitAt(t, i)
  <2>1. \A j \in 1..i : Covers(s, j, i) <=> Covers(t, j, i)
    <3>1. ASSUME NEW j \in 1..i PROVE Covers(s, j, i) <=> Covers(t, j, i)
      <4>1. s[j] = t[j] /\ \A k \in j + 1..i : s[k] = t[k]
        OBVIOUS
      <4> QED
        BY <4>1 DEF Covers
    <3> QED
      BY <3>1
  <2>2. s[i] = t[i]
    OBVIOUS
  <2>3. WholeBy(s, i, n) <=> WholeBy(t, i, n)
    <3> DEFINE e == i + Tails(s[i])
    <3>1. e \in Nat
      BY TailsIs
    <3>2. e <= n => \A k \in i + 1..e : s[k] = t[k]
      BY <3>1
    <3> QED
      BY <2>2, <3>2 DEF WholeBy, Covers
  <2>4. Whole(s, i) <=> Whole(t, i)
    BY <1>1, <2>3, WholeIs
  <2> QED
    BY <2>1, <2>2, <2>4 DEF UnitAt
<1>3. [i \in 1..n |-> UnitAt(s, i)] = [i \in 1..n |-> UnitAt(t, i)]
  BY <1>2
<1> QED
  BY <1>3 DEF Upto

LEMMA SettledNow ==
  ASSUME NEW s \in Seq(AllBytes), NEW x \in Seq(AllBytes), NEW n \in 0..Len(s), Settled(s, n)
  PROVE  Settled(s \o x, n) /\ Upto(s \o x, n) = Upto(s, n)
<1>1. /\ s \o x \in Seq(AllBytes) /\ Len(s \o x) >= Len(s)
      /\ \A i \in 1..Len(s) : (s \o x)[i] = s[i]
  OBVIOUS
<1> DEFINE t == s \o x
<1>2. t \in Seq(AllBytes) /\ Len(t) >= Len(s) /\ \A i \in 1..Len(s) : t[i] = s[i]
  BY <1>1
<1> HIDE DEF t
<1>3. Settled(t, n)
  <2>1. ASSUME NEW j \in 1..n
        PROVE  \/ j + Tails(t[j]) <= n
               \/ \E k \in j + 1..n + 1 : k <= Len(t) /\ t[k] # "tail"
    <3>1. t[j] = s[j]
      BY <1>2
    <3>2. CASE j + Tails(s[j]) <= n
      BY <3>1, <3>2
    <3>3. ASSUME NEW k \in j + 1..n + 1, k <= Len(s), s[k] # "tail"
          PROVE  k <= Len(t) /\ t[k] # "tail"
      BY <1>2, <3>3
    <3> QED
      BY <3>2, <3>3 DEF Settled
  <2> QED
    BY <2>1 DEF Settled
<1>4. Upto(t, n) = Upto(s, n)
  <2>1. n <= Len(t) /\ \A i \in 1..n : s[i] = t[i]
    BY <1>2
  <2> QED
    BY <1>2, <1>3, <2>1, UptoSame
<1> QED
  BY <1>3, <1>4 DEF t

\* What FirstUnit finds: h bytes that go on with the first one.
Reads(s, h) ==
  /\ h \in 0..Tails(s[1]) /\ h < Len(s)
  /\ \A i \in 1..h : s[i + 1] = "tail"
  /\ h = Tails(s[1]) \/ h + 1 = Len(s) \/ s[h + 2] # "tail"

LEMMA FirstUnitIs ==
  ASSUME NEW s \in Seq(AllBytes), s # <<>>
  PROVE  \E h \in 0..2 :
           /\ Reads(s, h)
           /\ FirstUnit(s) =
                IF s[1] \in {"tail", "bad"} THEN [is |-> "invalid", len |-> h + 1]
                ELSE IF h = Tails(s[1])
                     THEN [is |-> IF h > 0 THEN "char" ELSE s[1], len |-> h + 1]
                ELSE IF h + 1 = Len(s) THEN [is |-> "partial", len |-> 0]
                ELSE [is |-> "invalid", len |-> h + 1]
<1> DEFINE want == Tails(s[1])
           Fits(n) == /\ n < Len(s) /\ \A i \in 1..n : s[i + 1] = "tail"
                      /\ n = want \/ n + 1 = Len(s) \/ s[n + 2] # "tail"
           have == CHOOSE n \in 0..want : Fits(n)
<1>1. want \in 0..2 /\ Len(s) \in Nat /\ Len(s) >= 1
  BY TailsIs
<1>2. \E n \in 0..want : Fits(n)
  <2>1. CASE want = 0 \/ Len(s) = 1 \/ s[2] # "tail"
    <3>1. Fits(0)
      BY <1>1, <2>1
    <3> QED
      BY <1>1, <3>1
  <2>2. CASE want # 0 /\ Len(s) # 1 /\ s[2] = "tail" /\ (want = 1 \/ Len(s) = 2 \/ s[3] # "tail")
    <3>1. \A i \in 1..1 : s[i + 1] = "tail"
      <4>1. \A i \in 1..1 : i = 1
        OBVIOUS
      <4>2. s[1 + 1] = "tail"
        BY <2>2
      <4> QED
        BY <4>1, <4>2
    <3>2. 1 < Len(s) /\ 1 \in 0..want
      <4>1. \A x \in 0..2 : x # 0 => 1 \in 0..x
        OBVIOUS
      <4>2. \A y \in Nat : y >= 1 /\ y # 1 => 1 < y
        OBVIOUS
      <4> QED
        BY <1>1, <2>2, <4>1, <4>2, Zenon
    <3>3. 1 = want \/ 1 + 1 = Len(s) \/ s[1 + 2] # "tail"
      BY <2>2
    <3> QED
      BY <3>1, <3>2, <3>3
  <2>3. CASE want # 0 /\ Len(s) # 1 /\ s[2] = "tail" /\ want # 1 /\ Len(s) # 2 /\ s[3] = "tail"
    <3>1. want = 2 /\ Len(s) > 2
      <4>1. \A x \in 0..2 : x # 0 /\ x # 1 => x = 2
        OBVIOUS
      <4>2. \A y \in Nat : y >= 1 /\ y # 1 /\ y # 2 => y > 2
        OBVIOUS
      <4> QED
        BY <1>1, <2>3, <4>1, <4>2, Zenon
    <3>2. \A i \in 1..2 : s[i + 1] = "tail"
      <4>1. \A i \in 1..2 : i = 1 \/ i = 2
        OBVIOUS
      <4>2. s[1 + 1] = "tail" /\ s[2 + 1] = "tail"
        BY <2>3
      <4> QED
        BY <4>1, <4>2
    <3>3. Fits(2)
      BY <3>1, <3>2
    <3> QED
      BY <3>1, <3>3
  <2> QED
    BY <2>1, <2>2, <2>3
<1>3. have \in 0..want /\ Fits(have)
  BY <1>2
<1>4. FirstUnit(s) =
        CASE s[1] \in {"tail", "bad"} -> [is |-> "invalid", len |-> 1]
          [] s[1] \notin {"tail", "bad"} /\ have = want ->
               [is |-> IF want > 0 THEN "char" ELSE s[1], len |-> want + 1]
          [] have # want /\ have + 1 = Len(s) -> [is |-> "partial", len |-> 0]
          [] OTHER -> [is |-> "invalid", len |-> have + 1]
  BY DEF FirstUnit
<1>5. s[1] \in {"tail", "bad"} => want = 0
  BY DEF Tails
<1> DEFINE w == want
<1>6. w = Tails(s[1])
  OBVIOUS
<1> HIDE DEF have, w
<1>7. have \in 0..2
  BY <1>1, <1>3
<1>8. Reads(s, have)
  BY <1>3 DEF Reads
<1>9. s[1] \in {"tail", "bad"} => have = 0
  BY <1>3, <1>5
<1>10. FirstUnit(s) =
         IF s[1] \in {"tail", "bad"} THEN [is |-> "invalid", len |-> have + 1]
         ELSE IF have = want
              THEN [is |-> IF have > 0 THEN "char" ELSE s[1], len |-> have + 1]
         ELSE IF have + 1 = Len(s) THEN [is |-> "partial", len |-> 0]
         ELSE [is |-> "invalid", len |-> have + 1]
  <2>1. CASE s[1] \in {"tail", "bad"}
    <3>1. have = 0
      BY <1>9, <2>1
    <3>2. have + 1 = 1
      BY <3>1
    <3>3. have = want
      BY <1>5, <2>1, <3>1
    <3> QED
      BY <1>4, <2>1, <3>2, <3>3
  <2>2. CASE s[1] \notin {"tail", "bad"}
    BY <1>4, <2>2
  <2> QED
    BY <2>1, <2>2
<1> QED
  BY <1>7, <1>8, <1>10

\* After a place where it may be cut, a text goes on with one character or one
\* replacement, and the bytes that belong to it yield nothing of their own.
LEMMA NextUnit ==
  ASSUME NEW s \in Seq(AllBytes), NEW n \in 0..Len(s) - 1, Settled(s, n),
         NEW r, r = SubSeq(s, n + 1, Len(s)), NEW h \in 0..2, Reads(r, h)
  PROVE  /\ n + 1 + h <= Len(s)
         /\ Upto(s, n + 1 + h) = Upto(s, n) \o UnitAt(s, n + 1)
         /\ UnitAt(s, n + 1) =
              IF s[n + 1] \notin {"tail", "bad"} /\ h = Tails(s[n + 1])
              THEN <<IF h > 0 THEN "char" ELSE s[n + 1]>> ELSE <<"replacement">>
         /\ h = Tails(s[n + 1]) \/ h + 1 < Len(r) => Settled(s, n + 1 + h)
<1> DEFINE b == n + 1
           m == Len(s)
<1>1. n \in Nat /\ b \in 1..m /\ m \in Nat /\ b = n + 1
  OBVIOUS
<1>2. /\ r \in Seq(AllBytes) /\ Len(r) = m - n
      /\ \A i \in 1..m - n : r[i] = s[n + i]
  OBVIOUS
<1>3. r[1] = s[b] /\ Len(r) \in Nat
  BY <1>1, <1>2
<1> HIDE DEF b, m
<1>4. h <= Tails(s[b]) /\ h < m - n
  BY <1>2, <1>3 DEF Reads
<1>5. \A i \in 1..h : s[b + i] = "tail"
  <2>1. ASSUME NEW i \in 1..h PROVE s[b + i] = "tail"
    <3>1. r[i + 1] = "tail"
      BY DEF Reads
    <3>2. i + 1 \in 1..m - n
      BY <1>1, <1>4
    <3>3. r[i + 1] = s[n + (i + 1)] /\ n + (i + 1) = b + i
      BY <1>1, <1>2, <3>2
    <3> QED
      BY <3>1, <3>3
  <2> QED
    BY <2>1
<1>6. h = Tails(s[b]) \/ b + h = m \/ (b + h < m /\ s[b + h + 1] # "tail")
  <2>1. CASE h + 1 = Len(r)
    BY <1>1, <1>2, <2>1
  <2>2. CASE h + 1 # Len(r) /\ r[h + 2] # "tail"
    <3>1. h + 2 \in 1..m - n
      BY <1>1, <1>2, <1>4, <2>2
    <3>2. r[h + 2] = s[n + (h + 2)] /\ n + (h + 2) = b + h + 1
      BY <1>1, <1>2, <3>1
    <3>3. b + h < m
      BY <1>1, <3>1
    <3> QED
      BY <2>2, <3>2, <3>3
  <2> QED
    BY <1>3, <2>1, <2>2 DEF Reads
<1>7. s[b] \in AllBytes /\ Tails(s[b]) \in 0..2
  BY <1>1, TailsIs DEF m
<1>8. b + h <= m
  BY <1>1, <1>4
\* Nothing before reaches the byte at b.
<1>9. \A j \in 1..b - 1 : ~ Covers(s, j, b)
  <2>1. ASSUME NEW j \in 1..b - 1, Covers(s, j, b) PROVE FALSE
    <3>1. j \in 1..n
      BY <1>1
    <3>2. b <= j + Tails(s[j]) /\ \A k \in j + 1..b : s[k] = "tail"
      BY <2>1 DEF Covers
    <3>3. Tails(s[j]) \in 0..2
      BY TailsIs
    <3>4. ~ (j + Tails(s[j]) <= n)
      BY <1>1, <3>2, <3>3
    <3>5. PICK k \in j + 1..n + 1 : s[k] # "tail"
      BY <3>1, <3>4 DEF Settled
    <3> QED
      BY <1>1, <3>2, <3>5
  <2> QED
    BY <2>1
<1>10. s[b] \notin {"tail", "bad"} => (Whole(s, b) <=> h = Tails(s[b]))
  <2>1. ASSUME h = Tails(s[b]) PROVE Whole(s, b)
    <3>1. \A k \in b + 1..b + h : s[k] = "tail"
      <4>1. ASSUME NEW k \in b + 1..b + h PROVE s[k] = "tail"
        <5>1. k - b \in 1..h /\ b + (k - b) = k
          BY <1>1
        <5> QED
          BY <1>5, <5>1
      <4> QED
        BY <4>1
    <3>2. b + h <= m /\ b + h <= b + h
      BY <1>1, <1>8
    <3> QED
      BY <2>1, <3>1, <3>2 DEF Whole, Covers, m
  <2>2. ASSUME h # Tails(s[b]), Whole(s, b) PROVE FALSE
    <3>1. b + Tails(s[b]) <= m /\ \A k \in b + 1..b + Tails(s[b]) : s[k] = "tail"
      BY <2>2 DEF Whole, Covers, m
    <3>2. b + h < m /\ s[b + h + 1] # "tail"
      BY <1>1, <1>4, <1>6, <1>7, <2>2, <3>1
    <3>3. b + h + 1 \in b + 1..b + Tails(s[b])
      BY <1>1, <1>4, <1>7, <2>2
    <3> QED
      BY <3>1, <3>2, <3>3
  <2> QED
    BY <2>1, <2>2
<1>11. UnitAt(s, b) =
         IF s[b] \notin {"tail", "bad"} /\ h = Tails(s[b])
         THEN <<IF h > 0 THEN "char" ELSE s[b]>> ELSE <<"replacement">>
  <2>1. CASE s[b] = "tail"
    BY <1>9, <2>1 DEF UnitAt
  <2>2. CASE s[b] # "tail"
    <3>1. h = Tails(s[b]) => (Tails(s[b]) > 0 <=> h > 0)
      OBVIOUS
    <3> QED
      BY <1>10, <2>2, <3>1 DEF UnitAt
  <2> QED
    BY <2>1, <2>2
\* The bytes after it are part of it.
<1>12. \A i \in 1..h : UnitAt(s, b + i) = <<>>
  <2>1. ASSUME NEW i \in 1..h PROVE UnitAt(s, b + i) = <<>>
    <3>1. s[b + i] = "tail"
      BY <1>5
    <3>2. Covers(s, b, b + i)
      <4>1. b + i <= b + Tails(s[b])
        BY <1>1, <1>4, <1>7
      <4>2. ASSUME NEW k \in b + 1..b + i PROVE s[k] = "tail"
        <5>1. k - b \in 1..h /\ b + (k - b) = k
          BY <1>1
        <5> QED
          BY <1>5, <5>1
      <4> QED
        BY <4>1, <4>2 DEF Covers
    <3>3. b \in 1..b + i - 1
      BY <1>1
    <3> QED
      BY <3>1, <3>2, <3>3 DEF UnitAt
  <2> QED
    BY <2>1
<1>13. Upto(s, b + h) = Upto(s, n) \o UnitAt(s, b)
  <2>1. Upto(s, b) = Upto(s, n) \o UnitAt(s, b) /\ Upto(s, b) \in Seq(Glyphs)
    BY <1>1, UptoSteps DEF m, b
  <2>2. \A i \in 0..h - 1 : Upto(s, b + i + 1) = Upto(s, b + i)
    <3>1. ASSUME NEW i \in 0..h - 1 PROVE Upto(s, b + i + 1) = Upto(s, b + i)
      <4>1. b + i \in 0..m - 1 /\ b + i \in 0..m
        BY <1>1, <1>8
      <4>2. Upto(s, b + i + 1) = Upto(s, b + i) \o UnitAt(s, b + i + 1)
        BY <4>1, UptoSteps DEF m
      <4>3. i + 1 \in 1..h /\ b + (i + 1) = b + i + 1
        BY <1>1
      <4>4. UnitAt(s, b + i + 1) = <<>>
        BY <1>12, <4>3
      <4>5. Upto(s, b + i) \in Seq(Glyphs)
        BY <4>1, UptoSteps DEF m
      <4> QED
        BY <4>2, <4>4, <4>5
    <3> QED
      BY <3>1
  <2>3. CASE h = 0
    BY <1>1, <2>1, <2>3
  <2>4. CASE h = 1
    <3>1. Upto(s, b + 0 + 1) = Upto(s, b + 0)
      BY <2>2, <2>4
    <3>2. b + 0 + 1 = b + h /\ b + 0 = b
      BY <1>1, <2>4
    <3> QED
      BY <2>1, <3>1, <3>2
  <2>5. CASE h = 2
    <3>1. Upto(s, b + 0 + 1) = Upto(s, b + 0) /\ Upto(s, b + 1 + 1) = Upto(s, b + 1)
      BY <2>2, <2>5
    <3>2. b + 0 + 1 = b + 1 /\ b + 0 = b /\ b + 1 + 1 = b + h
      BY <1>1, <2>5
    <3> QED
      BY <2>1, <3>1, <3>2
  <2> QED
    BY <2>3, <2>4, <2>5
<1>14. ASSUME h = Tails(s[b]) \/ h + 1 < Len(r) PROVE Settled(s, b + h)
  <2>1. ASSUME NEW j \in 1..b + h
        PROVE  \/ j + Tails(s[j]) <= b + h
               \/ \E k \in j + 1..b + h + 1 : k <= Len(s) /\ s[k] # "tail"
    <3>1. Tails(s[j]) \in 0..2
      BY TailsIs
    <3>2. CASE j \in 1..n
      <4>1. CASE j + Tails(s[j]) <= n
        BY <1>1, <3>1, <4>1
      <4>2. ASSUME NEW k \in j + 1..n + 1, k <= Len(s), s[k] # "tail"
            PROVE  k \in j + 1..b + h + 1
        BY <1>1
      <4> QED
        BY <3>2, <4>1, <4>2 DEF Settled
    <3>3. CASE j = b
      <4>1. CASE h = Tails(s[b])
        BY <1>1, <3>3, <4>1
      <4>2. CASE h # Tails(s[b])
        <5>1. b + h # m
          BY <1>1, <1>2, <1>14, <4>2
        <5>2. b + h + 1 <= m /\ s[b + h + 1] # "tail" /\ b + h + 1 \in j + 1..b + h + 1
          BY <1>1, <1>6, <3>3, <4>2, <5>1
        <5> QED
          BY <5>2 DEF m
      <4> QED
        BY <4>1, <4>2
    <3>4. CASE j > b
      <4>1. j - b \in 1..h /\ b + (j - b) = j
        BY <1>1, <3>4
      <4>2. s[j] = "tail"
        BY <1>5, <4>1
      <4>3. Tails(s[j]) = 0
        BY <4>2 DEF Tails
      <4> QED
        BY <1>1, <4>3
    <3> QED
      BY <1>1, <3>2, <3>3, <3>4
  <2> QED
    BY <2>1 DEF Settled
<1> QED
  BY <1>8, <1>11, <1>13, <1>14 DEF b, m

------------------------------------------------------------------------------
(* Characters and lines *)

LEMMA GlyphSeqs ==
  /\ <<>> \in Seq(Glyphs)
  /\ \A g \in Glyphs : <<g>> \in Seq(Glyphs)
  /\ {"newline", "escape", "warning", "lf", "cr", "replacement", "char"} \subseteq Glyphs
BY DEF Glyphs, AllBytes

LEMMA ShownType ==
  ASSUME NEW cs \in Seq(Glyphs), NEW i \in 1..Len(cs)
  PROVE  ShownAt(cs, i) \in Seq(Glyphs)
<1>1. cs[i] \in Glyphs
  OBVIOUS
<1> QED
  BY <1>1, GlyphSeqs DEF ShownAt

\* One more character shows as it would after the last one.
LEMMA LinesStep ==
  ASSUME NEW cs \in Seq(Glyphs), NEW c \in Glyphs
  PROVE  /\ Lines(cs) \in Seq(Glyphs) /\ Lines(<<>>) = <<>>
         /\ Lines(Append(cs, c)) =
              Lines(cs) \o (CASE c = "cr" -> <<"newline">>
                              [] c = "lf" -> IF cs # <<>> /\ cs[Len(cs)] = "cr" THEN <<>> ELSE <<"newline">>
                              [] c = "control" -> <<"escape">>
                              [] OTHER -> <<c>>)
<1> DEFINE t == Append(cs, c)
           n == Len(cs)
           e == [i \in 1..n + 1 |-> ShownAt(t, i)]
<1>1. /\ t \in Seq(Glyphs) /\ Len(t) = n + 1 /\ n \in Nat /\ t[n + 1] = c
      /\ \A i \in 1..n : t[i] = cs[i]
  OBVIOUS
<1> HIDE DEF t
<1>2. \A i \in 1..n + 1 : e[i] = ShownAt(t, i) /\ e[i] \in Seq(Glyphs)
  BY <1>1, ShownType
<1>3. [i \in 1..n + 1 |-> e[i]] = [i \in 1..Len(t) |-> ShownAt(t, i)]
  BY <1>1
<1>4. [i \in 1..n |-> e[i]] = [i \in 1..n |-> ShownAt(cs, i)]
  <2>1. ASSUME NEW i \in 1..n PROVE e[i] = ShownAt(cs, i)
    <3>1. e[i] = ShownAt(t, i) /\ t[i] = cs[i] /\ (i > 1 => t[i - 1] = cs[i - 1])
      BY <1>1
    <3> HIDE DEF e
    <3> QED
      BY <3>1 DEF ShownAt
  <2> HIDE DEF e
  <2> QED
    BY <2>1
<1> HIDE DEF e
<1>5. FlattenSeq([i \in 1..n + 1 |-> e[i]]) = FlattenSeq([i \in 1..n |-> e[i]]) \o e[n + 1]
  BY <1>1, <1>2, FlattenAppend
<1>6. n + 1 \in 1..n + 1 /\ n \in 0..n + 1
  BY <1>1
<1>7. FlattenSeq([i \in 1..n |-> e[i]]) \in Seq(Glyphs)
  <2>1. n + 1 \in Nat
    BY <1>1
  <2> QED
    BY <1>2, <1>6, <2>1, FlattenType
<1>8. e[n + 1] = ShownAt(t, n + 1)
  BY <1>2, <1>6
<1>9. ShownAt(t, n + 1) =
        CASE c = "cr" -> <<"newline">>
          [] c = "lf" -> IF cs # <<>> /\ cs[n] = "cr" THEN <<>> ELSE <<"newline">>
          [] c = "control" -> <<"escape">>
          [] OTHER -> <<c>>
  <2>1. n + 1 > 1 <=> cs # <<>>
    BY <1>1
  <2>2. n + 1 - 1 = n
    BY <1>1
  <2>3. n + 1 > 1 => t[n] = cs[n]
    BY <1>1
  <2> QED
    BY <1>1, <2>1, <2>2, <2>3 DEF ShownAt
<1>10. Lines(<<>>) = <<>>
  <2>1. Len(<<>>) = 0
    OBVIOUS
  <2>2. [i \in 1..0 |-> ShownAt(<<>>, i)] = <<>>
    OBVIOUS
  <2>3. FlattenSeq(<<>>) = <<>>
    BY <2>1 DEF FlattenSeq
  <2> QED
    BY <2>1, <2>2, <2>3 DEF Lines
<1>11. Lines(t) = Lines(cs) \o e[n + 1] /\ Lines(cs) \in Seq(Glyphs)
  BY <1>3, <1>4, <1>5, <1>7 DEF Lines
<1> QED
  BY <1>8, <1>9, <1>10, <1>11 DEF t

\* One more character is announced if it is the first replacement.
LEMMA AnnouncedStep ==
  ASSUME NEW cs \in Seq(Glyphs), NEW c \in Glyphs
  PROVE  /\ Announced(cs) \in Seq(Glyphs) /\ Announced(<<>>) = <<>>
         /\ Contains(Append(cs, c), "replacement") <=> Contains(cs, "replacement") \/ c = "replacement"
         /\ Announced(Append(cs, c)) =
              Append(IF c = "replacement" /\ ~ Contains(cs, "replacement")
                     THEN Append(Append(Announced(cs), "warning"), "lf") ELSE Announced(cs), c)
<1> DEFINE t == Append(cs, c)
           n == Len(cs)
           First(s, i) == s[i] = "replacement" /\ \A j \in 1..i - 1 : s[j] # "replacement"
           at(s) == CHOOSE i \in 1..Len(s) : First(s, i)
<1>1. /\ t \in Seq(Glyphs) /\ Len(t) = n + 1 /\ n \in Nat /\ t[n + 1] = c
      /\ \A i \in 1..n : t[i] = cs[i]
  OBVIOUS
<1> HIDE DEF t
<1>2. Contains(t, "replacement") <=> Contains(cs, "replacement") \/ c = "replacement"
  <2>1. \A i \in 1..n + 1 : i \in 1..n \/ i = n + 1
    BY <1>1
  <2>2. \A i \in 1..n : i \in 1..n + 1
    BY <1>1
  <2>3. n + 1 \in 1..n + 1
    BY <1>1
  <2> QED
    BY <1>1, <2>1, <2>2, <2>3, Zenon DEF Contains
<1>3. \A s \in Seq(Glyphs) : Contains(s, "replacement") => at(s) \in 1..Len(s) /\ First(s, at(s))
  <2>1. ASSUME NEW s \in Seq(Glyphs), Contains(s, "replacement")
        PROVE  at(s) \in 1..Len(s) /\ First(s, at(s))
    <3> DEFINE T == {i \in 1..Len(s) : s[i] = "replacement"}
    <3>1. T \in SUBSET Nat /\ T # {}
      BY <2>1 DEF Contains
    <3> HIDE DEF T
    <3>2. PICK i \in T : \A j \in T : i <= j
      BY <3>1, LeastNumber
    <3>3. i \in 1..Len(s) /\ s[i] = "replacement"
      BY <3>2 DEF T
    <3>4. \A j \in 1..i - 1 : s[j] # "replacement"
      <4>1. ASSUME NEW j \in 1..i - 1, s[j] = "replacement" PROVE FALSE
        <5>1. j \in 1..Len(s) /\ ~ (i <= j)
          BY <3>3
        <5>2. j \in T
          BY <4>1, <5>1 DEF T
        <5> QED
          BY <3>2, <5>1, <5>2
      <4> QED
        BY <4>1
    <3>5. First(s, i)
      BY <3>3, <3>4
    <3> HIDE DEF First
    <3> QED
      BY <3>3, <3>5
  <2> HIDE DEF at, First
  <2> QED
    BY <2>1
<1>4. \A s : Announced(s) =
        IF ~ Contains(s, "replacement") THEN s
        ELSE SubSeq(s, 1, at(s) - 1) \o <<"warning", "lf">> \o SubSeq(s, at(s), Len(s))
  BY DEF Announced
<1> HIDE DEF at
<1>5. <<"warning", "lf">> \in Seq(Glyphs)
  BY GlyphSeqs
<1>6. Announced(cs) \in Seq(Glyphs)
  <2>1. CASE ~ Contains(cs, "replacement")
    BY <1>4, <2>1
  <2>2. CASE Contains(cs, "replacement")
    <3>1. at(cs) \in 1..n
      BY <1>3, <2>2
    <3>2. SubSeq(cs, 1, at(cs) - 1) \in Seq(Glyphs) /\ SubSeq(cs, at(cs), n) \in Seq(Glyphs)
      BY <3>1
    <3>3. Announced(cs) = SubSeq(cs, 1, at(cs) - 1) \o <<"warning", "lf">> \o SubSeq(cs, at(cs), n)
      BY <1>4, <2>2
    <3> QED
      BY <1>5, <3>2, <3>3, ConcatProperties
  <2> QED
    BY <2>1, <2>2
<1>7. Announced(<<>>) = <<>>
  <2>1. ~ Contains(<<>>, "replacement")
    BY DEF Contains
  <2> QED
    BY <1>4, <2>1
<1>8. CASE ~ Contains(t, "replacement")
  <2>1. ~ Contains(cs, "replacement") /\ c # "replacement"
    BY <1>2, <1>8
  <2>2. Announced(t) = t /\ Announced(cs) = cs
    BY <1>4, <1>8, <2>1
  <2> QED
    BY <1>2, <1>6, <1>7, <2>1, <2>2 DEF t
<1>9. CASE Contains(cs, "replacement")
  <2>1. Contains(t, "replacement")
    BY <1>2, <1>9
  <2>2. at(cs) \in 1..n /\ First(cs, at(cs)) /\ at(t) \in 1..n + 1 /\ First(t, at(t))
    BY <1>1, <1>3, <1>9, <2>1
  <2>3. at(t) = at(cs)
    <3>1. t[at(cs)] = "replacement"
      BY <1>1, <2>2
    <3>2. ~ (at(cs) < at(t))
      <4>1. at(cs) < at(t) => at(cs) \in 1..at(t) - 1
        BY <1>1, <2>2
      <4> QED
        BY <2>2, <3>1, <4>1
    <3>3. ~ (at(t) < at(cs))
      <4>1. at(t) < at(cs) => at(t) \in 1..at(cs) - 1 /\ t[at(t)] = cs[at(t)]
        BY <1>1, <2>2
      <4> QED
        BY <2>2, <4>1
    <3> QED
      BY <1>1, <2>2, <3>2, <3>3
  <2> DEFINE k == at(cs)
  <2>4. k \in 1..n
    BY <2>2
  <2> HIDE DEF k
  <2>5. SubSeq(t, 1, k - 1) = SubSeq(cs, 1, k - 1)
    BY <1>1, <2>4
  <2>6. SubSeq(t, k, n + 1) = Append(SubSeq(cs, k, n), c)
    <3>1. k \in 1..n + 1 /\ n + 1 \in k..n + 1
      BY <1>1, <2>4
    <3>2. SubSeq(t, k, n + 1) = SubSeq(t, k, n + 1 - 1) \o <<t[n + 1]>>
      BY <1>1, <3>1, SubSeqRecursiveSecond
    <3>3. SubSeq(t, k, n + 1 - 1) = SubSeq(cs, k, n)
      BY <1>1, <2>4
    <3>4. SubSeq(cs, k, n) \in Seq(Glyphs)
      BY <1>1, <2>4
    <3>5. SubSeq(cs, k, n) \o <<c>> = Append(SubSeq(cs, k, n), c)
      BY <3>4, AppendIsConcat
    <3>6. t[n + 1] = c
      BY <1>1
    <3> HIDE DEF n
    <3> QED
      BY <3>2, <3>3, <3>5, <3>6, Zenon
  <2> DEFINE x == SubSeq(cs, 1, k - 1)
             y == SubSeq(cs, k, n)
             w == <<"warning", "lf">>
  <2>7. x \in Seq(Glyphs) /\ y \in Seq(Glyphs)
    BY <2>4
  <2>8. Announced(cs) = x \o w \o y
    BY <1>4, <1>9 DEF k
  <2>9. Announced(t) = x \o w \o Append(y, c)
    BY <1>1, <1>4, <2>1, <2>3, <2>5, <2>6 DEF k
  <2> HIDE DEF x, y, w
  <2>10. x \o w \in Seq(Glyphs)
    BY <1>5, <2>7, ConcatProperties DEF w
  <2>11. (x \o w) \o Append(y, c) = Append((x \o w) \o y, c)
    <3> DEFINE z == x \o w
    <3>1. z \in Seq(Glyphs)
      BY <2>10
    <3> HIDE DEF z
    <3>2. z \o Append(y, c) = Append(z \o y, c)
      BY <2>7, <3>1
    <3> QED
      BY <3>2 DEF z
  <2>12. Announced(t) = Append(Announced(cs), c)
    BY <2>8, <2>9, <2>11
  <2> QED
    BY <1>2, <1>6, <1>7, <1>9, <2>12 DEF t
<1>10. CASE Contains(t, "replacement") /\ ~ Contains(cs, "replacement")
  <2>1. c = "replacement"
    BY <1>2, <1>10
  <2>2. at(t) \in 1..n + 1 /\ t[at(t)] = "replacement"
    BY <1>1, <1>3, <1>10
  <2>3. at(t) = n + 1
    <3>1. at(t) \in 1..n => cs[at(t)] = "replacement"
      BY <1>1, <2>2
    <3>2. at(t) \notin 1..n
      BY <1>10, <3>1 DEF Contains
    <3> QED
      BY <1>1, <2>2, <3>2
  <2>4. Announced(t) = SubSeq(t, 1, at(t) - 1) \o <<"warning", "lf">> \o SubSeq(t, at(t), Len(t))
    BY <1>4, <1>10
  <2>5. SubSeq(t, 1, at(t) - 1) = cs
    <3>1. \A k : k = n + 1 => SubSeq(t, 1, k - 1) = cs
      BY <1>1
    <3> QED
      BY <2>3, <3>1
  <2>6. SubSeq(t, at(t), Len(t)) = <<c>>
    <3>1. n + 1 \in 1..n + 1 /\ n + 1 \in n + 1..n + 1
      BY <1>1
    <3>2. SubSeq(t, n + 1, n + 1) = <<t[n + 1]>> \o SubSeq(t, n + 1 + 1, n + 1)
      BY <1>1, <3>1, SubSeqRecursiveFirst
    <3>3. SubSeq(t, n + 1 + 1, n + 1) = <<>>
      BY <1>1
    <3>4. <<c>> \o <<>> = <<c>>
      OBVIOUS
    <3>5. t[n + 1] = c /\ Len(t) = n + 1
      BY <1>1
    <3> HIDE DEF n
    <3> QED
      BY <2>3, <3>2, <3>3, <3>4, <3>5, Zenon
  <2>7. Announced(cs) = cs
    BY <1>4, <1>10
  <2>8. cs \o <<"warning", "lf">> \o <<c>> = Append(Append(Append(cs, "warning"), "lf"), c)
    <3>1. cs \o <<"warning", "lf">> = Append(Append(cs, "warning"), "lf")
      BY GlyphSeqs
    <3>2. Append(Append(cs, "warning"), "lf") \in Seq(Glyphs)
      BY GlyphSeqs
    <3>3. \A z \in Seq(Glyphs) : z \o <<c>> = Append(z, c)
      OBVIOUS
    <3> QED
      BY <3>1, <3>2, <3>3
  <2>9. Announced(t) = Append(Append(Append(Announced(cs), "warning"), "lf"), c)
    BY <2>4, <2>5, <2>6, <2>7, <2>8
  <2> QED
    BY <1>2, <1>6, <1>7, <1>10, <2>1, <2>9 DEF t
<1> QED
  BY <1>2, <1>8, <1>9, <1>10

------------------------------------------------------------------------------
(* The projection *)

Projections ==
  [utf8 : Seq(AllBytes), cr : BOOLEAN, warned : BOOLEAN, out : Seq(Glyphs),
   wrote : BOOLEAN, newline : BOOLEAN]

\* q is p but for its last carriage return and what it has written.
OnlyWrites(p, q) ==
  /\ q \in Projections /\ q.utf8 = p.utf8 /\ q.warned = p.warned
  /\ q.wrote = p.wrote /\ q.newline = p.newline

\* With base before it, p has written the lines of cs.
Tells(p, base, cs) ==
  /\ cs \in Seq(Glyphs) /\ base \in Seq(Glyphs)
  /\ p.cr <=> cs # <<>> /\ cs[Len(cs)] = "cr"
  /\ Lines(cs) = (base \o p.out) \o (IF p.cr THEN <<"newline">> ELSE <<>>)

LEMMA ProjectCharIs ==
  ASSUME NEW p \in Projections, NEW c \in Glyphs
  PROVE  LET q == ProjectChar(p, c)
             held == IF p.cr THEN <<"newline">> ELSE <<>>
             now == CASE c = "cr" -> <<>>
                      [] c = "lf" -> IF p.cr THEN <<>> ELSE <<"newline">>
                      [] c = "control" -> <<"escape">>
                      [] OTHER -> <<c>>
         IN /\ OnlyWrites(p, q) /\ (q.cr <=> c = "cr")
            /\ q.out = (p.out \o held) \o now
<1> DEFINE r == IF p.cr THEN [p EXCEPT !.cr = FALSE, !.out = Append(@, "newline")] ELSE p
           held == IF p.cr THEN <<"newline">> ELSE <<>>
           q == ProjectChar(p, c)
<1>1. /\ p.out \in Seq(Glyphs) /\ p.cr \in BOOLEAN /\ p.utf8 \in Seq(AllBytes)
      /\ p.warned \in BOOLEAN /\ p.wrote \in BOOLEAN /\ p.newline \in BOOLEAN
  BY DEF Projections
<1>2. OnlyWrites(p, r) /\ ~ r.cr /\ r.out = p.out \o held
  <2>1. CASE p.cr
    <3> DEFINE o == Append(p.out, "newline")
    <3>1. o \in Seq(Glyphs) /\ o = p.out \o <<"newline">>
      BY <1>1, GlyphSeqs
    <3> HIDE DEF o
    <3>2. r = [p EXCEPT !.cr = FALSE, !.out = o]
      BY <2>1 DEF o
    <3>3. /\ r \in Projections /\ r.out = o /\ r.cr = FALSE /\ r.utf8 = p.utf8
          /\ r.warned = p.warned /\ r.wrote = p.wrote /\ r.newline = p.newline
      BY <3>1, <3>2 DEF Projections
    <3> HIDE DEF r
    <3> QED
      BY <2>1, <3>1, <3>3 DEF OnlyWrites
  <2>2. CASE ~ p.cr
    BY <1>1, <2>2 DEF OnlyWrites
  <2> QED
    BY <2>1, <2>2
<1>3. q = IF p.cr /\ c = "lf" THEN r
          ELSE CASE c = "cr" -> [r EXCEPT !.cr = TRUE]
                 [] c = "lf" -> [r EXCEPT !.out = Append(@, "newline")]
                 [] c = "control" -> [r EXCEPT !.out = Append(@, "escape")]
                 [] OTHER -> [r EXCEPT !.out = Append(@, c)]
  BY DEF ProjectChar
<1> HIDE DEF q, r
<1>4. r \in Projections /\ r.out \in Seq(Glyphs) /\ r.cr \in BOOLEAN
  BY <1>2 DEF OnlyWrites, Projections
<1>5. \A g \in Glyphs : LET o == [r EXCEPT !.out = Append(@, g)]
                        IN OnlyWrites(p, o) /\ ~ o.cr /\ o.out = r.out \o <<g>>
  <2>1. ASSUME NEW g \in Glyphs
        PROVE  LET o == [r EXCEPT !.out = Append(@, g)]
               IN OnlyWrites(p, o) /\ ~ o.cr /\ o.out = r.out \o <<g>>
    <3> DEFINE a == Append(r.out, g)
               o == [r EXCEPT !.out = a]
    <3>1. a \in Seq(Glyphs) /\ a = r.out \o <<g>>
      BY <1>4
    <3> HIDE DEF a
    <3>2. /\ o \in Projections /\ o.out = a /\ o.cr = r.cr /\ o.utf8 = r.utf8
          /\ o.warned = r.warned /\ o.wrote = r.wrote /\ o.newline = r.newline
      BY <1>4, <3>1 DEF Projections
    <3> HIDE DEF o
    <3>3. OnlyWrites(p, o) /\ ~ o.cr /\ o.out = r.out \o <<g>>
      BY <1>2, <3>1, <3>2 DEF OnlyWrites
    <3> QED
      BY <3>3 DEF o, a
  <2> QED
    BY <2>1
<1>6. LET o == [r EXCEPT !.cr = TRUE] IN OnlyWrites(p, o) /\ o.cr /\ o.out = r.out
  <2> DEFINE o == [r EXCEPT !.cr = TRUE]
  <2>1. /\ o \in Projections /\ o.out = r.out /\ o.cr = TRUE /\ o.utf8 = r.utf8
        /\ o.warned = r.warned /\ o.wrote = r.wrote /\ o.newline = r.newline
    BY <1>4 DEF Projections
  <2> HIDE DEF o
  <2>2. OnlyWrites(p, o) /\ o.cr /\ o.out = r.out
    BY <1>2, <2>1 DEF OnlyWrites
  <2> QED
    BY <2>2 DEF o
<1>7. r.out \o <<>> = r.out
  BY <1>4, ConcatEmptySeq
<1>8. r.out = p.out \o held
  BY <1>2
<1> HIDE DEF held
<1>9. CASE c = "cr"
  <2>1. q = [r EXCEPT !.cr = TRUE]
    BY <1>3, <1>9
  <2>2. OnlyWrites(p, q) /\ q.cr /\ q.out = r.out
    BY <1>6, <2>1
  <2> QED
    BY <1>7, <1>8, <1>9, <2>2 DEF held, q
<1>10. CASE c = "lf"
  <2>1. CASE p.cr
    <3>1. q = r
      BY <1>3, <1>10, <2>1
    <3> QED
      BY <1>2, <1>7, <1>8, <1>10, <2>1, <3>1 DEF held, q
  <2>2. CASE ~ p.cr
    <3>1. q = [r EXCEPT !.out = Append(@, "newline")]
      BY <1>3, <1>10, <2>2
    <3>2. OnlyWrites(p, q) /\ ~ q.cr /\ q.out = r.out \o <<"newline">>
      BY <1>5, <3>1, GlyphSeqs
    <3> QED
      BY <1>8, <1>10, <2>2, <3>2 DEF held, q
  <2> QED
    BY <2>1, <2>2
<1>11. CASE c = "control"
  <2>1. q = [r EXCEPT !.out = Append(@, "escape")]
    BY <1>3, <1>11
  <2>2. OnlyWrites(p, q) /\ ~ q.cr /\ q.out = r.out \o <<"escape">>
    BY <1>5, <2>1, GlyphSeqs
  <2> QED
    BY <1>8, <1>11, <2>2 DEF held, q
<1>12. CASE c \notin {"cr", "lf", "control"}
  <2>1. q = [r EXCEPT !.out = Append(@, c)]
    BY <1>3, <1>12
  <2>2. OnlyWrites(p, q) /\ ~ q.cr /\ q.out = r.out \o <<c>>
    BY <1>5, <2>1
  <2> QED
    BY <1>8, <1>12, <2>2 DEF held, q
<1> QED
  BY <1>9, <1>10, <1>11, <1>12

LEMMA Regrouped ==
  \A a, b, c, d, e \in Seq(Glyphs) :
    ((a \o b) \o c) \o (d \o e) = (a \o ((b \o c) \o d)) \o e
<1> TAKE a, b, c, d, e \in Seq(Glyphs)
<1> DEFINE l == ((a \o b) \o c) \o (d \o e)
           r == (a \o ((b \o c) \o d)) \o e
<1>1. l \in Seq(Glyphs) /\ r \in Seq(Glyphs) /\ Len(l) = Len(r)
  OBVIOUS
<1>2. \A i \in 1..Len(l) : l[i] = r[i]
  OBVIOUS
<1> HIDE DEF l, r
<1>3. l = r
  BY <1>1, <1>2, SeqEqual
<1> QED
  BY <1>3 DEF l, r

LEMMA ProjectTells ==
  ASSUME NEW p \in Projections, NEW c \in Glyphs, NEW base, NEW cs, Tells(p, base, cs)
  PROVE  OnlyWrites(p, ProjectChar(p, c)) /\ Tells(ProjectChar(p, c), base, Append(cs, c))
<1> DEFINE q == ProjectChar(p, c)
           held == IF p.cr THEN <<"newline">> ELSE <<>>
           now == CASE c = "cr" -> <<>>
                    [] c = "lf" -> IF p.cr THEN <<>> ELSE <<"newline">>
                    [] c = "control" -> <<"escape">>
                    [] OTHER -> <<c>>
<1>1. OnlyWrites(p, q) /\ (q.cr <=> c = "cr") /\ q.out = (p.out \o held) \o now
  BY ProjectCharIs
<1>2. now \in Seq(Glyphs) /\ held \in Seq(Glyphs)
  BY GlyphSeqs
<1>3. /\ cs \in Seq(Glyphs) /\ base \in Seq(Glyphs) /\ (p.cr <=> cs # <<>> /\ cs[Len(cs)] = "cr")
      /\ Lines(cs) = (base \o p.out) \o held
  BY DEF Tells
<1>4. p.out \in Seq(Glyphs)
  BY DEF Projections
<1> DEFINE rest == IF q.cr THEN <<"newline">> ELSE <<>>
           x == CASE c = "cr" -> <<"newline">>
                  [] c = "lf" -> IF p.cr THEN <<>> ELSE <<"newline">>
                  [] c = "control" -> <<"escape">>
                  [] OTHER -> <<c>>
<1>5. Lines(Append(cs, c)) = Lines(cs) \o x
  BY <1>3, LinesStep
<1>6. x = now \o rest
  <2>1. \A z \in Seq(Glyphs) : z \o <<>> = z /\ <<>> \o z = z
    BY ConcatEmptySeq
  <2> HIDE DEF q
  <2>2. CASE c = "cr"
    <3>1. now = <<>> /\ rest = <<"newline">> /\ x = <<"newline">>
      BY <1>1, <2>2
    <3> QED
      BY <2>1, <3>1, GlyphSeqs
  <2>3. CASE c # "cr"
    <3>1. rest = <<>> /\ x = now
      BY <1>1, <2>3
    <3> HIDE DEF rest, now, x
    <3> QED
      BY <1>2, <2>1, <3>1
  <2> QED
    BY <2>2, <2>3
<1>7. rest \in Seq(Glyphs)
  BY GlyphSeqs
<1>8. Append(cs, c) \in Seq(Glyphs) /\ Append(cs, c) # <<>> /\ Append(cs, c)[Len(Append(cs, c))] = c
  BY <1>3, AppendProperties
<1> HIDE DEF q, held, now, rest, x
<1>9. ((base \o p.out) \o held) \o (now \o rest) = (base \o ((p.out \o held) \o now)) \o rest
  <2>1. base \in Seq(Glyphs) /\ now \in Seq(Glyphs) /\ held \in Seq(Glyphs)
    BY <1>2, <1>3
  <2>2. \A b, f, d, e \in Seq(Glyphs) : ((base \o b) \o f) \o (d \o e) = (base \o ((b \o f) \o d)) \o e
    BY <2>1, Regrouped, Zenon
  <2>3. \A f, d, e \in Seq(Glyphs) : ((base \o p.out) \o f) \o (d \o e) = (base \o ((p.out \o f) \o d)) \o e
    BY <1>4, <2>2, Zenon
  <2>4. \A d, e \in Seq(Glyphs) : ((base \o p.out) \o held) \o (d \o e) = (base \o ((p.out \o held) \o d)) \o e
    BY <2>1, <2>3, Zenon
  <2>5. \A e \in Seq(Glyphs) : ((base \o p.out) \o held) \o (now \o e) = (base \o ((p.out \o held) \o now)) \o e
    BY <2>1, <2>4, Zenon
  <2> QED
    BY <1>7, <2>5, Zenon
<1>10. Lines(Append(cs, c)) = (base \o q.out) \o rest
  BY <1>1, <1>3, <1>5, <1>6, <1>9
<1>11. Tells(q, base, Append(cs, c))
  BY <1>1, <1>3, <1>8, <1>10 DEF Tells, rest
<1> QED
  BY <1>1, <1>11 DEF q

\* What p remembers of the log.
Wrote(p, written) ==
  /\ p.wrote <=> written # <<>>
  /\ p.wrote => (p.newline <=> written[Len(written)] = "newline")

\* p has decoded the first n bytes of s, and holds the others.
FollowsAt(p, base, s, n) ==
  /\ p \in Projections /\ s \in Seq(AllBytes) /\ n \in 0..Len(s)
  /\ p.utf8 = SubSeq(s, n + 1, Len(s)) /\ Settled(s, n)
  /\ p.warned <=> Contains(Upto(s, n), "replacement")
  /\ Tells(p, base, Announced(Upto(s, n)))
  /\ p.cr => n >= 1 /\ s[n] = "cr"
  /\ Wrote(p, base)

\* What p holds is nothing, or the start of a character.
Waits(p) == p.utf8 = <<>> \/ FirstUnit(p.utf8).is = "partial"

LEMMA ReplacedIs ==
  ASSUME NEW p \in Projections, NEW base, NEW cs \in Seq(Glyphs),
         p.warned <=> Contains(cs, "replacement"), Tells(p, base, Announced(cs))
  PROVE  LET q == Replaced(p)
         IN /\ q \in Projections /\ q.utf8 = p.utf8 /\ q.wrote = p.wrote /\ q.newline = p.newline
            /\ q.warned /\ ~ q.cr /\ Tells(q, base, Announced(Append(cs, "replacement")))
<1> DEFINE w == Warned(p)
           as == Announced(cs)
           bs == IF Contains(cs, "replacement") THEN as ELSE Append(Append(as, "warning"), "lf")
           q == ProjectChar(w, "replacement")
<1>1. as \in Seq(Glyphs) /\ Announced(Append(cs, "replacement")) = Append(bs, "replacement")
  BY AnnouncedStep, GlyphSeqs
<1>2. /\ w \in Projections /\ w.utf8 = p.utf8 /\ w.wrote = p.wrote /\ w.newline = p.newline
      /\ w.warned /\ Tells(w, base, bs)
  <2>1. CASE p.warned
    BY <2>1 DEF Warned
  <2>2. CASE ~ p.warned
    <3> DEFINE a == [p EXCEPT !.warned = TRUE]
               b == ProjectChar(a, "warning")
               d == ProjectChar(b, "lf")
    <3>1. w = d
      BY <2>2 DEF Warned
    <3>2. bs = Append(Append(as, "warning"), "lf")
      BY <2>2
    <3>3. /\ a \in Projections /\ a.utf8 = p.utf8 /\ a.wrote = p.wrote /\ a.newline = p.newline
          /\ a.warned = TRUE /\ a.cr = p.cr /\ a.out = p.out
      BY DEF Projections
    <3> HIDE DEF a, as
    <3>4. Tells(a, base, as)
      BY <3>3 DEF Tells, as
    <3>5. OnlyWrites(a, b) /\ Tells(b, base, Append(as, "warning"))
      BY <3>3, <3>4, ProjectTells, GlyphSeqs
    <3>6. b \in Projections
      BY <3>5 DEF OnlyWrites
    <3> HIDE DEF b
    <3>7. OnlyWrites(b, d) /\ Tells(d, base, Append(Append(as, "warning"), "lf"))
      BY <3>5, <3>6, ProjectTells, GlyphSeqs
    <3> HIDE DEF d
    <3>8. /\ w \in Projections /\ w.utf8 = p.utf8 /\ w.wrote = p.wrote /\ w.newline = p.newline
          /\ w.warned
      BY <3>1, <3>3, <3>5, <3>7 DEF OnlyWrites
    <3> QED
      BY <3>1, <3>2, <3>7, <3>8
  <2> QED
    BY <2>1, <2>2
<1> HIDE DEF w, bs
<1>3. OnlyWrites(w, q) /\ Tells(q, base, Append(bs, "replacement"))
  BY <1>2, ProjectTells, GlyphSeqs
<1>4. ~ q.cr
  <2>1. q.cr <=> "replacement" = "cr"
    BY <1>2, ProjectCharIs, GlyphSeqs
  <2> HIDE DEF q
  <2> QED
    BY <2>1
<1>5. Replaced(p) = q
  BY DEF Replaced, w
<1> HIDE DEF q
<1>6. q \in Projections /\ q.utf8 = p.utf8 /\ q.wrote = p.wrote /\ q.newline = p.newline /\ q.warned
  BY <1>2, <1>3 DEF OnlyWrites
<1> QED
  BY <1>1, <1>3, <1>4, <1>5, <1>6

LEMMA SuffixOfSuffix ==
  ASSUME NEW s \in Seq(AllBytes), NEW n \in 0..Len(s), NEW j \in 0..Len(s) - n
  PROVE  SubSeq(SubSeq(s, n + 1, Len(s)), j + 1, Len(s) - n) = SubSeq(s, n + j + 1, Len(s))
<1> DEFINE k == Len(s)
           r == SubSeq(s, n + 1, k)
           y == SubSeq(r, j + 1, k - n)
           z == SubSeq(s, n + j + 1, k)
<1>1. k \in Nat /\ n \in Nat /\ j \in Nat /\ n + j <= k
  OBVIOUS
<1>2. \A i \in 1..k : s[i] \in AllBytes
  OBVIOUS
<1> HIDE DEF k
<1>3. r \in Seq(AllBytes) /\ Len(r) = k - n /\ \A i \in 1..k - n : r[i] = s[n + i]
  <2>1. n + 1 \in Int /\ \A i \in n + 1..k : s[i] \in AllBytes
    BY <1>1, <1>2
  <2> QED
    BY <1>1, <2>1, SubSeqProperties
<1> HIDE DEF r
<1>4. y \in Seq(AllBytes) /\ Len(y) = k - n - j /\ \A i \in 1..k - n - j : y[i] = r[j + i]
  <2>1. j + 1 \in Int /\ k - n \in Int /\ \A i \in j + 1..k - n : r[i] \in AllBytes
    BY <1>1, <1>3
  <2> QED
    BY <1>1, <2>1, SubSeqProperties
<1>5. z \in Seq(AllBytes) /\ Len(z) = k - n - j /\ \A i \in 1..k - n - j : z[i] = s[n + j + i]
  <2>1. n + j + 1 \in Int /\ \A i \in n + j + 1..k : s[i] \in AllBytes
    BY <1>1, <1>2
  <2> QED
    BY <1>1, <2>1, SubSeqProperties
<1> HIDE DEF y, z
<1>6. \A i \in 1..k - n - j : y[i] = z[i]
  <2>1. ASSUME NEW i \in 1..k - n - j PROVE y[i] = z[i]
    <3>1. j + i \in 1..k - n /\ n + (j + i) = n + j + i
      BY <1>1
    <3>2. r[j + i] = s[n + (j + i)]
      BY <1>3, <3>1
    <3> QED
      BY <1>4, <1>5, <3>1, <3>2
  <2> QED
    BY <2>1
<1>7. y = z
  BY <1>4, <1>5, <1>6, SeqEqual
<1> QED
  BY <1>7 DEF y, z, r, k

LEMMA RoundFollows ==
  ASSUME NEW p, NEW base, NEW s, NEW n, FollowsAt(p, base, s, n), ~ Waits(p)
  PROVE  \E m \in n + 1..Len(s) : FollowsAt(Round(p), base, s, m)
<1> DEFINE r == p.utf8
           unit == FirstUnit(r)
           cs == Upto(s, n)
<1>1. /\ p \in Projections /\ s \in Seq(AllBytes) /\ n \in 0..Len(s) /\ n \in Nat
      /\ r = SubSeq(s, n + 1, Len(s)) /\ Settled(s, n)
      /\ (p.warned <=> Contains(cs, "replacement")) /\ Tells(p, base, Announced(cs))
      /\ Wrote(p, base)
  BY DEF FollowsAt
<1>2. r # <<>> /\ unit.is # "partial"
  BY DEF Waits
<1>3. r \in Seq(AllBytes) /\ Len(r) = Len(s) - n /\ n \in 0..Len(s) - 1 /\ r[1] = s[n + 1]
  <2>1. r \in Seq(AllBytes)
    BY <1>1 DEF Projections
  <2> HIDE DEF r
  <2>2. n # Len(s)
    BY <1>1, <1>2
  <2> QED
    BY <1>1, <2>1, <2>2
<1>4. PICK h \in 0..2 :
        /\ Reads(r, h)
        /\ unit = IF r[1] \in {"tail", "bad"} THEN [is |-> "invalid", len |-> h + 1]
                  ELSE IF h = Tails(r[1])
                       THEN [is |-> IF h > 0 THEN "char" ELSE r[1], len |-> h + 1]
                  ELSE IF h + 1 = Len(r) THEN [is |-> "partial", len |-> 0]
                  ELSE [is |-> "invalid", len |-> h + 1]
  BY <1>2, <1>3, FirstUnitIs
<1> DEFINE m == n + 1 + h
           b == s[n + 1]
           rest == [p EXCEPT !.utf8 = SubSeq(@, unit.len + 1, Len(@))]
<1>5. /\ m <= Len(s) /\ Upto(s, m) = cs \o UnitAt(s, n + 1)
      /\ UnitAt(s, n + 1) = IF b \notin {"tail", "bad"} /\ h = Tails(b)
                            THEN <<IF h > 0 THEN "char" ELSE b>> ELSE <<"replacement">>
      /\ h = Tails(b) \/ h + 1 < Len(r) => Settled(s, m)
  <2> HIDE DEF r
  <2> QED
    BY <1>1, <1>3, <1>4, NextUnit
<1>6. m \in n + 1..Len(s) /\ m \in 0..Len(s)
  BY <1>1, <1>5
<1>7. cs \in Seq(Glyphs) /\ b \in AllBytes
  BY <1>1, <1>3, UptoSteps
<1>8. unit.len = h + 1
  BY <1>2, <1>4
<1>9. /\ rest \in Projections /\ rest.utf8 = SubSeq(s, m + 1, Len(s)) /\ rest.warned = p.warned
      /\ rest.cr = p.cr /\ rest.out = p.out /\ rest.wrote = p.wrote /\ rest.newline = p.newline
  <2> DEFINE x == SubSeq(r, unit.len + 1, Len(r))
  <2>1. x \in Seq(AllBytes) /\ x = SubSeq(s, m + 1, Len(s))
    <3>1. h + 1 <= Len(r)
      BY <1>3, <1>4 DEF Reads
    <3>2. x = SubSeq(r, h + 2, Len(r))
      BY <1>8
    <3>3. SubSeq(r, h + 2, Len(r)) = SubSeq(s, m + 1, Len(s))
      <4> DEFINE j == h + 1
      <4>1. j \in 0..Len(s) - n /\ j + 1 = h + 2 /\ n + j + 1 = m + 1
        BY <1>1, <1>3, <3>1
      <4> HIDE DEF j
      <4>2. SubSeq(SubSeq(s, n + 1, Len(s)), j + 1, Len(s) - n) = SubSeq(s, n + j + 1, Len(s))
        BY <1>1, <4>1, SuffixOfSuffix
      <4> HIDE DEF m, r
      <4> QED
        BY <1>1, <1>3, <4>1, <4>2
    <3>4. x \in Seq(AllBytes)
      <4> HIDE DEF r
      <4>1. SubSeq(r, h + 2, Len(r)) \in Seq(AllBytes)
        BY <1>3, <3>1
      <4> QED
        BY <3>2, <4>1, Zenon
    <3> QED
      BY <3>2, <3>3, <3>4
  <2>2. rest = [p EXCEPT !.utf8 = x]
    OBVIOUS
  <2> HIDE DEF x, rest, unit
  <2> QED
    BY <1>1, <2>1, <2>2 DEF Projections
<1>10. Tells(rest, base, Announced(cs)) /\ (rest.warned <=> Contains(cs, "replacement"))
  <2> HIDE DEF rest, cs
  <2> QED
    BY <1>1, <1>9 DEF Tells
<1> HIDE DEF rest, cs, m, r
<1>11. CASE unit.is = "invalid"
  <2>1. ~ (b \notin {"tail", "bad"} /\ h = Tails(b))
    <3>1. SUFFICES ASSUME b \notin {"tail", "bad"}, h = Tails(b) PROVE FALSE
      OBVIOUS
    <3>2. unit.is = IF h > 0 THEN "char" ELSE b
      BY <1>3, <1>4, <3>1
    <3> QED
      BY <1>7, <1>11, <3>2 DEF AllBytes
  <2>2. UnitAt(s, n + 1) = <<"replacement">>
    BY <1>5, <2>1
  <2>3. Settled(s, m)
    <3>1. CASE b \in {"tail", "bad"}
      <4>1. Tails(b) = 0
        BY <3>1 DEF Tails
      <4>2. h = Tails(b)
        BY <1>3, <1>4, <4>1 DEF Reads
      <4> QED
        BY <1>5, <4>2
    <3>2. CASE b \notin {"tail", "bad"}
      <4>1. h # Tails(b)
        BY <2>1, <3>2
      <4>2. h + 1 # Len(r)
        BY <1>2, <1>3, <1>4, <3>2, <4>1
      <4>3. h < Len(r)
        BY <1>4 DEF Reads
      <4>4. \A x \in Int : h < x /\ h + 1 # x => h + 1 < x
        OBVIOUS
      <4>5. Len(r) \in Int
        BY <1>3
      <4>6. h + 1 < Len(r)
        BY <4>2, <4>3, <4>4, <4>5, Zenon
      <4> QED
        BY <1>5, <4>6
    <3> QED
      BY <3>1, <3>2
  <2>4. Upto(s, m) = Append(cs, "replacement")
    <3>1. cs \o <<"replacement">> = Append(cs, "replacement")
      BY <1>7, AppendIsConcat, GlyphSeqs
    <3> QED
      BY <1>5, <2>2, <3>1
  <2> DEFINE q == Replaced(rest)
  <2>5. Round(p) = q
    BY <1>2, <1>11 DEF Round, rest, r
  <2>6. /\ q \in Projections /\ q.utf8 = rest.utf8 /\ q.warned /\ ~ q.cr
        /\ q.wrote = rest.wrote /\ q.newline = rest.newline
        /\ Tells(q, base, Announced(Append(cs, "replacement")))
    BY <1>7, <1>9, <1>10, ReplacedIs
  <2>7. Contains(Append(cs, "replacement"), "replacement")
    BY <1>7, AnnouncedStep, GlyphSeqs
  <2> HIDE DEF q
  <2>8. Wrote(q, base)
    BY <1>1, <1>9, <2>6 DEF Wrote
  <2>9. FollowsAt(q, base, s, m)
    BY <1>1, <1>6, <1>9, <2>3, <2>4, <2>6, <2>7, <2>8 DEF FollowsAt
  <2> QED
    BY <1>6, <2>5, <2>9
<1>12. CASE unit.is # "invalid"
  <2> DEFINE c == unit.is
             q == ProjectChar(rest, c)
  <2>1. b \notin {"tail", "bad"} /\ h = Tails(b) /\ c = IF h > 0 THEN "char" ELSE b
    BY <1>2, <1>3, <1>4, <1>12
  <2>2. UnitAt(s, n + 1) = <<c>> /\ Settled(s, m)
    BY <1>5, <2>1
  <2>3. c \in Glyphs /\ c # "replacement"
    BY <1>7, <2>1 DEF Glyphs, AllBytes
  <2>4. c = "cr" => h = 0 /\ b = "cr"
    BY <2>1
  <2>5. Round(p) = q
    BY <1>2, <1>12 DEF Round, rest, r
  <2> HIDE DEF c, unit
  <2>6. Upto(s, m) = Append(cs, c)
    BY <1>5, <1>7, <2>2, <2>3
  <2>7. /\ Announced(Append(cs, c)) = Append(Announced(cs), c)
        /\ Contains(Append(cs, c), "replacement") <=> Contains(cs, "replacement")
    BY <1>7, <2>3, AnnouncedStep
  <2>8. OnlyWrites(rest, q) /\ Tells(q, base, Append(Announced(cs), c))
    BY <1>9, <1>10, <2>3, ProjectTells
  <2>9. q.cr <=> c = "cr"
    BY <1>9, <2>3, ProjectCharIs
  <2>10. c = "cr" => m >= 1 /\ s[m] = "cr"
    <3>1. h = 0 => m = n + 1
      BY <1>1 DEF m
    <3>2. m >= 1
      BY <1>1, <1>6
    <3> QED
      BY <2>4, <3>1, <3>2
  <2> HIDE DEF q
  <2>11. q \in Projections /\ q.utf8 = rest.utf8 /\ q.warned = rest.warned
    BY <2>8 DEF OnlyWrites
  <2>12. Wrote(q, base)
    BY <1>1, <1>9, <2>8 DEF Wrote, OnlyWrites
  <2>13. FollowsAt(q, base, s, m)
    BY <1>1, <1>6, <1>9, <1>10, <2>2, <2>6, <2>7, <2>8, <2>9, <2>10, <2>11, <2>12 DEF FollowsAt
  <2> QED
    BY <1>6, <2>5, <2>13
<1> QED
  BY <1>11, <1>12

\* f is what Decode computes, as far as k.
Rounds(f, p, k) == f = [i \in 0..k |-> IF i = 0 THEN p ELSE Round(f[i - 1])]

LEMMA RoundsExist ==
  ASSUME NEW p
  PROVE  \A k \in Nat : \E f : Rounds(f, p, k)
<1> DEFINE T == {k \in Nat : ~ \E f : Rounds(f, p, k)}
<1>1. SUFFICES ASSUME T # {} PROVE FALSE
  OBVIOUS
<1>2. T \in SUBSET Nat
  OBVIOUS
<1> HIDE DEF T
<1>3. PICK k \in T : \A j \in T : k <= j
  BY <1>1, <1>2, LeastNumber
<1>4. k \in Nat /\ ~ \E f : Rounds(f, p, k)
  BY <1>3 DEF T
<1>5. k # 0
  <2>1. Rounds([i \in 0..0 |-> p], p, 0)
    BY DEF Rounds
  <2> QED
    BY <1>4, <2>1
<1>6. k - 1 \in Nat /\ ~ (k <= k - 1)
  BY <1>4, <1>5
<1>7. PICK f : Rounds(f, p, k - 1)
  BY <1>3, <1>6 DEF T
<1> DEFINE g == [i \in 0..k |-> IF i = k THEN Round(f[k - 1]) ELSE f[i]]
<1>8. \A i \in 0..k : g[i] = IF i = 0 THEN p ELSE Round(g[i - 1])
  <2>1. TAKE i \in 0..k
  <2>2. CASE i = k
    <3>1. k - 1 \in 0..k /\ k \in 0..k /\ k - 1 # k
      BY <1>4, <1>5
    <3>2. g[k] = Round(f[k - 1]) /\ g[k - 1] = f[k - 1]
      BY <3>1
    <3> QED
      BY <1>5, <2>2, <3>2
  <2>3. CASE i # k
    <3>1. i \in 0..k - 1 /\ i - 1 # k
      BY <1>4, <2>1, <2>3
    <3>2. f[i] = (IF i = 0 THEN p ELSE Round(f[i - 1]))
      BY <1>7, <3>1 DEF Rounds
    <3>3. i # 0 => i - 1 \in 0..k
      BY <1>4, <3>1
    <3> QED
      BY <2>3, <3>1, <3>2, <3>3
  <2> QED
    BY <2>2, <2>3
<1>9. Rounds(g, p, k)
  <2> DEFINE h == [i \in 0..k |-> IF i = 0 THEN p ELSE Round(g[i - 1])]
  <2>1. DOMAIN g = DOMAIN h /\ \A i \in 0..k : g[i] = h[i]
    BY <1>8
  <2>2. g = h
    BY <2>1
  <2> QED
    BY <2>2 DEF Rounds
<1> QED
  BY <1>4, <1>9

LEMMA DecodeIs ==
  ASSUME NEW p, Len(p.utf8) \in Nat
  PROVE  \E f : Rounds(f, p, Len(p.utf8)) /\ Decode(p) = f[Len(p.utf8)]
<1> DEFINE k == Len(p.utf8)
           f == CHOOSE after : after =
                  [n \in 0..k |-> IF n = 0 THEN p ELSE Round(after[n - 1])]
<1>1. Decode(p) = f[k]
  BY Zenon DEF Decode
<1>2. \E g : g = [n \in 0..k |-> IF n = 0 THEN p ELSE Round(g[n - 1])]
  BY RoundsExist DEF Rounds
<1>3. f = [n \in 0..k |-> IF n = 0 THEN p ELSE Round(f[n - 1])]
  BY <1>2, Zenon
<1> HIDE DEF f
<1> QED
  BY <1>1, <1>3 DEF Rounds

LEMMA DecodeFollows ==
  ASSUME NEW p, NEW base, NEW s, NEW n, FollowsAt(p, base, s, n)
  PROVE  \E m \in n..Len(s) : FollowsAt(Decode(p), base, s, m) /\ Waits(Decode(p))
<1> DEFINE k == Len(p.utf8)
<1>1. /\ s \in Seq(AllBytes) /\ n \in 0..Len(s) /\ n \in Nat /\ Len(s) \in Nat
      /\ p.utf8 = SubSeq(s, n + 1, Len(s))
  BY DEF FollowsAt
<1>2. k = Len(s) - n /\ k \in Nat
  BY <1>1
<1>3. PICK f : Rounds(f, p, k) /\ Decode(p) = f[k]
  BY <1>2, DecodeIs
<1> HIDE DEF k
<1>4. f[0] = p /\ \A i \in 1..k : f[i] = Round(f[i - 1])
  <2>1. 0 \in 0..k /\ \A i \in 1..k : i \in 0..k /\ i # 0
    BY <1>2
  <2>2. \A i \in 0..k : f[i] = IF i = 0 THEN p ELSE Round(f[i - 1])
    <3>1. SUFFICES ASSUME NEW i \in 0..k PROVE f[i] = IF i = 0 THEN p ELSE Round(f[i - 1])
      OBVIOUS
    <3> QED
      BY <1>3 DEF Rounds
  <2> QED
    BY <2>1, <2>2
<1> DEFINE Decoded(i) == \E m \in n..Len(s) :
                        FollowsAt(f[i], base, s, m) /\ (Waits(f[i]) \/ m >= n + i)
           T == {i \in 0..k : ~ Decoded(i)}
<1>5. ASSUME T # {} PROVE FALSE
  <2>1. T \in SUBSET Nat
    OBVIOUS
  <2> HIDE DEF T
  <2>2. PICK i \in T : \A j \in T : i <= j
    BY <1>5, <2>1, LeastNumber
  <2>3. i \in 0..k /\ ~ Decoded(i)
    BY <2>2 DEF T
  <2>4. i # 0
    <3>1. n \in n..Len(s) /\ n >= n + 0
      BY <1>1
    <3>2. Decoded(0)
      BY <1>4, <3>1
    <3> HIDE DEF Decoded
    <3> QED
      BY <2>3, <3>2
  <2>5. i \in 1..k /\ i - 1 \in 0..k /\ ~ (i <= i - 1)
    BY <1>2, <2>3, <2>4
  <2>6. Decoded(i - 1)
    BY <2>2, <2>5 DEF T
  <2>7. PICK m \in n..Len(s) :
          FollowsAt(f[i - 1], base, s, m) /\ (Waits(f[i - 1]) \/ m >= n + (i - 1))
    BY <2>6
  <2>8. f[i] = Round(f[i - 1])
    BY <1>4, <2>5
  <2>9. CASE Waits(f[i - 1])
    <3>1. f[i] = f[i - 1]
      BY <2>8, <2>9 DEF Round, Waits
    <3>2. Decoded(i)
      BY <2>7, <2>9, <3>1
    <3> HIDE DEF Decoded
    <3> QED
      BY <2>3, <3>2
  <2>10. CASE ~ Waits(f[i - 1])
    <3>1. PICK x \in m + 1..Len(s) : FollowsAt(Round(f[i - 1]), base, s, x)
      BY <2>7, <2>10, RoundFollows
    <3>2. x \in n..Len(s) /\ x >= n + i
      BY <1>1, <2>5, <2>7, <2>10
    <3>3. Decoded(i)
      BY <2>8, <3>1, <3>2
    <3> HIDE DEF Decoded
    <3> QED
      BY <2>3, <3>3
  <2> QED
    BY <2>9, <2>10
<1>6. Decoded(k)
  <2>1. k \in 0..k
    BY <1>2
  <2> HIDE DEF Decoded
  <2> QED
    BY <1>5, <2>1
<1>7. PICK m \in n..Len(s) : FollowsAt(f[k], base, s, m) /\ (Waits(f[k]) \/ m >= n + k)
  BY <1>6
<1>8. Waits(f[k])
  <2>1. CASE m >= n + k
    <3>1. m = Len(s)
      BY <1>1, <1>2, <2>1
    <3>2. f[k].utf8 = SubSeq(s, Len(s) + 1, Len(s))
      BY <1>7, <3>1 DEF FollowsAt
    <3>3. SubSeq(s, Len(s) + 1, Len(s)) = <<>>
      BY <1>1
    <3> QED
      BY <3>2, <3>3 DEF Waits
  <2> QED
    BY <1>7, <2>1
<1> QED
  BY <1>3, <1>7, <1>8

\* What a projection still holds is the start of one character, which would
\* be replaced if nothing came after it.
LEMMA WaitsForOne ==
  ASSUME NEW p, NEW base, NEW s, NEW n, FollowsAt(p, base, s, n), Waits(p)
  PROVE  /\ Len(s) - n <= 2
         /\ IF p.utf8 = <<>> THEN n = Len(s)
            ELSE Upto(s, Len(s)) = Append(Upto(s, n), "replacement")
<1> DEFINE r == p.utf8
<1>1. /\ p \in Projections /\ s \in Seq(AllBytes) /\ n \in 0..Len(s) /\ n \in Nat
      /\ r = SubSeq(s, n + 1, Len(s)) /\ Settled(s, n) /\ Len(s) \in Nat
  BY DEF FollowsAt
<1>2. r \in Seq(AllBytes) /\ Len(r) = Len(s) - n
  <2>1. r \in Seq(AllBytes)
    BY <1>1 DEF Projections
  <2> HIDE DEF r
  <2> QED
    BY <1>1, <2>1
<1> HIDE DEF r
<1>3. CASE r = <<>>
  <2>1. Len(r) = 0
    BY <1>3
  <2>2. n = Len(s)
    BY <1>1, <1>2, <2>1
  <2> QED
    BY <1>1, <1>3, <2>2 DEF r
<1>4. CASE r # <<>>
  <2>1. FirstUnit(r).is = "partial"
    BY <1>4 DEF Waits, r
  <2>2. PICK h \in 0..2 :
          /\ Reads(r, h)
          /\ FirstUnit(r) =
               IF r[1] \in {"tail", "bad"} THEN [is |-> "invalid", len |-> h + 1]
               ELSE IF h = Tails(r[1])
                    THEN [is |-> IF h > 0 THEN "char" ELSE r[1], len |-> h + 1]
               ELSE IF h + 1 = Len(r) THEN [is |-> "partial", len |-> 0]
               ELSE [is |-> "invalid", len |-> h + 1]
    BY <1>2, <1>4, FirstUnitIs
  <2>3. n \in 0..Len(s) - 1 /\ r[1] = s[n + 1] /\ s[n + 1] \in AllBytes
    <3>1. Len(r) > 0
      BY <1>2, <1>4
    <3>2. n \in 0..Len(s) - 1
      BY <1>1, <1>2, <3>1
    <3> QED
      BY <1>1, <3>2
  <2>4. r[1] \notin {"tail", "bad"} /\ h # Tails(r[1]) /\ h + 1 = Len(r)
    <3>1. r[1] # "partial"
      BY <2>3 DEF AllBytes
    <3> QED
      BY <2>1, <2>2, <3>1
  <2>5. h <= 1
    <3>1. h \in 0..Tails(r[1]) /\ Tails(r[1]) \in 0..2
      BY <2>2, TailsIs DEF Reads
    <3> QED
      BY <2>4, <3>1
  <2>6. n + 1 + h = Len(s)
    BY <1>1, <1>2, <2>4
  <2>7. Upto(s, n + 1 + h) = Upto(s, n) \o <<"replacement">>
    BY <1>1, <2>2, <2>3, <2>4, NextUnit
  <2>8. Upto(s, n) \o <<"replacement">> = Append(Upto(s, n), "replacement")
    <3>1. Upto(s, n) \in Seq(Glyphs)
      BY <1>1, UptoSteps
    <3> QED
      BY <3>1, AppendIsConcat, GlyphSeqs
  <2>9. Len(s) - n <= 2
    BY <1>1, <2>5, <2>6
  <2> QED
    BY <1>4, <2>6, <2>7, <2>8, <2>9 DEF r
<1> QED
  BY <1>3, <1>4

LEMMA FinishShows ==
  ASSUME NEW p, NEW base, NEW s, NEW n, FollowsAt(p, base, s, n), Waits(p)
  PROVE  LET q == Finish(p)
         IN /\ q \in Projections /\ q.wrote = p.wrote /\ q.newline = p.newline
            /\ base \o q.out = Shown(s) /\ base \in Seq(Glyphs)
<1> DEFINE a == [p EXCEPT !.utf8 = <<>>]
           d == IF p.utf8 = <<>> THEN p ELSE Replaced(a)
           q == IF d.cr THEN [d EXCEPT !.cr = FALSE, !.out = Append(@, "newline")] ELSE d
           cs == Upto(s, n)
<1>1. /\ p \in Projections /\ s \in Seq(AllBytes) /\ n \in 0..Len(s) /\ Len(s) \in Nat
      /\ (p.warned <=> Contains(cs, "replacement")) /\ Tells(p, base, Announced(cs))
  BY DEF FollowsAt
<1>2. /\ IF p.utf8 = <<>> THEN n = Len(s) ELSE Upto(s, Len(s)) = Append(cs, "replacement")
  BY WaitsForOne
<1>3. Characters(s) = Upto(s, Len(s))
  BY DEF Characters, Upto
<1>4. cs \in Seq(Glyphs)
  BY <1>1, UptoSteps
<1> HIDE DEF cs
<1>5. /\ d \in Projections /\ d.wrote = p.wrote /\ d.newline = p.newline
      /\ Tells(d, base, Announced(Characters(s)))
  <2>1. CASE p.utf8 = <<>>
    <3>1. Characters(s) = cs
      BY <1>2, <1>3, <2>1 DEF cs
    <3> QED
      BY <1>1, <2>1, <3>1
  <2>2. CASE p.utf8 # <<>>
    <3>1. <<>> \in Seq(AllBytes)
      OBVIOUS
    <3>2. /\ a \in Projections /\ a.wrote = p.wrote /\ a.newline = p.newline
          /\ a.warned = p.warned /\ a.cr = p.cr /\ a.out = p.out
      BY <1>1, <3>1 DEF Projections
    <3> HIDE DEF a
    <3>3. Tells(a, base, Announced(cs)) /\ (a.warned <=> Contains(cs, "replacement"))
      BY <1>1, <3>2 DEF Tells
    <3> DEFINE x == Replaced(a)
    <3>4. /\ x \in Projections /\ x.wrote = a.wrote /\ x.newline = a.newline
          /\ Tells(x, base, Announced(Append(cs, "replacement")))
      BY <1>4, <3>2, <3>3, ReplacedIs
    <3> HIDE DEF x
    <3>5. d = x
      BY <2>2 DEF x
    <3>6. Append(cs, "replacement") = Characters(s)
      BY <1>2, <1>3, <2>2
    <3> QED
      BY <3>2, <3>4, <3>5, <3>6
  <2> QED
    BY <2>1, <2>2
<1> HIDE DEF d
<1>6. d.out \in Seq(Glyphs) /\ base \in Seq(Glyphs)
  BY <1>5 DEF Projections, Tells
<1>7. Shown(s) = (base \o d.out) \o (IF d.cr THEN <<"newline">> ELSE <<>>)
  BY <1>5 DEF Shown, Tells
<1>8. q \in Projections /\ q.wrote = p.wrote /\ q.newline = p.newline /\ base \o q.out = Shown(s)
  <2>1. CASE d.cr
    <3> DEFINE o == Append(d.out, "newline")
    <3>1. o \in Seq(Glyphs) /\ base \o o = (base \o d.out) \o <<"newline">>
      BY <1>6, GlyphSeqs
    <3> HIDE DEF o
    <3>2. q = [d EXCEPT !.cr = FALSE, !.out = o]
      BY <2>1 DEF o
    <3>3. q \in Projections /\ q.wrote = d.wrote /\ q.newline = d.newline /\ q.out = o
      BY <1>5, <3>1, <3>2 DEF Projections
    <3> HIDE DEF q
    <3> QED
      BY <1>5, <1>7, <2>1, <3>1, <3>3
  <2>2. CASE ~ d.cr
    <3>1. q = d
      BY <2>2
    <3>2. (base \o d.out) \o <<>> = base \o d.out
      BY <1>6
    <3> HIDE DEF q
    <3> QED
      BY <1>5, <1>7, <2>2, <3>1, <3>2
  <2> QED
    BY <2>1, <2>2
<1>9. Finish(p) = q
  BY DEF Finish, d
<1> HIDE DEF q
<1> QED
  BY <1>6, <1>8, <1>9

LEMMA NotedIs ==
  ASSUME NEW p \in Projections, NEW base \in Seq(Glyphs), Wrote(p, base)
  PROVE  LET q == Noted(p)
         IN /\ q \in Projections /\ q.out = <<>> /\ Wrote(q, base \o p.out)
            /\ q.utf8 = p.utf8 /\ q.cr = p.cr /\ q.warned = p.warned
<1> DEFINE q == Noted(p)
<1>1. /\ p.out \in Seq(Glyphs) /\ p.wrote \in BOOLEAN /\ p.newline \in BOOLEAN
  BY DEF Projections
<1>2. CASE p.out = <<>>
  <2>1. q = p
    BY <1>2 DEF Noted
  <2>2. base \o p.out = base
    BY <1>2
  <2> HIDE DEF q
  <2>3. q \in Projections /\ q.out = <<>> /\ Wrote(q, base \o p.out)
         /\ q.utf8 = p.utf8 /\ q.cr = p.cr /\ q.warned = p.warned
    BY <1>2, <2>1, <2>2
  <2> QED
    BY <2>3 DEF q
<1>3. CASE p.out # <<>>
  <2>1. PICK l \in BOOLEAN : l <=> p.out[Len(p.out)] = "newline"
    OBVIOUS
  <2>2. q = [p EXCEPT !.wrote = TRUE, !.newline = l, !.out = <<>>]
    <3>1. (p.out[Len(p.out)] = "newline") = l
      BY <2>1
    <3> QED
      BY <1>3, <3>1, Zenon DEF Noted, Last
  <2>3. <<>> \in Seq(Glyphs)
    OBVIOUS
  <2> HIDE DEF q
  <2>4. /\ q \in Projections /\ q.out = <<>> /\ q.wrote = TRUE /\ q.newline = l
        /\ q.utf8 = p.utf8 /\ q.cr = p.cr /\ q.warned = p.warned
    BY <2>1, <2>2, <2>3 DEF Projections
  <2> DEFINE written == base \o p.out
  <2>5. written # <<>> /\ written[Len(written)] = p.out[Len(p.out)]
    <3>1. Len(p.out) > 0 /\ Len(written) = Len(base) + Len(p.out) /\ written \in Seq(Glyphs)
      BY <1>1, <1>3
    <3>2. Len(written) > 0
      BY <1>1, <3>1
    <3>3. written[Len(base) + Len(p.out)] = p.out[Len(p.out)]
      BY <1>1, <3>1
    <3> QED
      BY <3>1, <3>2, <3>3
  <2> HIDE DEF written
  <2>6. Wrote(q, written)
    BY <2>1, <2>4, <2>5 DEF Wrote
  <2> QED
    BY <2>4, <2>6 DEF q, written
<1> QED
  BY <1>2, <1>3

------------------------------------------------------------------------------
(* The steps of append_stream *)

\* Until its end the projection follows the text, with the log before it.
TextInv ==
  /\ text \in Seq(AllBytes) /\ logged \in Seq(Glyphs)
  /\ stream # "over" =>
       /\ \E n \in 0..Len(text) : FollowsAt(proj, logged, text, n)
       /\ Waits(proj) /\ proj.out = <<>>
  /\ stream = "over" => logged = Expected(text)

LEMMA TextStarts == TextInit => TextInv
<1> SUFFICES ASSUME TextInit PROVE TextInv
  OBVIOUS
<1> DEFINE p == NewProjection
<1>1. /\ p \in Projections /\ p.utf8 = <<>> /\ p.cr = FALSE /\ p.warned = FALSE
      /\ p.out = <<>> /\ p.wrote = FALSE
  <2>1. <<>> \in Seq(AllBytes) /\ <<>> \in Seq(Glyphs)
    OBVIOUS
  <2> QED
    BY <2>1 DEF NewProjection, Projections
<1> HIDE DEF p
<1>2. <<>> \in Seq(AllBytes) /\ <<>> \in Seq(Glyphs) /\ Len(<<>>) = 0 /\ 0 \in 0..0
  OBVIOUS
<1>3. Upto(<<>>, 0) = <<>>
  BY <1>2, UptoSteps
<1>4. Announced(<<>>) = <<>> /\ Lines(<<>>) = <<>>
  BY <1>2, AnnouncedStep, LinesStep, GlyphSeqs
<1>5. ~ Contains(<<>>, "replacement")
  BY DEF Contains
<1>6. Tells(p, <<>>, <<>>)
  <2>1. (<<>> \o <<>>) \o <<>> = <<>>
    OBVIOUS
  <2> QED
    BY <1>1, <1>2, <1>4, <2>1 DEF Tells
<1>7. Settled(<<>>, 0)
  BY DEF Settled
<1>8. SubSeq(<<>>, 0 + 1, Len(<<>>)) = <<>>
  OBVIOUS
<1>9. Waits(p) /\ Wrote(p, <<>>)
  BY <1>1 DEF Waits, Wrote
<1>10. FollowsAt(p, <<>>, <<>>, 0)
  BY <1>1, <1>2, <1>3, <1>4, <1>5, <1>6, <1>7, <1>8, <1>9 DEF FollowsAt
<1> QED
  BY <1>1, <1>2, <1>9, <1>10 DEF TextInit, TextInv, p

LEMMA ArriveKeeps ==
  ASSUME TextInv, NEW piece \in Seq(AllBytes), Arrive(piece)
  PROVE  TextInv'
<1> DEFINE a == [proj EXCEPT !.utf8 = @ \o piece]
           q == Decode(a)
           t == text \o piece
           written == logged \o q.out
<1>1. /\ stream = "open" /\ stream' = stream /\ text' = t /\ proj' = Noted(q) /\ logged' = written
  BY DEF Arrive, Push
<1>2. PICK n \in 0..Len(text) : FollowsAt(proj, logged, text, n)
  BY <1>1 DEF TextInv
<1>3. proj.out = <<>>
  BY <1>1 DEF TextInv
<1>4. /\ proj \in Projections /\ text \in Seq(AllBytes) /\ n \in Nat /\ Len(text) \in Nat
      /\ proj.utf8 = SubSeq(text, n + 1, Len(text)) /\ Settled(text, n)
      /\ (proj.warned <=> Contains(Upto(text, n), "replacement"))
      /\ Tells(proj, logged, Announced(Upto(text, n)))
      /\ (proj.cr => n >= 1 /\ text[n] = "cr") /\ Wrote(proj, logged)
  BY <1>2 DEF FollowsAt
\* The piece is taken in.
<1>5. /\ t \in Seq(AllBytes) /\ Len(t) = Len(text) + Len(piece) /\ Len(piece) \in Nat
      /\ \A i \in 1..Len(text) : t[i] = text[i]
  BY <1>4
<1>6. Settled(t, n) /\ Upto(t, n) = Upto(text, n)
  BY <1>4, SettledNow
<1> DEFINE x == proj.utf8 \o piece
<1>7. x \in Seq(AllBytes) /\ x = SubSeq(t, n + 1, Len(t))
  <2>1. proj.utf8 \in Seq(AllBytes) /\ Len(proj.utf8) = Len(text) - n
    <3>1. proj.utf8 \in Seq(AllBytes)
      BY <1>4 DEF Projections
    <3> QED
      BY <1>4, <3>1
  <2> DEFINE y == SubSeq(t, n + 1, Len(t))
  <2> HIDE DEF t
  <2>2. x \in Seq(AllBytes) /\ Len(x) = Len(t) - n
    <3>1. x \in Seq(AllBytes) /\ Len(x) = Len(proj.utf8) + Len(piece)
      BY <2>1, ConcatProperties
    <3>2. Len(t) = Len(text) + Len(piece) /\ Len(piece) \in Nat /\ Len(text) \in Nat /\ n \in Nat
      BY <1>4, <1>5
    <3> HIDE DEF x
    <3> QED
      BY <2>1, <3>1, <3>2
  <2>3. y \in Seq(AllBytes) /\ Len(y) = Len(t) - n
    BY <1>4, <1>5
  <2>4. \A i \in 1..Len(x) : x[i] = y[i]
    <3>1. ASSUME NEW i \in 1..Len(x) PROVE x[i] = y[i]
      <4>1. y[i] = t[n + i]
        BY <1>4, <1>5, <2>2, <2>3
      <4>2. CASE i <= Len(text) - n
        <5>1. x[i] = proj.utf8[i]
          BY <1>4, <2>1, <4>2
        <5>2. proj.utf8[i] = text[n + i]
          BY <1>4, <4>2
        <5>3. t[n + i] = text[n + i]
          BY <1>4, <1>5, <4>2
        <5> QED
          BY <4>1, <5>1, <5>2, <5>3
      <4>3. CASE i > Len(text) - n
        <5>1. x[i] = piece[i - (Len(text) - n)]
          BY <1>4, <1>5, <2>1, <2>2, <4>3
        <5>2. t[n + i] = piece[n + i - Len(text)]
          BY <1>4, <1>5, <2>2, <4>3 DEF t
        <5>3. i - (Len(text) - n) = n + i - Len(text)
          BY <1>4, <1>5, <2>2
        <5> QED
          BY <4>1, <5>1, <5>2, <5>3
      <4> QED
        BY <1>4, <1>5, <2>2, <4>2, <4>3
    <3> QED
      BY <3>1
  <2> HIDE DEF x, y
  <2>5. x = y
    BY <2>2, <2>3, <2>4, SeqEqual
  <2> QED
    BY <2>2, <2>5 DEF y
<1>8. FollowsAt(a, logged, t, n)
  <2>1. a = [proj EXCEPT !.utf8 = x]
    OBVIOUS
  <2> HIDE DEF a, x, t
  <2>2. /\ a \in Projections /\ a.utf8 = x /\ a.cr = proj.cr /\ a.warned = proj.warned
        /\ a.out = proj.out /\ a.wrote = proj.wrote /\ a.newline = proj.newline
    BY <1>4, <1>7, <2>1 DEF Projections
  <2>3. Tells(a, logged, Announced(Upto(t, n)))
    BY <1>4, <1>6, <2>2 DEF Tells
  <2>4. n \in 0..Len(t)
    BY <1>4, <1>5
  <2>5. a.cr => n >= 1 /\ t[n] = "cr"
    <3>1. n >= 1 => t[n] = text[n]
      BY <1>4, <1>5
    <3> QED
      BY <1>4, <2>2, <3>1
  <2>6. Wrote(a, logged)
    BY <1>4, <2>2 DEF Wrote
  <2> QED
    BY <1>4, <1>5, <1>6, <1>7, <2>2, <2>3, <2>4, <2>5, <2>6 DEF FollowsAt
<1> HIDE DEF t, a
<1>9. PICK m \in n..Len(t) : FollowsAt(q, logged, t, m) /\ Waits(q)
  BY <1>8, DecodeFollows
<1> HIDE DEF q, written
<1>10. /\ q \in Projections /\ logged \in Seq(Glyphs) /\ Wrote(q, logged)
       /\ Tells(q, logged, Announced(Upto(t, m)))
  BY <1>9 DEF FollowsAt, Tells
<1> DEFINE v == Noted(q)
<1>11. /\ v \in Projections /\ v.out = <<>> /\ Wrote(v, written)
       /\ v.utf8 = q.utf8 /\ v.cr = q.cr /\ v.warned = q.warned
  BY <1>10, NotedIs DEF written
<1> HIDE DEF v
<1>12. written \in Seq(Glyphs)
  BY <1>10, ConcatProperties DEF written, Projections
<1>13. Tells(v, written, Announced(Upto(t, m)))
  <2>1. written \o <<>> = written
    BY <1>12
  <2> QED
    BY <1>10, <1>11, <1>12, <2>1 DEF Tells, written
<1>14. m \in 0..Len(t)
  BY <1>4, <1>5
<1>15. FollowsAt(v, written, t, m)
  BY <1>9, <1>11, <1>13, <1>14 DEF FollowsAt
<1>16. Waits(v)
  BY <1>9, <1>11 DEF Waits
<1>17. proj' = v
  BY <1>1 DEF v
<1> QED
  BY <1>1, <1>5, <1>11, <1>12, <1>14, <1>15, <1>16, <1>17 DEF TextInv

LEMMA EndKeeps ==
  ASSUME TextInv, End
  PROVE  TextInv'
<1> DEFINE q == Finish(proj)
           v == Noted(q)
<1>1. /\ stream = "open" /\ stream' = "over" /\ text' = text
      /\ logged' = logged \o q.out \o Boundary(v)
  BY DEF End
<1>2. PICK n \in 0..Len(text) : FollowsAt(proj, logged, text, n) /\ Waits(proj)
  BY <1>1 DEF TextInv
<1>3. /\ q \in Projections /\ q.wrote = proj.wrote /\ q.newline = proj.newline
      /\ logged \o q.out = Shown(text) /\ logged \in Seq(Glyphs)
  BY <1>2, FinishShows
<1>4. Wrote(q, logged)
  <2>1. Wrote(proj, logged)
    BY <1>2 DEF FollowsAt
  <2> HIDE DEF q
  <2> QED
    BY <1>3, <2>1 DEF Wrote
<1> HIDE DEF q
<1>5. v \in Projections /\ Wrote(v, Shown(text))
  <2>1. Wrote(v, logged \o q.out)
    BY <1>3, <1>4, NotedIs
  <2>2. v \in Projections
    BY <1>3, <1>4, NotedIs
  <2> QED
    BY <1>3, <2>1, <2>2
<1>6. Shown(text) \in Seq(Glyphs)
  BY <1>3, ConcatProperties DEF Projections
<1> HIDE DEF v
<1>7. Shown(text) \o Boundary(v) = Expected(text)
  <2>1. CASE Shown(text) = <<>> \/ Shown(text)[Len(Shown(text))] = "newline"
    <3>1. Boundary(v) = <<>>
      BY <1>5, <2>1 DEF Boundary, Wrote
    <3>2. Expected(text) = Shown(text)
      BY <2>1 DEF Expected, Last
    <3>3. Shown(text) \o <<>> = Shown(text)
      BY <1>6
    <3> QED
      BY <3>1, <3>2, <3>3
  <2>2. CASE ~ (Shown(text) = <<>> \/ Shown(text)[Len(Shown(text))] = "newline")
    <3>1. Boundary(v) = <<"newline">>
      BY <1>5, <2>2 DEF Boundary, Wrote
    <3>2. Expected(text) = Append(Shown(text), "newline")
      BY <2>2 DEF Expected, Last
    <3>3. Shown(text) \o <<"newline">> = Append(Shown(text), "newline")
      BY <1>6, AppendIsConcat, GlyphSeqs
    <3> QED
      BY <3>1, <3>2, <3>3
  <2> QED
    BY <2>1, <2>2
<1>8. logged' = Expected(text')
  BY <1>1, <1>3, <1>7
<1>9. Expected(text) \in Seq(Glyphs)
  BY <1>6, AppendProperties, GlyphSeqs DEF Expected
<1>10. text \in Seq(AllBytes)
  BY DEF TextInv
<1>11. text' \in Seq(AllBytes) /\ logged' \in Seq(Glyphs)
  BY <1>1, <1>8, <1>9, <1>10
<1> QED
  BY <1>1, <1>8, <1>11 DEF TextInv

LEMMA TextKeeps == TextInv /\ [TextNext]_textVars => TextInv'
<1> SUFFICES ASSUME TextInv, [TextNext]_textVars PROVE TextInv'
  OBVIOUS
<1>1. ASSUME NEW n \in 1..MaxPiece, NEW piece \in [1..n -> Bytes], Arrive(piece)
      PROVE  TextInv'
  <2>1. piece \in Seq(AllBytes)
    BY BytesAssumption
  <2> QED
    BY <1>1, <2>1, ArriveKeeps
<1>2. CASE End
  BY <1>2, EndKeeps
<1>3. CASE StreamFails
  BY <1>3 DEF StreamFails, TextInv
<1>4. CASE UNCHANGED textVars
  BY <1>4 DEF textVars, TextInv
<1> QED
  BY <1>1, <1>2, <1>3, <1>4 DEF TextNext

\* From the invariant to the property: what has been written is a beginning of
\* what will be, and lacks no more than what the projection holds.
LEMMA TextInvShows == TextInv => LogShowsTheText
<1> SUFFICES ASSUME TextInv PROVE LogShowsTheText
  OBVIOUS
<1>1. CASE stream = "over"
  <2>1. logged = Expected(text) /\ logged \in Seq(Glyphs)
    BY <1>1 DEF TextInv
  <2>2. IsPrefix(logged, logged)
    BY <2>1 DEF IsPrefix
  <2> QED
    BY <1>1, <2>1, <2>2 DEF LogShowsTheText
<1>2. CASE stream # "over"
  <2>1. PICK n \in 0..Len(text) : FollowsAt(proj, logged, text, n) /\ Waits(proj) /\ proj.out = <<>>
    BY <1>2 DEF TextInv
  <2> DEFINE cs == Upto(text, n)
             o == Finish(proj).out
  <2>2. /\ proj \in Projections /\ text \in Seq(AllBytes) /\ n \in Nat /\ Len(text) \in Nat
        /\ Settled(text, n) /\ Tells(proj, logged, Announced(cs))
        /\ (proj.cr => n >= 1 /\ text[n] = "cr")
    BY <2>1 DEF FollowsAt
  <2>3. logged \o o = Shown(text) /\ logged \in Seq(Glyphs) /\ o \in Seq(Glyphs)
    <3>1. /\ Finish(proj) \in Projections /\ logged \o o = Shown(text) /\ logged \in Seq(Glyphs)
      BY <2>1, FinishShows
    <3> QED
      BY <3>1 DEF Projections
  <2>4. Len(text) - n <= 2
    BY <2>1, WaitsForOne
  <2> HIDE DEF o
  <2>5. IsPrefix(logged, Expected(text))
    <3>1. \A x \in Seq(Glyphs) : IsPrefix(logged, logged \o x)
      <4> TAKE x \in Seq(Glyphs)
      <4> DEFINE y == logged \o x
      <4>1. y \in Seq(Glyphs) /\ Len(y) = Len(logged) + Len(x) /\ Len(logged) \in Nat /\ Len(x) \in Nat
        BY <2>3, ConcatProperties
      <4>2. \A i \in 1..Len(logged) : y[i] = logged[i]
        BY <2>3
      <4> HIDE DEF y
      <4>3. Len(logged) <= Len(y)
        BY <4>1
      <4>4. SubSeq(y, 1, Len(logged)) = SubSeq(logged, 1, Len(logged))
        BY <2>3, <4>1, <4>2, <4>3
      <4> QED
        BY <4>3, <4>4 DEF IsPrefix, y
    <3>2. CASE Expected(text) = Shown(text)
      BY <2>3, <3>1, <3>2
    <3>3. CASE Expected(text) = Append(Shown(text), "newline")
      <4>1. Append(logged \o o, "newline") = logged \o Append(o, "newline")
        <5>1. \A x, y \in Seq(Glyphs) : Append(x \o y, "newline") = x \o Append(y, "newline")
          <6> TAKE x, y \in Seq(Glyphs)
          <6> HIDE DEF cs
          <6> QED
            BY GlyphSeqs
        <5> QED
          BY <2>3, <5>1, Zenon
      <4>2. Append(o, "newline") \in Seq(Glyphs)
        BY <2>3, GlyphSeqs
      <4> QED
        BY <2>3, <3>1, <3>3, <4>1, <4>2
    <3> QED
      BY <3>2, <3>3 DEF Expected
  <2>6. \A k \in 0..n : LET t == SubSeq(text, 1, k)
                        IN Settled(text, k) => Characters(t) = Upto(text, k)
    <3> TAKE k \in 0..n
    <3> DEFINE t == SubSeq(text, 1, k)
    <3>1. t \in Seq(AllBytes) /\ Len(t) = k /\ \A i \in 1..k : text[i] = t[i]
      BY <2>1, <2>2
    <3> HIDE DEF t
    <3>2. k \in 0..Len(text) /\ k <= Len(t)
      BY <2>1, <2>2, <3>1
    <3>3. Settled(text, k) => Upto(text, k) = Upto(t, k)
      BY <2>2, <3>1, <3>2, UptoSame
    <3>4. Characters(t) = Upto(t, k)
      BY <3>1 DEF Characters, Upto
    <3>5. Settled(text, k) => Characters(t) = Upto(text, k)
      BY <3>3, <3>4
    <3> QED
      BY <3>5 DEF t
  <2>7. ~ proj.cr => \E k \in 0..3 : k <= Len(text) /\ logged = Shown(SubSeq(text, 1, Len(text) - k))
    <3> SUFFICES ASSUME ~ proj.cr
                 PROVE  \E k \in 0..3 : k <= Len(text) /\ logged = Shown(SubSeq(text, 1, Len(text) - k))
      OBVIOUS
    <3>1. Lines(Announced(cs)) = (logged \o <<>>) \o <<>>
      BY <2>1, <2>2 DEF Tells
    <3>2. (logged \o <<>>) \o <<>> = logged
      BY <2>3
    <3>3. n \in 0..n
      BY <2>2
    <3>4. Characters(SubSeq(text, 1, n)) = cs
      BY <2>2, <2>6, <3>3
    <3>5. logged = Shown(SubSeq(text, 1, n))
      BY <3>1, <3>2, <3>4 DEF Shown
    <3> DEFINE k == Len(text) - n
    <3>6. k \in 0..3 /\ k <= Len(text) /\ Len(text) - k = n
      BY <2>1, <2>2, <2>4
    <3> HIDE DEF k
    <3> QED
      BY <3>5, <3>6
  <2>8. proj.cr => \E k \in 0..3 : k <= Len(text) /\ logged = Shown(SubSeq(text, 1, Len(text) - k))
    <3> SUFFICES ASSUME proj.cr
                 PROVE  \E k \in 0..3 : k <= Len(text) /\ logged = Shown(SubSeq(text, 1, Len(text) - k))
      OBVIOUS
    <3> DEFINE j == n - 1
               bs == Upto(text, j)
    <3>1. j \in Nat /\ j \in 0..n /\ j + 1 = n /\ j \in 0..Len(text) - 1 /\ j \in 0..Len(text)
      BY <2>1, <2>2
    <3> HIDE DEF j
    <3>2. text[n] = "cr" /\ n <= Len(text) /\ n >= 1
      BY <2>1, <2>2
    <3>3. Settled(text, j)
      <4>1. ASSUME NEW i \in 1..j
            PROVE  \E h \in i + 1..j + 1 : h <= Len(text) /\ text[h] # "tail"
        <5>1. n \in i + 1..j + 1
          BY <2>2, <3>1
        <5> QED
          BY <3>2, <5>1
      <4> QED
        BY <4>1 DEF Settled
    <3>4. bs \in Seq(Glyphs) /\ cs = bs \o UnitAt(text, n)
      <4>1. Upto(text, j + 1) = Upto(text, j) \o UnitAt(text, j + 1) /\ Upto(text, j) \in Seq(Glyphs)
        BY <2>2, <3>1, UptoSteps
      <4> QED
        BY <3>1, <4>1
    <3>5. UnitAt(text, n) = <<"cr">>
      <4>1. Tails(text[n]) = 0
        BY <3>2 DEF Tails
      <4>2. Whole(text, n)
        BY <2>2, <3>2, <4>1 DEF Whole, Covers
      <4> QED
        BY <3>2, <4>1, <4>2 DEF UnitAt
    <3> HIDE DEF bs, cs
    <3>6. cs = Append(bs, "cr")
      BY <3>4, <3>5, AppendIsConcat, GlyphSeqs
    <3>7. Announced(bs) \in Seq(Glyphs) /\ Announced(cs) = Append(Announced(bs), "cr")
      BY <3>4, <3>6, AnnouncedStep, GlyphSeqs
    <3>8. Lines(Announced(bs)) \in Seq(Glyphs)
          /\ Lines(Announced(cs)) = Lines(Announced(bs)) \o <<"newline">>
      BY <3>7, LinesStep, GlyphSeqs
    <3>9. Lines(Announced(cs)) = logged \o <<"newline">>
      <4>1. Lines(Announced(cs)) = (logged \o <<>>) \o <<"newline">>
        BY <2>1, <2>2 DEF Tells
      <4>2. logged \o <<>> = logged
        BY <2>3
      <4> QED
        BY <4>1, <4>2
    <3>10. logged = Lines(Announced(bs))
      <4> DEFINE a == Lines(Announced(bs))
      <4>1. a \in Seq(Glyphs) /\ a \o <<"newline">> = logged \o <<"newline">>
        BY <3>8, <3>9
      <4> HIDE DEF a
      <4>2. Append(a, "newline") = Append(logged, "newline")
        BY <2>3, <4>1, AppendIsConcat, GlyphSeqs
      <4>3. a = logged
        BY <2>3, <4>1, <4>2, AppendInjective, GlyphSeqs
      <4> QED
        BY <4>3 DEF a
    <3>11. Characters(SubSeq(text, 1, j)) = bs
      BY <2>6, <3>1, <3>3 DEF bs
    <3>12. logged = Shown(SubSeq(text, 1, j))
      BY <3>10, <3>11 DEF Shown
    <3> DEFINE k == Len(text) - j
    <3>13. k \in 0..3 /\ k <= Len(text) /\ Len(text) - k = j
      BY <2>2, <2>4, <3>1
    <3> HIDE DEF k
    <3> QED
      BY <3>12, <3>13
  <2> QED
    BY <1>2, <2>5, <2>7, <2>8 DEF LogShowsTheText
<1> QED
  BY <1>1, <1>2

\* However a Runtime's output is cut into pieces, the log shows what the whole
\* of it says: every character once and in its order, bytes that are none as
\* replacements with one warning before the first, and lines ended as the text
\* ends them; while it arrives nothing is held back but a carriage return and
\* the start of one character.  (text_projection.rs, output_spool.rs)
THEOREM TextIsShown == TextSpec => []LogShowsTheText
<1>1. TextInit => TextInv
  BY TextStarts
<1>2. TextInv /\ [TextNext]_textVars => TextInv'
  BY TextKeeps
<1>3. TextInv => LogShowsTheText
  BY TextInvShows
<1> QED
  BY <1>1, <1>2, <1>3, PTL DEF TextSpec
=============================================================================
