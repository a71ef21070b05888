------------------------ MODULE ControlChannelProofs ------------------------
(***************************************************************************)
(* Theorems about ControlChannel, for any calls, ids, capacity and number  *)
(* of faults.  The argument: an id belongs to one call for good (IdInv),   *)
(* so that a frame, wherever it is, speaks of the call that has its id     *)
(* (FrameInv); what ends the channel releases every call, and the reader   *)
(* leaves only when none waits (NoCallIsStranded); what the main thread    *)
(* and the pump have left behind stays so (EndInv).                        *)
(***************************************************************************)
EXTENDS ControlChannel, SequenceTheorems, TLAPS

\* Frames that speak of the call that has their id; answers and what was read
\* of them come from a worker.
Sent == {Torn} \cup {r \in Request : r.id = id[r.call]}
Served == {a \in Answer : a.call = payload[a.id] /\ worker[a.id] # "none"}

\* Ids, stages and answers of the calls, and the workers of the ids.
IdInv ==
  /\ \A c \in Calls : id[c] # NoId => id[c] < nextId
  /\ \A c, d \in Calls : id[c] = id[d] => c = d \/ id[c] = NoId
  /\ \A c \in Calls : stage[c] \in {"idle", "entered"} => id[c] = NoId /\ answer[c] = "none"
  /\ \A c \in Calls : stage[c] \in PendingStages => id[c] # NoId
  /\ \A c \in Calls : stage[c] = "done" => answer[c] # "none"
  /\ \A i \in Ids : payload[i] = NoCall => worker[i] = "none"
  /\ \A i \in Ids : payload[i] # NoCall => id[payload[i]] = i
  /\ \A c \in Calls :
       \/ answer[c] \in {"none", "channel"}
       \/ answer[c] = c /\ id[c] \in Ids /\ payload[id[c]] = c /\ worker[id[c]] # "none"

\* A call has been given one worker, the one of its id, or none at all.
HasWorker(c) == id[c] \in Ids /\ payload[id[c]] = c /\ worker[id[c]] # "none"
BegunInv == \A c \in Calls : begun[c] = IF HasWorker(c) THEN 1 ELSE 0

FrameInv ==
  /\ requests \in Seq(Sent)
  /\ answers \in Seq(Served)
  /\ frame \in Seq(Served)
  /\ reader = "dispatch" => frame # <<>>

\* What is over stays over.
EndInv ==
  /\ NoCallOutlivesPump
  /\ runtime \in {"exit", "exited"} => poisoned
  /\ context = "closed" => Active = {}
  /\ busy => context \in {"closing", "closed"}
  /\ busy /\ runtime \in {"respond", "streams", "exit", "exited"} => outcome = "failure"
  /\ result = "accepted" => pump = "over" /\ runtime = "exited" /\ error = "none"

\* The inductive invariant.
IInv == TypeOK /\ IdInv /\ BegunInv /\ FrameInv /\ NoCallIsStranded /\ EndInv

-----------------------------------------------------------------------------
(* The parts of TypeOK, but for what the pipes hold, which FrameInv says. *)

FlagsOK == poisoned \in BOOLEAN /\ busy \in BOOLEAN
CallsOK ==
  /\ stage \in [Calls -> {"idle", "entered", "done"} \cup PendingStages]
  /\ id \in [Calls -> Ids \cup {NoId}]
  /\ answer \in [Calls -> Calls \cup {"none", "channel"}]
  /\ nextId \in 0..(MaxCallId + 1)
HostOK ==
  /\ worker \in [Ids -> {"none", "done", "failed", "reaped"} \cup Working]
  /\ payload \in [Ids -> Calls \cup {NoCall}]
CountOK == begun \in [Calls -> Nat]
ThreadsOK ==
  /\ ends \subseteq RuntimeEnds \cup HostEnds
  /\ faults \in 0..MaxFaults
  /\ reader \in {"none", "new", "check", "read", "dispatch"}
  /\ context \in {"none", "open", "closing", "closed"}
  /\ runtime \in {"run", "close", "respond", "streams", "exit", "exited", "dead"}
  /\ outcome \in {"none", "success", "failure"}
  /\ pump \in {"loop", "join", "over"}
  /\ error \in {"none", "request", "duplicate", "thread", "write"}
  /\ result \in {"none", "accepted", "failed"}
PipesOK ==
  /\ requests \in Seq(Request \cup {Torn})
  /\ answers \in Seq(Answer)
  /\ frame \in Seq(Answer)

(* They are all of it. *)
LEMMA TypeParts == TypeOK <=> FlagsOK /\ CallsOK /\ HostOK /\ CountOK /\ ThreadsOK /\ PipesOK
BY DEF TypeOK, PipesTypeOK, ClientTypeOK, HostTypeOK, FlagsOK, CallsOK, HostOK, CountOK, ThreadsOK, PipesOK

(* A sequence over a set is one over a larger set. *)
LEMMA SeqGrows ==
  ASSUME NEW S, NEW T, S \subseteq T, NEW q \in Seq(S)
  PROVE  q \in Seq(T)
<1>1. q \in [1..Len(q) -> S] /\ Len(q) \in Nat
  OBVIOUS
<1>2. q \in [1..Len(q) -> T]
  BY <1>1
<1> QED
  BY <1>1, <1>2

(* A sequence of one. *)
LEMMA Single ==
  ASSUME NEW S, NEW x \in S
  PROVE  <<x>> \in Seq(S) /\ <<x>> # <<>>
OBVIOUS

(* What FrameInv says of frames implies their types. *)
LEMMA FramesAreTyped == FrameInv => PipesOK
<1>1. Sent \subseteq Request \cup {Torn} /\ Served \subseteq Answer
  BY DEF Sent, Served
<1> QED
  BY <1>1, SeqGrows DEF FrameInv, PipesOK

(* The first state. *)
LEMMA InitIInv == Init => IInv
<1> SUFFICES ASSUME Init PROVE IInv
  OBVIOUS
<1> USE IdsAssumption, CallsAssumption, MaxFaultsAssumption DEF Init, PipesInit, ClientInit, HostInit
<1>1. FlagsOK
  BY DEF FlagsOK
<1>2. CallsOK /\ HostOK /\ CountOK /\ ThreadsOK
  BY DEF CallsOK, HostOK, CountOK, ThreadsOK, Ids, RuntimeEnds, HostEnds
<1>3. FrameInv
  <2>1. <<>> \in Seq(Sent) /\ <<>> \in Seq(Served)
    OBVIOUS
  <2> QED
    BY <2>1 DEF FrameInv
<1>4. IdInv
  BY <1>2 DEF IdInv, PendingStages, CallsOK, HostOK
<1>6. BegunInv
  BY DEF BegunInv, HasWorker
<1>5. NoCallIsStranded /\ EndInv
  BY <1>2 DEF NoCallIsStranded, PoisonReleasesAll, WaitingCallHasReader, Unanswered, Pending, PendingStages, EndInv,
              NoCallOutlivesPump, Working, Active, CallsOK, HostOK
<1> QED
  BY <1>1, <1>2, <1>3, <1>4, <1>5, <1>6, TypeParts, FramesAreTyped DEF IInv

(* Flags. *)
LEMMA FlagsKept ==
  ASSUME FlagsOK, [Next]_vars
  PROVE  FlagsOK'
<1>0. FlagsOK
  OBVIOUS
<1> USE DEF FlagsOK
<1> USE DEF pipes, calling, reading, main, clientVars, hostVars
<1>1. CASE UNCHANGED vars
  BY <1>0, <1>1 DEF vars
<1>2. ASSUME NEW c \in Calls, Enter(c), UNCHANGED <<hostVars, result>>
      PROVE  FlagsOK'
  BY <1>0, <1>2 DEF Enter, Step
<1>3. ASSUME NEW c \in Calls, Register(c), UNCHANGED <<hostVars, result>>
      PROVE  FlagsOK'
  BY <1>0, <1>3 DEF Register, Step
<1>4. ASSUME NEW c \in Calls, Write(c), UNCHANGED <<hostVars, result>>
      PROVE  FlagsOK'
  BY <1>0, <1>4 DEF Write, Step, Poison, Fault
<1>5. ASSUME NEW c \in Calls, Ensure(c), UNCHANGED <<hostVars, result>>
      PROVE  FlagsOK'
  BY <1>0, <1>5 DEF Ensure, Step
<1>6. ASSUME NEW c \in Calls, Start(c), UNCHANGED <<hostVars, result>>
      PROVE  FlagsOK'
  BY <1>0, <1>6 DEF Start, Step, Reader, Fault
<1>7. ASSUME NEW c \in Calls, Unstarted(c), UNCHANGED <<hostVars, result>>
      PROVE  FlagsOK'
  BY <1>0, <1>7 DEF Unstarted, Step, Poison
<1>8. ASSUME NEW c \in Calls, Return(c), UNCHANGED <<hostVars, result>>
      PROVE  FlagsOK'
  BY <1>0, <1>8 DEF Return, Step
<1>9. ASSUME Check, UNCHANGED <<hostVars, result>>
      PROVE  FlagsOK'
  BY <1>0, <1>9 DEF Check, Reader
<1>10. ASSUME ReadAnswer, UNCHANGED <<hostVars, result>>
      PROVE  FlagsOK'
  BY <1>0, <1>10 DEF ReadAnswer, Reader, Poison, Fault, AnswersEnded
<1>11. ASSUME Dispatch, UNCHANGED <<hostVars, result>>
      PROVE  FlagsOK'
  BY <1>0, <1>11 DEF Dispatch, Reader, Poison
<1>12. ASSUME FunctionReturns, UNCHANGED <<hostVars, result>>
      PROVE  FlagsOK'
  BY <1>0, <1>12 DEF FunctionReturns, Main
<1>13. ASSUME ContextClosed, UNCHANGED <<hostVars, result>>
      PROVE  FlagsOK'
  BY <1>0, <1>13 DEF ContextClosed, Main
<1>14. ASSUME Respond, UNCHANGED <<hostVars, result>>
      PROVE  FlagsOK'
  BY <1>0, <1>14 DEF Respond, Main
<1>15. ASSUME CloseStreams, UNCHANGED <<hostVars, result>>
      PROVE  FlagsOK'
  BY <1>0, <1>15 DEF CloseStreams, Main, Poison, RuntimeEnds
<1>16. ASSUME Exit, UNCHANGED <<hostVars, result>>
      PROVE  FlagsOK'
  BY <1>0, <1>16 DEF Exit, Main, RuntimeEnds
<1>17. ASSUME Die, UNCHANGED <<hostVars, result>>
      PROVE  FlagsOK'
  BY <1>0, <1>17 DEF Die, Fault, RuntimeEnds, Gone
<1>18. ASSUME NoReader, UNCHANGED <<clientVars, result>>
      PROVE  FlagsOK'
  BY <1>0, <1>18 DEF NoReader, Fault, HostEnds, Seen
<1>19. ASSUME Take, UNCHANGED <<clientVars, result>>
      PROVE  FlagsOK'
  BY <1>0, <1>19 DEF Take, StartWorker, Fault, Fail
<1>20. ASSUME TakeTorn, UNCHANGED <<clientVars, result>>
      PROVE  FlagsOK'
  BY <1>0, <1>20 DEF TakeTorn, Fail
<1>21. ASSUME TakeEnd, UNCHANGED <<clientVars, result>>
      PROVE  FlagsOK'
  BY <1>0, <1>21 DEF TakeEnd, RequestsEnded
<1>22. ASSUME Leave, UNCHANGED <<clientVars, result>>
      PROVE  FlagsOK'
  BY <1>0, <1>22 DEF Leave
<1>23. ASSUME Join, UNCHANGED <<clientVars, result>>
      PROVE  FlagsOK'
  BY <1>0, <1>23 DEF Join
<1>24. ASSUME NEW i \in Ids, Work(i), UNCHANGED <<clientVars, result>>
      PROVE  FlagsOK'
  BY <1>0, <1>24 DEF Work, Thread
<1>25. ASSUME NEW i \in Ids, WriteAnswer(i), UNCHANGED <<clientVars, result>>
      PROVE  FlagsOK'
  BY <1>0, <1>25 DEF WriteAnswer, Thread, Fault, CanSend
<1>26. ASSUME NEW i \in Ids, Reap(i), UNCHANGED <<clientVars, result>>
      PROVE  FlagsOK'
  BY <1>0, <1>26 DEF Reap, Thread, Fail
<1>27. ASSUME Kill
      PROVE  FlagsOK'
  BY <1>0, <1>27 DEF Kill, RuntimeEnds, Gone
<1>28. ASSUME Conclude
      PROVE  FlagsOK'
  BY <1>0, <1>28 DEF Conclude, Gone
<1> QED
  BY <1>1, <1>2, <1>3, <1>4, <1>5, <1>6, <1>7, <1>8, <1>9, <1>10, <1>11, <1>12, <1>13, <1>14,
     <1>15, <1>16, <1>17, <1>18, <1>19, <1>20, <1>21, <1>22, <1>23, <1>24, <1>25, <1>26, <1>27,
     <1>28
     DEF Next, Client, ClientNext, CallStep, ReaderStep, MainStep, Host, HostStep, PumpStep, WorkerStep

(* Threads, ends and faults. *)
LEMMA ThreadsKept ==
  ASSUME ThreadsOK, [Next]_vars
  PROVE  ThreadsOK'
<1>0. ThreadsOK /\ MaxFaults \in Nat
  BY MaxFaultsAssumption
<1> USE DEF ThreadsOK
<1> USE DEF pipes, calling, reading, main, clientVars, hostVars
<1>1. CASE UNCHANGED vars
  BY <1>0, <1>1 DEF vars
<1>2. ASSUME NEW c \in Calls, Enter(c), UNCHANGED <<hostVars, result>>
      PROVE  ThreadsOK'
  BY <1>0, <1>2 DEF Enter, Step
<1>3. ASSUME NEW c \in Calls, Register(c), UNCHANGED <<hostVars, result>>
      PROVE  ThreadsOK'
  BY <1>0, <1>3 DEF Register, Step
<1>4. ASSUME NEW c \in Calls, Write(c), UNCHANGED <<hostVars, result>>
      PROVE  ThreadsOK'
  BY <1>0, <1>4 DEF Write, Step, Poison, Fault
<1>5. ASSUME NEW c \in Calls, Ensure(c), UNCHANGED <<hostVars, result>>
      PROVE  ThreadsOK'
  BY <1>0, <1>5 DEF Ensure, Step
<1>6. ASSUME NEW c \in Calls, Start(c), UNCHANGED <<hostVars, result>>
      PROVE  ThreadsOK'
  BY <1>0, <1>6 DEF Start, Step, Reader, Fault
<1>7. ASSUME NEW c \in Calls, Unstarted(c), UNCHANGED <<hostVars, result>>
      PROVE  ThreadsOK'
  BY <1>0, <1>7 DEF Unstarted, Step, Poison
<1>8. ASSUME NEW c \in Calls, Return(c), UNCHANGED <<hostVars, result>>
      PROVE  ThreadsOK'
  BY <1>0, <1>8 DEF Return, Step
<1>9. ASSUME Check, UNCHANGED <<hostVars, result>>
      PROVE  ThreadsOK'
  BY <1>0, <1>9 DEF Check, Reader
<1>10. ASSUME ReadAnswer, UNCHANGED <<hostVars, result>>
      PROVE  ThreadsOK'
  BY <1>0, <1>10 DEF ReadAnswer, Reader, Poison, Fault, AnswersEnded
<1>11. ASSUME Dispatch, UNCHANGED <<hostVars, result>>
      PROVE  ThreadsOK'
  BY <1>0, <1>11 DEF Dispatch, Reader, Poison
<1>12. ASSUME FunctionReturns, UNCHANGED <<hostVars, result>>
      PROVE  ThreadsOK'
  BY <1>0, <1>12 DEF FunctionReturns, Main
<1>13. ASSUME ContextClosed, UNCHANGED <<hostVars, result>>
      PROVE  ThreadsOK'
  BY <1>0, <1>13 DEF ContextClosed, Main
<1>14. ASSUME Respond, UNCHANGED <<hostVars, result>>
      PROVE  ThreadsOK'
  BY <1>0, <1>14 DEF Respond, Main
<1>15. ASSUME CloseStreams, UNCHANGED <<hostVars, result>>
      PROVE  ThreadsOK'
  BY <1>0, <1>15 DEF CloseStreams, Main, Poison, RuntimeEnds
<1>16. ASSUME Exit, UNCHANGED <<hostVars, result>>
      PROVE  ThreadsOK'
  BY <1>0, <1>16 DEF Exit, Main, RuntimeEnds
<1>17. ASSUME Die, UNCHANGED <<hostVars, result>>
      PROVE  ThreadsOK'
  BY <1>0, <1>17 DEF Die, Fault, RuntimeEnds, Gone
<1>18. ASSUME NoReader, UNCHANGED <<clientVars, result>>
      PROVE  ThreadsOK'
  BY <1>0, <1>18 DEF NoReader, Fault, HostEnds, Seen
<1>19. ASSUME Take, UNCHANGED <<clientVars, result>>
      PROVE  ThreadsOK'
  BY <1>0, <1>19 DEF Take, StartWorker, Fault, Fail
<1>20. ASSUME TakeTorn, UNCHANGED <<clientVars, result>>
      PROVE  ThreadsOK'
  BY <1>0, <1>20 DEF TakeTorn, Fail
<1>21. ASSUME TakeEnd, UNCHANGED <<clientVars, result>>
      PROVE  ThreadsOK'
  BY <1>0, <1>21 DEF TakeEnd, RequestsEnded
<1>22. ASSUME Leave, UNCHANGED <<clientVars, result>>
      PROVE  ThreadsOK'
  BY <1>0, <1>22 DEF Leave
<1>23. ASSUME Join, UNCHANGED <<clientVars, result>>
      PROVE  ThreadsOK'
  BY <1>0, <1>23 DEF Join
<1>24. ASSUME NEW i \in Ids, Work(i), UNCHANGED <<clientVars, result>>
      PROVE  ThreadsOK'
  BY <1>0, <1>24 DEF Work, Thread
<1>25. ASSUME NEW i \in Ids, WriteAnswer(i), UNCHANGED <<clientVars, result>>
      PROVE  ThreadsOK'
  BY <1>0, <1>25 DEF WriteAnswer, Thread, Fault, CanSend
<1>26. ASSUME NEW i \in Ids, Reap(i), UNCHANGED <<clientVars, result>>
      PROVE  ThreadsOK'
  BY <1>0, <1>26 DEF Reap, Thread, Fail
<1>27. ASSUME Kill
      PROVE  ThreadsOK'
  BY <1>0, <1>27 DEF Kill, RuntimeEnds, Gone
<1>28. ASSUME Conclude
      PROVE  ThreadsOK'
  BY <1>0, <1>28 DEF Conclude, Gone
<1> QED
  BY <1>1, <1>2, <1>3, <1>4, <1>5, <1>6, <1>7, <1>8, <1>9, <1>10, <1>11, <1>12, <1>13, <1>14,
     <1>15, <1>16, <1>17, <1>18, <1>19, <1>20, <1>21, <1>22, <1>23, <1>24, <1>25, <1>26, <1>27,
     <1>28
     DEF Next, Client, ClientNext, CallStep, ReaderStep, MainStep, Host, HostStep, PumpStep, WorkerStep

(* Calls and their ids. *)
LEMMA CallsKept ==
  ASSUME CallsOK, PipesOK, FrameInv, [Next]_vars
  PROVE  CallsOK'
<1>0. CallsOK /\ MaxCallId \in Nat
  BY IdsAssumption
<1>a. reader = "dispatch" => frame[1] \in Answer
  BY DEF PipesOK, FrameInv
<1> USE DEF CallsOK, PendingStages, Ids
<1> USE DEF pipes, calling, reading, main, clientVars, hostVars
<1>1. CASE UNCHANGED vars
  BY <1>0, <1>1 DEF vars
<1>2. ASSUME NEW c \in Calls, Enter(c), UNCHANGED <<hostVars, result>>
      PROVE  CallsOK'
  BY <1>0, <1>2 DEF Enter, Step
<1>3. ASSUME NEW c \in Calls, Register(c), UNCHANGED <<hostVars, result>>
      PROVE  CallsOK'
  BY <1>0, <1>3 DEF Register, Step
<1>4. ASSUME NEW c \in Calls, Write(c), UNCHANGED <<hostVars, result>>
      PROVE  CallsOK'
  BY <1>0, <1>4 DEF Write, Step, Poison, Fault
<1>5. ASSUME NEW c \in Calls, Ensure(c), UNCHANGED <<hostVars, result>>
      PROVE  CallsOK'
  BY <1>0, <1>5 DEF Ensure, Step
<1>6. ASSUME NEW c \in Calls, Start(c), UNCHANGED <<hostVars, result>>
      PROVE  CallsOK'
  BY <1>0, <1>6 DEF Start, Step, Reader, Fault
<1>7. ASSUME NEW c \in Calls, Unstarted(c), UNCHANGED <<hostVars, result>>
      PROVE  CallsOK'
  BY <1>0, <1>7 DEF Unstarted, Step, Poison
<1>8. ASSUME NEW c \in Calls, Return(c), UNCHANGED <<hostVars, result>>
      PROVE  CallsOK'
  BY <1>0, <1>8 DEF Return, Step
<1>9. ASSUME Check, UNCHANGED <<hostVars, result>>
      PROVE  CallsOK'
  BY <1>0, <1>9 DEF Check, Reader
<1>10. ASSUME ReadAnswer, UNCHANGED <<hostVars, result>>
      PROVE  CallsOK'
  BY <1>0, <1>10 DEF ReadAnswer, Reader, Poison, Fault, AnswersEnded
<1>11. ASSUME Dispatch, UNCHANGED <<hostVars, result>>
      PROVE  CallsOK'
  BY <1>0, <1>a, <1>11 DEF Dispatch, Reader, Poison, Answer, Unanswered, Pending
<1>12. ASSUME FunctionReturns, UNCHANGED <<hostVars, result>>
      PROVE  CallsOK'
  BY <1>0, <1>12 DEF FunctionReturns, Main
<1>13. ASSUME ContextClosed, UNCHANGED <<hostVars, result>>
      PROVE  CallsOK'
  BY <1>0, <1>13 DEF ContextClosed, Main
<1>14. ASSUME Respond, UNCHANGED <<hostVars, result>>
      PROVE  CallsOK'
  BY <1>0, <1>14 DEF Respond, Main
<1>15. ASSUME CloseStreams, UNCHANGED <<hostVars, result>>
      PROVE  CallsOK'
  BY <1>0, <1>15 DEF CloseStreams, Main, Poison, RuntimeEnds
<1>16. ASSUME Exit, UNCHANGED <<hostVars, result>>
      PROVE  CallsOK'
  BY <1>0, <1>16 DEF Exit, Main, RuntimeEnds
<1>17. ASSUME Die, UNCHANGED <<hostVars, result>>
      PROVE  CallsOK'
  BY <1>0, <1>17 DEF Die, Fault, RuntimeEnds, Gone
<1>18. ASSUME NoReader, UNCHANGED <<clientVars, result>>
      PROVE  CallsOK'
  BY <1>0, <1>18 DEF NoReader, Fault, HostEnds, Seen
<1>19. ASSUME Take, UNCHANGED <<clientVars, result>>
      PROVE  CallsOK'
  BY <1>0, <1>19 DEF Take, StartWorker, Fault, Fail
<1>20. ASSUME TakeTorn, UNCHANGED <<clientVars, result>>
      PROVE  CallsOK'
  BY <1>0, <1>20 DEF TakeTorn, Fail
<1>21. ASSUME TakeEnd, UNCHANGED <<clientVars, result>>
      PROVE  CallsOK'
  BY <1>0, <1>21 DEF TakeEnd, RequestsEnded
<1>22. ASSUME Leave, UNCHANGED <<clientVars, result>>
      PROVE  CallsOK'
  BY <1>0, <1>22 DEF Leave
<1>23. ASSUME Join, UNCHANGED <<clientVars, result>>
      PROVE  CallsOK'
  BY <1>0, <1>23 DEF Join
<1>24. ASSUME NEW i \in Ids, Work(i), UNCHANGED <<clientVars, result>>
      PROVE  CallsOK'
  BY <1>0, <1>24 DEF Work, Thread
<1>25. ASSUME NEW i \in Ids, WriteAnswer(i), UNCHANGED <<clientVars, result>>
      PROVE  CallsOK'
  BY <1>0, <1>25 DEF WriteAnswer, Thread, Fault, CanSend
<1>26. ASSUME NEW i \in Ids, Reap(i), UNCHANGED <<clientVars, result>>
      PROVE  CallsOK'
  BY <1>0, <1>26 DEF Reap, Thread, Fail
<1>27. ASSUME Kill
      PROVE  CallsOK'
  BY <1>0, <1>27 DEF Kill, RuntimeEnds, Gone
<1>28. ASSUME Conclude
      PROVE  CallsOK'
  BY <1>0, <1>28 DEF Conclude, Gone
<1> QED
  BY <1>1, <1>2, <1>3, <1>4, <1>5, <1>6, <1>7, <1>8, <1>9, <1>10, <1>11, <1>12, <1>13, <1>14,
     <1>15, <1>16, <1>17, <1>18, <1>19, <1>20, <1>21, <1>22, <1>23, <1>24, <1>25, <1>26, <1>27,
     <1>28
     DEF Next, Client, ClientNext, CallStep, ReaderStep, MainStep, Host, HostStep, PumpStep, WorkerStep

(* Workers. *)
LEMMA HostKept ==
  ASSUME HostOK, PipesOK, [Next]_vars
  PROVE  HostOK'
<1>0. HostOK
  OBVIOUS
<1>a. requests # <<>> /\ Head(requests) # Torn => Head(requests) \in Request
  BY DEF PipesOK
<1> USE DEF HostOK, Working
<1> USE DEF pipes, calling, reading, main, clientVars, hostVars
<1>1. CASE UNCHANGED vars
  BY <1>0, <1>1 DEF vars
<1>2. ASSUME NEW c \in Calls, Enter(c), UNCHANGED <<hostVars, result>>
      PROVE  HostOK'
  BY <1>0, <1>2 DEF Enter, Step
<1>3. ASSUME NEW c \in Calls, Register(c), UNCHANGED <<hostVars, result>>
      PROVE  HostOK'
  BY <1>0, <1>3 DEF Register, Step
<1>4. ASSUME NEW c \in Calls, Write(c), UNCHANGED <<hostVars, result>>
      PROVE  HostOK'
  BY <1>0, <1>4 DEF Write, Step, Poison, Fault
<1>5. ASSUME NEW c \in Calls, Ensure(c), UNCHANGED <<hostVars, result>>
      PROVE  HostOK'
  BY <1>0, <1>5 DEF Ensure, Step
<1>6. ASSUME NEW c \in Calls, Start(c), UNCHANGED <<hostVars, result>>
      PROVE  HostOK'
  BY <1>0, <1>6 DEF Start, Step, Reader, Fault
<1>7. ASSUME NEW c \in Calls, Unstarted(c), UNCHANGED <<hostVars, result>>
      PROVE  HostOK'
  BY <1>0, <1>7 DEF Unstarted, Step, Poison
<1>8. ASSUME NEW c \in Calls, Return(c), UNCHANGED <<hostVars, result>>
      PROVE  HostOK'
  BY <1>0, <1>8 DEF Return, Step
<1>9. ASSUME Check, UNCHANGED <<hostVars, result>>
      PROVE  HostOK'
  BY <1>0, <1>9 DEF Check, Reader
<1>10. ASSUME ReadAnswer, UNCHANGED <<hostVars, result>>
      PROVE  HostOK'
  BY <1>0, <1>10 DEF ReadAnswer, Reader, Poison, Fault, AnswersEnded
<1>11. ASSUME Dispatch, UNCHANGED <<hostVars, result>>
      PROVE  HostOK'
  BY <1>0, <1>11 DEF Dispatch, Reader, Poison
<1>12. ASSUME FunctionReturns, UNCHANGED <<hostVars, result>>
      PROVE  HostOK'
  BY <1>0, <1>12 DEF FunctionReturns, Main
<1>13. ASSUME ContextClosed, UNCHANGED <<hostVars, result>>
      PROVE  HostOK'
  BY <1>0, <1>13 DEF ContextClosed, Main
<1>14. ASSUME Respond, UNCHANGED <<hostVars, result>>
      PROVE  HostOK'
  BY <1>0, <1>14 DEF Respond, Main
<1>15. ASSUME CloseStreams, UNCHANGED <<hostVars, result>>
      PROVE  HostOK'
  BY <1>0, <1>15 DEF CloseStreams, Main, Poison, RuntimeEnds
<1>16. ASSUME Exit, UNCHANGED <<hostVars, result>>
      PROVE  HostOK'
  BY <1>0, <1>16 DEF Exit, Main, RuntimeEnds
<1>17. ASSUME Die, UNCHANGED <<hostVars, result>>
      PROVE  HostOK'
  BY <1>0, <1>17 DEF Die, Fault, RuntimeEnds, Gone
<1>18. ASSUME NoReader, UNCHANGED <<clientVars, result>>
      PROVE  HostOK'
  BY <1>0, <1>18 DEF NoReader, Fault, HostEnds, Seen
<1>19. ASSUME Take, UNCHANGED <<clientVars, result>>
      PROVE  HostOK'
  BY <1>0, <1>a, <1>19 DEF Take, StartWorker, Fault, Fail, Request
<1>20. ASSUME TakeTorn, UNCHANGED <<clientVars, result>>
      PROVE  HostOK'
  BY <1>0, <1>20 DEF TakeTorn, Fail
<1>21. ASSUME TakeEnd, UNCHANGED <<clientVars, result>>
      PROVE  HostOK'
  BY <1>0, <1>21 DEF TakeEnd, RequestsEnded
<1>22. ASSUME Leave, UNCHANGED <<clientVars, result>>
      PROVE  HostOK'
  BY <1>0, <1>22 DEF Leave
<1>23. ASSUME Join, UNCHANGED <<clientVars, result>>
      PROVE  HostOK'
  BY <1>0, <1>23 DEF Join
<1>24. ASSUME NEW i \in Ids, Work(i), UNCHANGED <<clientVars, result>>
      PROVE  HostOK'
  BY <1>0, <1>24 DEF Work, Thread
<1>25. ASSUME NEW i \in Ids, WriteAnswer(i), UNCHANGED <<clientVars, result>>
      PROVE  HostOK'
  BY <1>0, <1>25 DEF WriteAnswer, Thread, Fault, CanSend
<1>26. ASSUME NEW i \in Ids, Reap(i), UNCHANGED <<clientVars, result>>
      PROVE  HostOK'
  BY <1>0, <1>26 DEF Reap, Thread, Fail
<1>27. ASSUME Kill
      PROVE  HostOK'
  BY <1>0, <1>27 DEF Kill, RuntimeEnds, Gone
<1>28. ASSUME Conclude
      PROVE  HostOK'
  BY <1>0, <1>28 DEF Conclude, Gone
<1> QED
  BY <1>1, <1>2, <1>3, <1>4, <1>5, <1>6, <1>7, <1>8, <1>9, <1>10, <1>11, <1>12, <1>13, <1>14,
     <1>15, <1>16, <1>17, <1>18, <1>19, <1>20, <1>21, <1>22, <1>23, <1>24, <1>25, <1>26, <1>27,
     <1>28
     DEF Next, Client, ClientNext, CallStep, ReaderStep, MainStep, Host, HostStep, PumpStep, WorkerStep

(* A call that waits has a reader, until the channel ends. *)
LEMMA ReleaseKept ==
  ASSUME CallsOK, PipesOK, FrameInv, NoCallIsStranded, [Next]_vars
  PROVE  NoCallIsStranded'
<1>0. CallsOK /\ NoCallIsStranded
  OBVIOUS
<1>a. reader = "dispatch" => frame[1] \in Answer
  BY DEF PipesOK, FrameInv
<1>b. "none" \notin Calls
  BY CallsAssumption
<1> USE DEF CallsOK, NoCallIsStranded, PoisonReleasesAll, WaitingCallHasReader, Unanswered, Pending, PendingStages
<1> USE DEF pipes, calling, reading, main, clientVars, hostVars
<1>1. CASE UNCHANGED vars
  BY <1>0, <1>1 DEF vars
<1>2. ASSUME NEW c \in Calls, Enter(c), UNCHANGED <<hostVars, result>>
      PROVE  NoCallIsStranded'
  BY <1>0, <1>2 DEF Enter, Step
<1>3. ASSUME NEW c \in Calls, Register(c), UNCHANGED <<hostVars, result>>
      PROVE  NoCallIsStranded'
  BY <1>0, <1>3 DEF Register, Step
<1>4. ASSUME NEW c \in Calls, Write(c), UNCHANGED <<hostVars, result>>
      PROVE  NoCallIsStranded'
  BY <1>0, <1>4 DEF Write, Step, Poison, Fault
<1>5. ASSUME NEW c \in Calls, Ensure(c), UNCHANGED <<hostVars, result>>
      PROVE  NoCallIsStranded'
  BY <1>0, <1>5 DEF Ensure, Step
<1>6. ASSUME NEW c \in Calls, Start(c), UNCHANGED <<hostVars, result>>
      PROVE  NoCallIsStranded'
  BY <1>0, <1>6 DEF Start, Step, Reader, Fault
<1>7. ASSUME NEW c \in Calls, Unstarted(c), UNCHANGED <<hostVars, result>>
      PROVE  NoCallIsStranded'
  BY <1>0, <1>7 DEF Unstarted, Step, Poison
<1>8. ASSUME NEW c \in Calls, Return(c), UNCHANGED <<hostVars, result>>
      PROVE  NoCallIsStranded'
  BY <1>0, <1>8 DEF Return, Step
<1>9. ASSUME Check, UNCHANGED <<hostVars, result>>
      PROVE  NoCallIsStranded'
  BY <1>0, <1>9 DEF Check, Reader
<1>10. ASSUME ReadAnswer, UNCHANGED <<hostVars, result>>
      PROVE  NoCallIsStranded'
  BY <1>0, <1>10 DEF ReadAnswer, Reader, Poison, Fault, AnswersEnded
<1>11. ASSUME Dispatch, UNCHANGED <<hostVars, result>>
      PROVE  NoCallIsStranded'
  BY <1>0, <1>a, <1>b, <1>11 DEF Dispatch, Reader, Poison, Answer
<1>12. ASSUME FunctionReturns, UNCHANGED <<hostVars, result>>
      PROVE  NoCallIsStranded'
  BY <1>0, <1>12 DEF FunctionReturns, Main
<1>13. ASSUME ContextClosed, UNCHANGED <<hostVars, result>>
      PROVE  NoCallIsStranded'
  BY <1>0, <1>13 DEF ContextClosed, Main
<1>14. ASSUME Respond, UNCHANGED <<hostVars, result>>
      PROVE  NoCallIsStranded'
  BY <1>0, <1>14 DEF Respond, Main
<1>15. ASSUME CloseStreams, UNCHANGED <<hostVars, result>>
      PROVE  NoCallIsStranded'
  BY <1>0, <1>15 DEF CloseStreams, Main, Poison, RuntimeEnds
<1>16. ASSUME Exit, UNCHANGED <<hostVars, result>>
      PROVE  NoCallIsStranded'
  BY <1>0, <1>16 DEF Exit, Main, RuntimeEnds
<1>17. ASSUME Die, UNCHANGED <<hostVars, result>>
      PROVE  NoCallIsStranded'
  BY <1>0, <1>17 DEF Die, Fault, RuntimeEnds, Gone
<1>18. ASSUME NoReader, UNCHANGED <<clientVars, result>>
      PROVE  NoCallIsStranded'
  BY <1>0, <1>18 DEF NoReader, Fault, HostEnds, Seen
<1>19. ASSUME Take, UNCHANGED <<clientVars, result>>
      PROVE  NoCallIsStranded'
  BY <1>0, <1>19 DEF Take, StartWorker, Fault, Fail
<1>20. ASSUME TakeTorn, UNCHANGED <<clientVars, result>>
      PROVE  NoCallIsStranded'
  BY <1>0, <1>20 DEF TakeTorn, Fail
<1>21. ASSUME TakeEnd, UNCHANGED <<clientVars, result>>
      PROVE  NoCallIsStranded'
  BY <1>0, <1>21 DEF TakeEnd, RequestsEnded
<1>22. ASSUME Leave, UNCHANGED <<clientVars, result>>
      PROVE  NoCallIsStranded'
  BY <1>0, <1>22 DEF Leave
<1>23. ASSUME Join, UNCHANGED <<clientVars, result>>
      PROVE  NoCallIsStranded'
  BY <1>0, <1>23 DEF Join
<1>24. ASSUME NEW i \in Ids, Work(i), UNCHANGED <<clientVars, result>>
      PROVE  NoCallIsStranded'
  BY <1>0, <1>24 DEF Work, Thread
<1>25. ASSUME NEW i \in Ids, WriteAnswer(i), UNCHANGED <<clientVars, result>>
      PROVE  NoCallIsStranded'
  BY <1>0, <1>25 DEF WriteAnswer, Thread, Fault, CanSend
<1>26. ASSUME NEW i \in Ids, Reap(i), UNCHANGED <<clientVars, result>>
      PROVE  NoCallIsStranded'
  BY <1>0, <1>26 DEF Reap, Thread, Fail
<1>27. ASSUME Kill
      PROVE  NoCallIsStranded'
  BY <1>0, <1>27 DEF Kill, RuntimeEnds, Gone
<1>28. ASSUME Conclude
      PROVE  NoCallIsStranded'
  BY <1>0, <1>28 DEF Conclude, Gone
<1> QED
  BY <1>1, <1>2, <1>3, <1>4, <1>5, <1>6, <1>7, <1>8, <1>9, <1>10, <1>11, <1>12, <1>13, <1>14,
     <1>15, <1>16, <1>17, <1>18, <1>19, <1>20, <1>21, <1>22, <1>23, <1>24, <1>25, <1>26, <1>27,
     <1>28
     DEF Next, Client, ClientNext, CallStep, ReaderStep, MainStep, Host, HostStep, PumpStep, WorkerStep

(* What is over stays over. *)
LEMMA EndKept ==
  ASSUME CallsOK, HostOK, ThreadsOK, IdInv, EndInv, [Next]_vars
  PROVE  EndInv'
<1>0. /\ CallsOK /\ HostOK /\ EndInv
      /\ \A i \in Ids : payload[i] = NoCall => worker[i] = "none"
  BY DEF IdInv
<1> USE DEF EndInv, NoCallOutlivesPump, Active, Working, CallsOK, HostOK, PendingStages
<1> USE DEF pipes, calling, reading, main, clientVars, hostVars
<1>1. CASE UNCHANGED vars
  BY <1>0, <1>1 DEF vars
<1>2. ASSUME NEW c \in Calls, Enter(c), UNCHANGED <<hostVars, result>>
      PROVE  EndInv'
  BY <1>0, <1>2 DEF Enter, Step
<1>3. ASSUME NEW c \in Calls, Register(c), UNCHANGED <<hostVars, result>>
      PROVE  EndInv'
  BY <1>0, <1>3 DEF Register, Step
<1>4. ASSUME NEW c \in Calls, Write(c), UNCHANGED <<hostVars, result>>
      PROVE  EndInv'
  BY <1>0, <1>4 DEF Write, Step, Poison, Fault
<1>5. ASSUME NEW c \in Calls, Ensure(c), UNCHANGED <<hostVars, result>>
      PROVE  EndInv'
  BY <1>0, <1>5 DEF Ensure, Step
<1>6. ASSUME NEW c \in Calls, Start(c), UNCHANGED <<hostVars, result>>
      PROVE  EndInv'
  BY <1>0, <1>6 DEF Start, Step, Reader, Fault
<1>7. ASSUME NEW c \in Calls, Unstarted(c), UNCHANGED <<hostVars, result>>
      PROVE  EndInv'
  BY <1>0, <1>7 DEF Unstarted, Step, Poison
<1>8. ASSUME NEW c \in Calls, Return(c), UNCHANGED <<hostVars, result>>
      PROVE  EndInv'
  BY <1>0, <1>8 DEF Return, Step
<1>9. ASSUME Check, UNCHANGED <<hostVars, result>>
      PROVE  EndInv'
  BY <1>0, <1>9 DEF Check, Reader
<1>10. ASSUME ReadAnswer, UNCHANGED <<hostVars, result>>
      PROVE  EndInv'
  BY <1>0, <1>10 DEF ReadAnswer, Reader, Poison, Fault, AnswersEnded
<1>11. ASSUME Dispatch, UNCHANGED <<hostVars, result>>
      PROVE  EndInv'
  BY <1>0, <1>11 DEF Dispatch, Reader, Poison
<1>12. ASSUME FunctionReturns, UNCHANGED <<hostVars, result>>
      PROVE  EndInv'
  BY <1>0, <1>12 DEF FunctionReturns, Main
<1>13. ASSUME ContextClosed, UNCHANGED <<hostVars, result>>
      PROVE  EndInv'
  BY <1>0, <1>13 DEF ContextClosed, Main
<1>14. ASSUME Respond, UNCHANGED <<hostVars, result>>
      PROVE  EndInv'
  BY <1>0, <1>14 DEF Respond, Main
<1>15. ASSUME CloseStreams, UNCHANGED <<hostVars, result>>
      PROVE  EndInv'
  BY <1>0, <1>15 DEF CloseStreams, Main, Poison, RuntimeEnds
<1>16. ASSUME Exit, UNCHANGED <<hostVars, result>>
      PROVE  EndInv'
  BY <1>0, <1>16 DEF Exit, Main, RuntimeEnds
<1>17. ASSUME Die, UNCHANGED <<hostVars, result>>
      PROVE  EndInv'
  BY <1>0, <1>17 DEF Die, Fault, RuntimeEnds, Gone
<1>18. ASSUME NoReader, UNCHANGED <<clientVars, result>>
      PROVE  EndInv'
  BY <1>0, <1>18 DEF NoReader, Fault, HostEnds, Seen
<1>19. ASSUME Take, UNCHANGED <<clientVars, result>>
      PROVE  EndInv'
  BY <1>0, <1>19 DEF Take, StartWorker, Fault, Fail
<1>20. ASSUME TakeTorn, UNCHANGED <<clientVars, result>>
      PROVE  EndInv'
  BY <1>0, <1>20 DEF TakeTorn, Fail
<1>21. ASSUME TakeEnd, UNCHANGED <<clientVars, result>>
      PROVE  EndInv'
  BY <1>0, <1>21 DEF TakeEnd, RequestsEnded
<1>22. ASSUME Leave, UNCHANGED <<clientVars, result>>
      PROVE  EndInv'
  BY <1>0, <1>22 DEF Leave
<1>23. ASSUME Join, UNCHANGED <<clientVars, result>>
      PROVE  EndInv'
  BY <1>0, <1>23 DEF Join
<1>24. ASSUME NEW i \in Ids, Work(i), UNCHANGED <<clientVars, result>>
      PROVE  EndInv'
  BY <1>0, <1>24 DEF Work, Thread
<1>25. ASSUME NEW i \in Ids, WriteAnswer(i), UNCHANGED <<clientVars, result>>
      PROVE  EndInv'
  BY <1>0, <1>25 DEF WriteAnswer, Thread, Fault, CanSend
<1>26. ASSUME NEW i \in Ids, Reap(i), UNCHANGED <<clientVars, result>>
      PROVE  EndInv'
  BY <1>0, <1>26 DEF Reap, Thread, Fail
<1>27. ASSUME Kill
      PROVE  EndInv'
  BY <1>0, <1>27 DEF Kill, RuntimeEnds, Gone
<1>28. ASSUME Conclude
      PROVE  EndInv'
  BY <1>0, <1>28 DEF Conclude, Gone
<1> QED
  BY <1>1, <1>2, <1>3, <1>4, <1>5, <1>6, <1>7, <1>8, <1>9, <1>10, <1>11, <1>12, <1>13, <1>14,
     <1>15, <1>16, <1>17, <1>18, <1>19, <1>20, <1>21, <1>22, <1>23, <1>24, <1>25, <1>26, <1>27,
     <1>28
     DEF Next, Client, ClientNext, CallStep, ReaderStep, MainStep, Host, HostStep, PumpStep, WorkerStep

(* An id belongs to one call for good, on both sides. *)
LEMMA IdKept ==
  ASSUME CallsOK, HostOK, PipesOK, IdInv, FrameInv, [Next]_vars
  PROVE  IdInv'
<1>0. CallsOK /\ HostOK /\ IdInv
  OBVIOUS
<1>a. reader = "dispatch" => frame[1] \in Served
  BY DEF FrameInv
<1>b. requests # <<>> /\ Head(requests) # Torn =>
        Head(requests) \in Request /\ Head(requests).id = id[Head(requests).call]
  BY DEF FrameInv, Sent
<1>c. /\ "none" \notin Calls /\ "channel" \notin Calls /\ NoCall \notin Calls
      /\ MaxCallId \in Nat /\ NoId \notin Nat
  BY CallsAssumption, IdsAssumption
<1> USE DEF IdInv, CallsOK, HostOK, PendingStages, Unanswered, Pending, Working, Ids
<1> USE DEF pipes, calling, reading, main, clientVars, hostVars
<1>1. CASE UNCHANGED vars
  BY <1>0, <1>c, <1>1 DEF vars
<1>2. ASSUME NEW c \in Calls, Enter(c), UNCHANGED <<hostVars, result>>
      PROVE  IdInv'
  BY <1>0, <1>c, <1>2 DEF Enter, Step
<1>3. ASSUME NEW c \in Calls, Register(c), UNCHANGED <<hostVars, result>>
      PROVE  IdInv'
  <2>1. CASE stage' = [stage EXCEPT ![c] = "done"]
    <3>1. stage[c] = "entered" /\ UNCHANGED <<id, nextId>>
      BY <1>0, <2>1, <1>3 DEF Register, Step
    <3>2. \A d \in Calls : answer'[d] = answer[d] \/ answer'[d] = "channel"
      BY <1>0, <2>1, <1>3 DEF Register, Step
    <3>3. answer'[c] = "channel"
      BY <1>0, <2>1, <1>3 DEF Register, Step
    <3>4. \A d \in Calls : d # c => stage'[d] = stage[d]
      BY <1>0, <2>1
    <3>5. \A d \in Calls : d # c /\ stage[d] \in {"idle", "entered"} => answer'[d] = answer[d]
      BY <1>0, <2>1, <1>3 DEF Register, Step
    <3>6. stage'[c] = "done"
      BY <1>0, <2>1
    <3> QED
      BY <1>0, <1>c, <3>1, <3>2, <3>3, <3>4, <3>5, <3>6, <1>3
  <2>2. CASE stage' = [stage EXCEPT ![c] = "write"]
    <3>1. /\ stage[c] = "entered" /\ nextId <= MaxCallId /\ nextId' = nextId + 1
          /\ id' = [id EXCEPT ![c] = nextId] /\ UNCHANGED answer
      BY <1>0, <2>2, <1>3 DEF Register, Step
    <3>2. \A d \in Calls : id'[d] = (IF d = c THEN nextId ELSE id[d])
                           /\ stage'[d] = (IF d = c THEN "write" ELSE stage[d])
      BY <1>0, <2>2, <3>1
    <3>3. \A i \in Ids : payload[i] # NoCall => payload[i] # c
      BY <1>0, <1>c, <3>1
    <3> QED
      BY <1>0, <1>c, <3>1, <3>2, <3>3, <1>3
  <2> QED
    BY <2>1, <2>2, <1>3 DEF Register, Step
<1>4. ASSUME NEW c \in Calls, Write(c), UNCHANGED <<hostVars, result>>
      PROVE  IdInv'
  BY <1>0, <1>c, <1>4 DEF Write, Step, Poison, Fault
<1>5. ASSUME NEW c \in Calls, Ensure(c), UNCHANGED <<hostVars, result>>
      PROVE  IdInv'
  BY <1>0, <1>c, <1>5 DEF Ensure, Step
<1>6. ASSUME NEW c \in Calls, Start(c), UNCHANGED <<hostVars, result>>
      PROVE  IdInv'
  BY <1>0, <1>c, <1>6 DEF Start, Step, Reader, Fault
<1>7. ASSUME NEW c \in Calls, Unstarted(c), UNCHANGED <<hostVars, result>>
      PROVE  IdInv'
  BY <1>0, <1>c, <1>7 DEF Unstarted, Step, Poison
<1>8. ASSUME NEW c \in Calls, Return(c), UNCHANGED <<hostVars, result>>
      PROVE  IdInv'
  BY <1>0, <1>c, <1>8 DEF Return, Step
<1>9. ASSUME Check, UNCHANGED <<hostVars, result>>
      PROVE  IdInv'
  BY <1>0, <1>c, <1>9 DEF Check, Reader
<1>10. ASSUME ReadAnswer, UNCHANGED <<hostVars, result>>
      PROVE  IdInv'
  BY <1>0, <1>c, <1>10 DEF ReadAnswer, Reader, Poison, Fault, AnswersEnded
<1>11. ASSUME Dispatch, UNCHANGED <<hostVars, result>>
      PROVE  IdInv'
  <2>1. CASE (\A c \in Unanswered : id[c] # frame[1].id) /\ Poison
    BY <1>0, <1>c, <2>1, <1>11 DEF Dispatch, Reader, Poison
  <2>2. ASSUME NEW c \in Unanswered, id[c] = frame[1].id, answer' = [answer EXCEPT ![c] = frame[1].call]
        PROVE  IdInv'
    <3>1. frame[1].call \in Calls /\ frame[1].id \in Ids
          /\ frame[1].call = payload[frame[1].id] /\ worker[frame[1].id] # "none"
      BY <1>a, <1>11 DEF Dispatch, Reader, Served, Answer
    <3>2. frame[1].call = c
      BY <1>0, <1>c, <2>2, <3>1
    <3> QED
      BY <1>0, <1>c, <2>2, <3>1, <3>2, <1>11 DEF Dispatch, Reader
  <2> QED
    BY <2>1, <2>2, <1>11 DEF Dispatch
<1>12. ASSUME FunctionReturns, UNCHANGED <<hostVars, result>>
      PROVE  IdInv'
  BY <1>0, <1>c, <1>12 DEF FunctionReturns, Main
<1>13. ASSUME ContextClosed, UNCHANGED <<hostVars, result>>
      PROVE  IdInv'
  BY <1>0, <1>c, <1>13 DEF ContextClosed, Main
<1>14. ASSUME Respond, UNCHANGED <<hostVars, result>>
      PROVE  IdInv'
  BY <1>0, <1>c, <1>14 DEF Respond, Main
<1>15. ASSUME CloseStreams, UNCHANGED <<hostVars, result>>
      PROVE  IdInv'
  BY <1>0, <1>c, <1>15 DEF CloseStreams, Main, Poison, RuntimeEnds
<1>16. ASSUME Exit, UNCHANGED <<hostVars, result>>
      PROVE  IdInv'
  BY <1>0, <1>c, <1>16 DEF Exit, Main, RuntimeEnds
<1>17. ASSUME Die, UNCHANGED <<hostVars, result>>
      PROVE  IdInv'
  BY <1>0, <1>c, <1>17 DEF Die, Fault, RuntimeEnds, Gone
<1>18. ASSUME NoReader, UNCHANGED <<clientVars, result>>
      PROVE  IdInv'
  BY <1>0, <1>c, <1>18 DEF NoReader, Fault, HostEnds, Seen
<1>19. ASSUME Take, UNCHANGED <<clientVars, result>>
      PROVE  IdInv'
  <2>1. CASE UNCHANGED <<worker, payload>>
    BY <1>0, <1>c, <2>1, <1>19
  <2>2. ASSUME NEW q, q = Head(requests), q.id \notin {i \in Ids : payload[i] # NoCall},
               payload' = [payload EXCEPT ![q.id] = q.call],
               worker' = [worker EXCEPT ![q.id] = "running"] \/ worker' = worker
        PROVE  IdInv'
    <3>1. q.call \in Calls /\ q.id \in Ids /\ id[q.call] = q.id /\ payload[q.id] = NoCall
      BY <1>b, <2>2, <1>19 DEF Take, StartWorker, Request
    <3>2. \A i \in Ids : payload'[i] = IF i = q.id THEN q.call ELSE payload[i]
      BY <1>0, <2>2, <3>1
    <3>3. \A i \in Ids : worker'[i] = worker[i] \/ (i = q.id /\ worker'[i] = "running")
      <4>1. worker \in [Ids -> {"none", "done", "failed", "reaped"} \cup Working]
        BY <1>0
      <4>2. CASE worker' = [worker EXCEPT ![q.id] = "running"]
        BY <4>1, <4>2
      <4> QED
        BY <2>2, <4>2
    <3>4. UNCHANGED <<stage, id, answer, nextId>>
      BY <1>19
    <3>5. \A i \in Ids : payload'[i] = NoCall => worker'[i] = "none"
      BY <1>0, <1>c, <3>1, <3>2, <3>3
    <3>6. \A i \in Ids : payload'[i] # NoCall => id'[payload'[i]] = i
      BY <1>0, <3>1, <3>2, <3>4
    <3>7. \A c \in Calls : answer'[c] \in {"none", "channel"}
            \/ (answer'[c] = c /\ id'[c] \in Ids /\ payload'[id'[c]] = c /\ worker'[id'[c]] # "none")
      BY <1>0, <3>1, <3>2, <3>3, <3>4
    <3> QED
      BY <1>0, <3>4, <3>5, <3>6, <3>7
  <2> QED
    BY <2>1, <2>2, <1>19 DEF Take, StartWorker, Fail, Seen
<1>20. ASSUME TakeTorn, UNCHANGED <<clientVars, result>>
      PROVE  IdInv'
  BY <1>0, <1>c, <1>20 DEF TakeTorn, Fail
<1>21. ASSUME TakeEnd, UNCHANGED <<clientVars, result>>
      PROVE  IdInv'
  BY <1>0, <1>c, <1>21 DEF TakeEnd, RequestsEnded
<1>22. ASSUME Leave, UNCHANGED <<clientVars, result>>
      PROVE  IdInv'
  BY <1>0, <1>c, <1>22 DEF Leave
<1>23. ASSUME Join, UNCHANGED <<clientVars, result>>
      PROVE  IdInv'
  BY <1>0, <1>c, <1>23 DEF Join
<1>24. ASSUME NEW i \in Ids, Work(i), UNCHANGED <<clientVars, result>>
      PROVE  IdInv'
  BY <1>0, <1>c, <1>24 DEF Work, Thread
<1>25. ASSUME NEW i \in Ids, WriteAnswer(i), UNCHANGED <<clientVars, result>>
      PROVE  IdInv'
  BY <1>0, <1>c, <1>25 DEF WriteAnswer, Thread, Fault, CanSend
<1>26. ASSUME NEW i \in Ids, Reap(i), UNCHANGED <<clientVars, result>>
      PROVE  IdInv'
  BY <1>0, <1>c, <1>26 DEF Reap, Thread, Fail
<1>27. ASSUME Kill
      PROVE  IdInv'
  BY <1>0, <1>c, <1>27 DEF Kill, RuntimeEnds, Gone
<1>28. ASSUME Conclude
      PROVE  IdInv'
  BY <1>0, <1>c, <1>28 DEF Conclude, Gone
<1> QED
  BY <1>1, <1>2, <1>3, <1>4, <1>5, <1>6, <1>7, <1>8, <1>9, <1>10, <1>11, <1>12, <1>13, <1>14,
     <1>15, <1>16, <1>17, <1>18, <1>19, <1>20, <1>21, <1>22, <1>23, <1>24, <1>25, <1>26, <1>27,
     <1>28
     DEF Next, Client, ClientNext, CallStep, ReaderStep, MainStep, Host, HostStep, PumpStep, WorkerStep

(* One worker at most: a worker is started for an id that has none. *)
LEMMA BegunKept ==
  ASSUME CallsOK, HostOK, CountOK, IdInv, FrameInv, BegunInv, [Next]_vars
  PROVE  BegunInv' /\ CountOK'
<1>0. CallsOK /\ HostOK /\ CountOK /\ BegunInv
  OBVIOUS
<1>a. /\ \A i \in Ids : payload[i] # NoCall => id[payload[i]] = i
      /\ \A i \in Ids : payload[i] = NoCall => worker[i] = "none"
      /\ \A c \in Calls : stage[c] = "entered" => id[c] = NoId
  BY DEF IdInv
<1>b. requests # <<>> /\ Head(requests) # Torn =>
        Head(requests) \in Request /\ Head(requests).id = id[Head(requests).call]
  BY DEF FrameInv, Sent
<1>c. NoCall \notin Calls /\ NoId \notin Ids
  BY CallsAssumption, IdsAssumption DEF Ids
<1> USE DEF CallsOK, HostOK, CountOK, BegunInv, HasWorker
<1> USE DEF pipes, calling, reading, main, clientVars, hostVars
<1>1. ASSUME NEW c \in Calls, Register(c), UNCHANGED <<hostVars, result>>
      PROVE  BegunInv' /\ CountOK'
  <2>1. CASE id' = id
    BY <1>0, <1>1, <2>1
  <2>2. CASE stage[c] = "entered" /\ id' = [id EXCEPT ![c] = nextId]
    <3>1. \A i \in Ids : payload[i] # c
      BY <1>0, <1>a, <1>c, <2>2
    <3>2. \A d \in Calls : d # c => id'[d] = id[d]
      BY <1>0, <2>2
    <3> QED
      BY <1>0, <1>1, <3>1, <3>2
  <2> QED
    BY <1>1, <2>1, <2>2 DEF Register, Step
<1>2. ASSUME Take, UNCHANGED <<clientVars, result>>
      PROVE  BegunInv' /\ CountOK'
  <2>1. CASE UNCHANGED <<worker, payload, begun>>
    BY <1>0, <1>2, <2>1
  <2>2. ASSUME NEW q, q = Head(requests), q.id \notin Seen, payload' = [payload EXCEPT ![q.id] = q.call],
               \/ worker' = [worker EXCEPT ![q.id] = "running"] /\ begun' = [begun EXCEPT ![q.call] = @ + 1]
               \/ UNCHANGED <<worker, begun>>
        PROVE  BegunInv' /\ CountOK'
    <3>1. q.call \in Calls /\ q.id \in Ids /\ id[q.call] = q.id
      BY <1>b, <1>2, <2>2 DEF Take, Request
    <3>2. payload[q.id] = NoCall /\ worker[q.id] = "none"
      BY <1>a, <2>2, <3>1 DEF Seen
    <3>3. UNCHANGED id
      BY <1>2
    <3>4. \A i \in Ids : payload'[i] = IF i = q.id THEN q.call ELSE payload[i]
      BY <1>0, <2>2, <3>1
    <3>5. begun[q.call] = 0
      BY <1>0, <1>c, <3>1, <3>2
    <3>6. ASSUME NEW d \in Calls, d # q.call
          PROVE  begun'[d] = begun[d] /\ (HasWorker(d)' <=> HasWorker(d))
      BY <1>0, <1>a, <1>c, <2>2, <3>1, <3>2, <3>3, <3>4, <3>6
    <3>7. begun'[q.call] = IF HasWorker(q.call)' THEN 1 ELSE 0
      BY <1>0, <2>2, <3>1, <3>2, <3>3, <3>4, <3>5
    <3>8. CountOK'
      BY <1>0, <2>2, <3>1
    <3> QED
      BY <1>0, <3>6, <3>7, <3>8
  <2> QED
    BY <2>1, <2>2, <1>2 DEF Take, StartWorker, Fail
<1>3. ASSUME NEW i \in Ids, WorkerStep(i), UNCHANGED <<clientVars, result>>
      PROVE  BegunInv' /\ CountOK'
  <2>1. UNCHANGED <<id, payload, begun>>
    BY <1>3 DEF WorkerStep, Work, WriteAnswer, Reap
  <2>2. \A j \in Ids : worker'[j] = "none" <=> worker[j] = "none"
    BY <1>0, <1>3 DEF WorkerStep, Work, WriteAnswer, Reap, Thread
  <2> QED
    BY <1>0, <2>1, <2>2
<1>4. CASE UNCHANGED <<id, payload, begun, worker>>
  BY <1>0, <1>4
<1>5. ASSUME NEW c \in Calls,
             Enter(c) \/ Write(c) \/ Ensure(c) \/ Start(c) \/ Unstarted(c) \/ Return(c)
      PROVE  UNCHANGED id
  BY <1>5 DEF Enter, Write, Ensure, Start, Unstarted, Return
<1>6. ASSUME ReaderStep \/ FunctionReturns \/ MainStep \/ Die
      PROVE  UNCHANGED id
  BY <1>6 DEF ReaderStep, Check, ReadAnswer, Dispatch, FunctionReturns, MainStep, ContextClosed, Respond,
              CloseStreams, Exit, Die
<1>7. ASSUME NoReader \/ TakeTorn \/ TakeEnd \/ Leave \/ Join
      PROVE  UNCHANGED <<payload, begun, worker>>
  BY <1>7 DEF NoReader, TakeTorn, TakeEnd, Leave, Join
<1>8. ASSUME Kill \/ Conclude \/ UNCHANGED vars
      PROVE  UNCHANGED <<id, payload, begun, worker>>
  BY <1>8 DEF Kill, Conclude, vars
<1> QED
  BY <1>1, <1>2, <1>3, <1>4, <1>5, <1>6, <1>7, <1>8
     DEF Next, Client, ClientNext, CallStep, Host, HostStep, PumpStep

(* Wherever a frame is, it speaks of the call that has its id. *)
LEMMA FramesKept ==
  ASSUME CallsOK, HostOK, IdInv, FrameInv, [Next]_vars
  PROVE  FrameInv'
<1>0. CallsOK /\ HostOK /\ FrameInv
  OBVIOUS
<1>c. MaxCallId \in Nat /\ NoId \notin Nat
  BY IdsAssumption
<1>i. \A c \in Calls : /\ stage[c] = "entered" => id[c] = NoId
                       /\ stage[c] \in PendingStages => id[c] # NoId
  BY DEF IdInv
<1>j. \A i \in Ids : payload[i] = NoCall => worker[i] = "none"
  BY DEF IdInv
<1> USE DEF FrameInv
<1> USE DEF pipes, calling, reading, main, clientVars, hostVars
<1>1. CASE UNCHANGED vars
  <2>1. Sent' = Sent /\ Served' = Served
    BY <1>1 DEF vars, Sent, Served
  <2> QED
    BY <1>0, <2>1, <1>1 DEF vars
<1>2. ASSUME NEW c \in Calls, Enter(c), UNCHANGED <<hostVars, result>>
      PROVE  FrameInv'
  <2>1. Sent' = Sent /\ Served' = Served
    BY <1>2 DEF Enter, Sent, Served
  <2> QED
    BY <1>0, <2>1, <1>2 DEF Enter
<1>3. ASSUME NEW c \in Calls, Register(c), UNCHANGED <<hostVars, result>>
      PROVE  FrameInv'
  <2>1. Sent \subseteq Sent'
    <3>1. \A r \in Request : r.id = id[r.call] => r.id = id'[r.call]
      <4> SUFFICES ASSUME NEW r \in Request, r.id = id[r.call] PROVE r.id = id'[r.call]
        OBVIOUS
      <4>1. r.id \in Ids /\ r.call \in Calls /\ id[r.call] # NoId
        BY <1>c DEF Request, Ids
      <4>2. stage[c] = "entered" /\ (id' = id \/ id' = [id EXCEPT ![c] = nextId])
        BY <1>3 DEF Register, Step
      <4>3. r.call # c
        BY <1>i, <4>1, <4>2
      <4> QED
        BY <1>0, <4>1, <4>2, <4>3 DEF CallsOK
    <3> QED
      BY <3>1 DEF Sent
  <2>2. Served' = Served
    BY <1>3 DEF Served
  <2> QED
    BY <1>0, <2>1, <2>2, SeqGrows, <1>3 DEF Register
<1>4. ASSUME NEW c \in Calls, Write(c), UNCHANGED <<hostVars, result>>
      PROVE  FrameInv'
  <2>1. Sent' = Sent /\ Served' = Served
    BY <1>4 DEF Write, Sent, Served
  <2>2. [call |-> c, id |-> id[c]] \in Sent /\ Torn \in Sent
    <3>1. id[c] \in Ids
      BY <1>0, <1>i, <1>4 DEF Write, Step, CallsOK, PendingStages
    <3> QED
      BY <3>1 DEF Sent, Request
  <2>3. requests' \in Seq(Sent)
    <3>1. CASE requests' = Append(requests, [call |-> c, id |-> id[c]])
      BY <1>0, <2>2, <3>1
    <3>2. CASE requests' = requests
      BY <1>0, <3>2
    <3>3. ASSUME NEW rest \in Leftovers(c), requests' = requests \o rest
          PROVE  requests' \in Seq(Sent)
      <4>1. rest = <<>> \/ rest = <<Torn>> \/ rest = <<[call |-> c, id |-> id[c]]>>
        BY <3>3 DEF Leftovers
      <4>2. <<>> \in Seq(Sent)
        OBVIOUS
      <4>3. <<Torn>> \in Seq(Sent)
        BY <2>2, Single
      <4>4. <<[call |-> c, id |-> id[c]]>> \in Seq(Sent)
        BY <2>2, Single
      <4>5. rest \in Seq(Sent)
        BY <4>1, <4>2, <4>3, <4>4
      <4> QED
        BY <1>0, <3>3, <4>5, ConcatProperties
    <3> QED
      BY <3>1, <3>2, <3>3, <1>4 DEF Write
  <2> QED
    BY <1>0, <2>1, <2>3, <1>4 DEF Write
<1>5. ASSUME NEW c \in Calls, Ensure(c), UNCHANGED <<hostVars, result>>
      PROVE  FrameInv'
  <2>1. Sent' = Sent /\ Served' = Served
    BY <1>5 DEF Ensure, Sent, Served
  <2> QED
    BY <1>0, <2>1, <1>5 DEF Ensure
<1>6. ASSUME NEW c \in Calls, Start(c), UNCHANGED <<hostVars, result>>
      PROVE  FrameInv'
  <2>1. Sent' = Sent /\ Served' = Served
    BY <1>6 DEF Start, Sent, Served
  <2> QED
    BY <1>0, <2>1, <1>6 DEF Start, Reader
<1>7. ASSUME NEW c \in Calls, Unstarted(c), UNCHANGED <<hostVars, result>>
      PROVE  FrameInv'
  <2>1. Sent' = Sent /\ Served' = Served
    BY <1>7 DEF Unstarted, Sent, Served
  <2> QED
    BY <1>0, <2>1, <1>7 DEF Unstarted
<1>8. ASSUME NEW c \in Calls, Return(c), UNCHANGED <<hostVars, result>>
      PROVE  FrameInv'
  <2>1. Sent' = Sent /\ Served' = Served
    BY <1>8 DEF Return, Sent, Served
  <2> QED
    BY <1>0, <2>1, <1>8 DEF Return
<1>9. ASSUME Check, UNCHANGED <<hostVars, result>>
      PROVE  FrameInv'
  <2>1. Sent' = Sent /\ Served' = Served
    BY <1>9 DEF Check, Sent, Served
  <2> QED
    BY <1>0, <2>1, <1>9 DEF Check, Reader
<1>10. ASSUME ReadAnswer, UNCHANGED <<hostVars, result>>
      PROVE  FrameInv'
  <2>1. Sent' = Sent /\ Served' = Served
    BY <1>10 DEF ReadAnswer, Sent, Served
  <2>2. CASE answers # <<>> /\ frame' = <<Head(answers)>> /\ answers' = Tail(answers)
    <3>1. Head(answers) \in Served /\ Tail(answers) \in Seq(Served)
      BY <1>0, <2>2
    <3>2. <<Head(answers)>> \in Seq(Served) /\ <<Head(answers)>> # <<>>
      BY <3>1, Single
    <3> QED
      BY <1>0, <2>1, <2>2, <3>1, <3>2, <1>10 DEF ReadAnswer
  <2>3. CASE reader' = "none" /\ UNCHANGED <<frame, answers>>
    BY <1>0, <2>1, <2>3, <1>10 DEF ReadAnswer
  <2> QED
    BY <2>2, <2>3, <1>10 DEF ReadAnswer, Reader
<1>11. ASSUME Dispatch, UNCHANGED <<hostVars, result>>
      PROVE  FrameInv'
  <2>1. Sent' = Sent /\ Served' = Served
    BY <1>11 DEF Dispatch, Sent, Served
  <2> QED
    BY <1>0, <2>1, <1>11 DEF Dispatch, Reader
<1>12. ASSUME FunctionReturns, UNCHANGED <<hostVars, result>>
      PROVE  FrameInv'
  <2>1. Sent' = Sent /\ Served' = Served
    BY <1>12 DEF FunctionReturns, Sent, Served
  <2> QED
    BY <1>0, <2>1, <1>12 DEF FunctionReturns, Main
<1>13. ASSUME ContextClosed, UNCHANGED <<hostVars, result>>
      PROVE  FrameInv'
  <2>1. Sent' = Sent /\ Served' = Served
    BY <1>13 DEF ContextClosed, Sent, Served
  <2> QED
    BY <1>0, <2>1, <1>13 DEF ContextClosed, Main
<1>14. ASSUME Respond, UNCHANGED <<hostVars, result>>
      PROVE  FrameInv'
  <2>1. Sent' = Sent /\ Served' = Served
    BY <1>14 DEF Respond, Sent, Served
  <2> QED
    BY <1>0, <2>1, <1>14 DEF Respond, Main
<1>15. ASSUME CloseStreams, UNCHANGED <<hostVars, result>>
      PROVE  FrameInv'
  <2>1. Sent' = Sent /\ Served' = Served
    BY <1>15 DEF CloseStreams, Sent, Served
  <2> QED
    BY <1>0, <2>1, <1>15 DEF CloseStreams, Main, Poison, RuntimeEnds
<1>16. ASSUME Exit, UNCHANGED <<hostVars, result>>
      PROVE  FrameInv'
  <2>1. Sent' = Sent /\ Served' = Served
    BY <1>16 DEF Exit, Sent, Served
  <2> QED
    BY <1>0, <2>1, <1>16 DEF Exit, Main, RuntimeEnds
<1>17. ASSUME Die, UNCHANGED <<hostVars, result>>
      PROVE  FrameInv'
  <2>1. Sent' = Sent /\ Served' = Served
    BY <1>17 DEF Die, Sent, Served
  <2> QED
    BY <1>0, <2>1, <1>17 DEF Die, Fault, RuntimeEnds, Gone
<1>18. ASSUME NoReader, UNCHANGED <<clientVars, result>>
      PROVE  FrameInv'
  <2>1. Sent' = Sent /\ Served' = Served
    BY <1>18 DEF NoReader, Sent, Served
  <2> QED
    BY <1>0, <2>1, <1>18 DEF NoReader, Fault, HostEnds, Seen
<1>19. ASSUME Take, UNCHANGED <<clientVars, result>>
      PROVE  FrameInv'
  <2>1. Sent' = Sent
    BY <1>19 DEF Sent
  <2>2. Served \subseteq Served'
    <3>1. \A a \in Answer : a.id \in Ids /\ worker[a.id] # "none" =>
            payload'[a.id] = payload[a.id] /\ worker'[a.id] # "none"
      <4> SUFFICES ASSUME NEW a \in Answer, a.id \in Ids, worker[a.id] # "none"
                   PROVE  payload'[a.id] = payload[a.id] /\ worker'[a.id] # "none"
        OBVIOUS
      <4>1. a.id \in Seen
        BY <1>j DEF Seen
      <4>2. CASE UNCHANGED <<worker, payload>>
        BY <4>2
      <4>3. ASSUME NEW q, q.id \notin Seen, payload' = [payload EXCEPT ![q.id] = q.call],
                   worker' = [worker EXCEPT ![q.id] = "running"] \/ worker' = worker
            PROVE  payload'[a.id] = payload[a.id] /\ worker'[a.id] # "none"
        BY <1>0, <4>1, <4>3 DEF HostOK
      <4> QED
        BY <4>2, <4>3, <1>19 DEF Take, StartWorker, Fail
    <3> QED
      BY <3>1 DEF Served, Answer
  <2>3. requests' \in Seq(Sent)
    BY <1>0, <1>19 DEF Take, StartWorker
  <2> QED
    BY <1>0, <2>1, <2>2, <2>3, SeqGrows, <1>19 DEF Take, StartWorker
<1>20. ASSUME TakeTorn, UNCHANGED <<clientVars, result>>
      PROVE  FrameInv'
  <2>1. Sent' = Sent /\ Served' = Served
    BY <1>20 DEF TakeTorn, Sent, Served
  <2> QED
    BY <1>0, <2>1, <1>20 DEF TakeTorn, Fail
<1>21. ASSUME TakeEnd, UNCHANGED <<clientVars, result>>
      PROVE  FrameInv'
  <2>1. Sent' = Sent /\ Served' = Served
    BY <1>21 DEF TakeEnd, Sent, Served
  <2> QED
    BY <1>0, <2>1, <1>21 DEF TakeEnd, RequestsEnded
<1>22. ASSUME Leave, UNCHANGED <<clientVars, result>>
      PROVE  FrameInv'
  <2>1. Sent' = Sent /\ Served' = Served
    BY <1>22 DEF Leave, Sent, Served
  <2> QED
    BY <1>0, <2>1, <1>22 DEF Leave
<1>23. ASSUME Join, UNCHANGED <<clientVars, result>>
      PROVE  FrameInv'
  <2>1. Sent' = Sent /\ Served' = Served
    BY <1>23 DEF Join, Sent, Served
  <2> QED
    BY <1>0, <2>1, <1>23 DEF Join
<1>24. ASSUME NEW i \in Ids, Work(i), UNCHANGED <<clientVars, result>>
      PROVE  FrameInv'
  <2>1. Sent' = Sent
    BY <1>24 DEF Sent
  <2>2. Served \subseteq Served'
    BY <1>0, <1>24 DEF Served, Answer, HostOK, Thread, Work
  <2> QED
    BY <1>0, <2>1, <2>2, SeqGrows, <1>24 DEF Work
<1>25. ASSUME NEW i \in Ids, WriteAnswer(i), UNCHANGED <<clientVars, result>>
      PROVE  FrameInv'
  <2>1. Sent' = Sent
    BY <1>25 DEF Sent
  <2>2. Served \subseteq Served'
    BY <1>0, <1>25 DEF Served, Answer, HostOK, Thread, WriteAnswer
  <2>3. [id |-> i, call |-> payload[i]] \in Served
    <3>1. worker[i] # "none" /\ payload[i] \in Calls
      BY <1>0, <1>j, <1>25 DEF HostOK, Thread, WriteAnswer
    <3> QED
      BY <3>1 DEF Served, Answer
  <2>4. answers' \in Seq(Served)
    <3>1. answers' = answers \/ answers' = Append(answers, [id |-> i, call |-> payload[i]])
      BY <1>25 DEF WriteAnswer
    <3> QED
      BY <1>0, <2>3, <3>1
  <2> QED
    BY <1>0, <2>1, <2>2, <2>4, SeqGrows, <1>25 DEF WriteAnswer
<1>26. ASSUME NEW i \in Ids, Reap(i), UNCHANGED <<clientVars, result>>
      PROVE  FrameInv'
  <2>1. Sent' = Sent
    BY <1>26 DEF Sent
  <2>2. Served \subseteq Served'
    BY <1>0, <1>26 DEF Served, Answer, HostOK, Thread, Reap
  <2> QED
    BY <1>0, <2>1, <2>2, SeqGrows, <1>26 DEF Reap
<1>27. ASSUME Kill
      PROVE  FrameInv'
  <2>1. Sent' = Sent /\ Served' = Served
    BY <1>27 DEF Kill, Sent, Served
  <2> QED
    BY <1>0, <2>1, <1>27 DEF Kill, RuntimeEnds, Gone
<1>28. ASSUME Conclude
      PROVE  FrameInv'
  <2>1. Sent' = Sent /\ Served' = Served
    BY <1>28 DEF Conclude, Sent, Served
  <2> QED
    BY <1>0, <2>1, <1>28 DEF Conclude, Gone
<1> QED
  BY <1>1, <1>2, <1>3, <1>4, <1>5, <1>6, <1>7, <1>8, <1>9, <1>10, <1>11, <1>12, <1>13, <1>14,
     <1>15, <1>16, <1>17, <1>18, <1>19, <1>20, <1>21, <1>22, <1>23, <1>24, <1>25, <1>26, <1>27,
     <1>28
     DEF Next, Client, ClientNext, CallStep, ReaderStep, MainStep, Host, HostStep, PumpStep, WorkerStep

(* Each step keeps the invariant. *)
LEMMA NextIInv == IInv /\ [Next]_vars => IInv'
<1> SUFFICES ASSUME IInv, [Next]_vars PROVE IInv'
  OBVIOUS
<1>1. /\ FlagsOK /\ CallsOK /\ HostOK /\ CountOK /\ ThreadsOK /\ PipesOK
      /\ IdInv /\ BegunInv /\ FrameInv /\ NoCallIsStranded /\ EndInv
  BY TypeParts DEF IInv
<1>2. FrameInv' => PipesOK'
  BY FramesAreTyped, PTL
<1>3. FlagsOK' /\ ThreadsOK' /\ CallsOK' /\ HostOK'
  BY <1>1, FlagsKept, ThreadsKept, CallsKept, HostKept
<1>4. FrameInv' /\ IdInv' /\ BegunInv' /\ CountOK' /\ NoCallIsStranded' /\ EndInv'
  BY <1>1, FramesKept, IdKept, BegunKept, ReleaseKept, EndKept
<1>5. TypeOK'
  BY <1>2, <1>3, <1>4, TypeParts, PTL
<1> QED
  BY <1>4, <1>5 DEF IInv

-----------------------------------------------------------------------------

\* The inductive invariant holds for any calls, ids, capacity and faults.
THEOREM Inductive == Spec => []IInv
BY InitIInv, NextIInv, PTL DEF Spec

\* Type correctness of both sides and of the pipes.
THEOREM TypeCorrect == Spec => []TypeOK
<1>1. IInv => TypeOK
  BY DEF IInv
<1> QED
  BY <1>1, Inductive, PTL

\* Nobody waits for ever: what ends the channel releases every call, and a
\* call that waits has a reader or one that is about to end the channel.
THEOREM NoneStranded == Spec => []NoCallIsStranded
<1>1. IInv => NoCallIsStranded
  BY DEF IInv
<1> QED
  BY <1>1, Inductive, PTL

\* When the exchange is over no worker executes a call, and a Run is accepted
\* only if its Runtime ended in order with every call back.
THEOREM EndsQuietly == Spec => []ExchangeIsQuiet
<1>1. IInv => ExchangeIsQuiet
  BY DEF IInv, EndInv, ExchangeIsQuiet, AcceptedRunIsQuiet, NoCallIsStranded, PoisonReleasesAll
<1> QED
  BY <1>1, Inductive, PTL

\* A Workflow that returned with calls under way is never accepted, and a
\* closed Context lets no call through.
THEOREM StaysQuiet == Spec => ClosedContextStaysQuiet
<1>1. IInv /\ [Next]_vars =>
        [/\ context = "closed" => nextId' = nextId
         /\ result' = "accepted" /\ result = "none" => ~busy]_vars
  <2> SUFFICES ASSUME IInv, Next
               PROVE  /\ context = "closed" => nextId' = nextId
                      /\ result' = "accepted" /\ result = "none" => ~busy
    OBVIOUS
  <2> USE DEF pipes, calling, reading, main, clientVars, hostVars
  <2>1. /\ context = "closed" => \A c \in Calls : stage[c] # "entered"
        /\ busy /\ runtime = "exited" => outcome = "failure"
    BY DEF IInv, EndInv, Active
  <2>2. nextId' = nextId \/ \E c \in Calls : stage[c] = "entered"
    BY DEF Next, Client, ClientNext, CallStep, ReaderStep, MainStep, Host, Kill, Conclude, Enter, Register,
           Write, Ensure, Start, Unstarted, Return, Check, ReadAnswer, Dispatch, FunctionReturns, ContextClosed,
           Respond, CloseStreams, Exit, Die, Step
  <2>3. result' = "accepted" /\ result = "none" => runtime = "exited" /\ outcome = "success"
    BY DEF Next, Client, Host, Kill, Conclude
  <2> QED
    BY <2>1, <2>2, <2>3
<1> QED
  BY <1>1, Inductive, PTL DEF Spec, ClosedContextStaysQuiet

-----------------------------------------------------------------------------
(* Client, pipes and pump together implement CallContract.                   *)

\* The status of every call; begun stands for itself in the contract.
StatusNow == [c \in Calls |-> Status(c)]

(* A step of the contract, in these names. *)
LEMMA ContractStep ==
  ASSUME \/ UNCHANGED <<StatusNow, begun>>
         \/ \E c \in Calls :
              \/ /\ StatusNow[c] = "idle" /\ StatusNow' = [StatusNow EXCEPT ![c] = "open"]
                 /\ UNCHANGED begun
              \/ /\ StatusNow[c] = "open" /\ StatusNow' = [StatusNow EXCEPT ![c] = "refused"]
                 /\ UNCHANGED begun
              \/ /\ begun[c] = 1
                 /\ StatusNow[c] = "open" /\ StatusNow' = [StatusNow EXCEPT ![c] = "answered"]
                 /\ UNCHANGED begun
              \/ /\ StatusNow[c] # "idle" /\ begun[c] = 0 /\ begun' = [begun EXCEPT ![c] = 1]
                 /\ UNCHANGED StatusNow
  PROVE  [Promise!CallNext]_(Promise!ccvars)
BY DEF StatusNow, Promise!CallNext, Promise!ccvars, Promise!Move, Promise!Begin, Promise!Refuse,
       Promise!Satisfy, Promise!Execute

(* The status of a call follows from its stage and, at its end, its answer. *)
LEMMA StatusStays ==
  ASSUME \A c \in Calls : /\ stage[c] = "idle" <=> stage'[c] = "idle"
                          /\ stage[c] = "done" <=> stage'[c] = "done"
                          /\ stage[c] = "done" => answer'[c] = answer[c]
  PROVE  UNCHANGED StatusNow
BY DEF StatusNow, Status

(* The status of one call changes. *)
LEMMA StatusMoves ==
  ASSUME NEW c \in Calls, NEW s,
         \A d \in Calls : d # c => /\ stage[d] = "idle" <=> stage'[d] = "idle"
                                   /\ stage[d] = "done" <=> stage'[d] = "done"
                                   /\ stage[d] = "done" => answer'[d] = answer[d],
         StatusNow'[c] = s
  PROVE  StatusNow' = [StatusNow EXCEPT ![c] = s]
<1>1. \A d \in Calls : d # c => StatusNow'[d] = StatusNow[d]
  BY DEF StatusNow, Status
<1>2. StatusNow = [d \in Calls |-> StatusNow[d]] /\ StatusNow' = [d \in Calls |-> StatusNow'[d]]
  BY DEF StatusNow
<1> QED
  BY <1>1, <1>2

(* Each step of both sides is a step of the contract, or a stutter of it. *)
LEMMA RefineStep ==
  ASSUME IInv, IInv', [Next]_vars
  PROVE  [Promise!CallNext]_(Promise!ccvars)
<1>0. /\ CallsOK /\ HostOK /\ CallsOK' /\ HostOK' /\ IdInv /\ IdInv' /\ BegunInv /\ FrameInv
      /\ "none" \notin Calls /\ "channel" \notin Calls /\ NoCall \notin Calls /\ NoId \notin Ids
  <2>1. TypeOK /\ TypeOK' /\ IdInv /\ IdInv' /\ BegunInv /\ FrameInv
    BY DEF IInv
  <2>2. CallsOK' /\ HostOK'
    BY <2>1, TypeParts, PTL
  <2> QED
    BY <2>1, <2>2, TypeParts, CallsAssumption, IdsAssumption DEF Ids
<1> USE DEF pipes, calling, reading, main, clientVars, hostVars
<1>1. ASSUME NEW c \in Calls, Enter(c), UNCHANGED <<hostVars, result>>
      PROVE  [Promise!CallNext]_(Promise!ccvars)
  <2>1. UNCHANGED begun
    BY <1>1
  <2>2. stage[c] = "idle" /\ stage' = [stage EXCEPT ![c] = "entered"] /\ UNCHANGED answer
    BY <1>1 DEF Enter, Step
  <2>3. StatusNow'[c] = "open" /\ StatusNow[c] = "idle"
    BY <1>0, <2>2 DEF Status, StatusNow, CallsOK
  <2>4. StatusNow' = [StatusNow EXCEPT ![c] = "open"]
    BY <1>0, <2>2, <2>3, StatusMoves DEF CallsOK
  <2> QED
    BY <2>1, <2>3, <2>4, ContractStep
<1>2. ASSUME NEW c \in Calls, Register(c), UNCHANGED <<hostVars, result>>
      PROVE  [Promise!CallNext]_(Promise!ccvars)
  <2>1. UNCHANGED begun
    BY <1>2
  <2>2. CASE stage' = [stage EXCEPT ![c] = "write"]
    <3>1. stage[c] = "entered" /\ UNCHANGED answer
      BY <1>0, <1>2, <2>2 DEF Register, Step, CallsOK
    <3>2. UNCHANGED StatusNow
      BY <1>0, <2>2, <3>1, StatusStays DEF CallsOK
    <3> QED
      BY <2>1, <3>2, ContractStep
  <2>3. CASE stage' = [stage EXCEPT ![c] = "done"]
    <3>1. /\ stage[c] = "entered" /\ answer'[c] = "channel"
          /\ \A d \in Calls : d # c /\ stage[d] = "done" => answer'[d] = answer[d]
      BY <1>0, <1>2, <2>3 DEF Register, Step, CallsOK, Unanswered, Pending, PendingStages
    <3>2. StatusNow'[c] = "refused" /\ StatusNow[c] = "open"
      BY <1>0, <2>3, <3>1 DEF Status, StatusNow, CallsOK
    <3>3. StatusNow' = [StatusNow EXCEPT ![c] = "refused"]
      BY <1>0, <2>3, <3>1, <3>2, StatusMoves DEF CallsOK
    <3> QED
      BY <2>1, <3>2, <3>3, ContractStep
  <2> QED
    BY <2>2, <2>3, <1>2 DEF Register, Step
<1>3. ASSUME NEW c \in Calls, Write(c), UNCHANGED <<hostVars, result>>
      PROVE  [Promise!CallNext]_(Promise!ccvars)
  <2>1. UNCHANGED begun
    BY <1>3
  <2>2. UNCHANGED StatusNow
    BY <1>0, <1>3, StatusStays DEF Write, Step, Poison, Unanswered, Pending, CallsOK, PendingStages
  <2> QED
    BY <2>1, <2>2, ContractStep
<1>4. ASSUME NEW c \in Calls, Ensure(c), UNCHANGED <<hostVars, result>>
      PROVE  [Promise!CallNext]_(Promise!ccvars)
  <2>1. UNCHANGED begun
    BY <1>4
  <2>2. UNCHANGED StatusNow
    BY <1>0, <1>4, StatusStays DEF Ensure, Step, CallsOK, PendingStages
  <2> QED
    BY <2>1, <2>2, ContractStep
<1>5. ASSUME NEW c \in Calls, Start(c), UNCHANGED <<hostVars, result>>
      PROVE  [Promise!CallNext]_(Promise!ccvars)
  <2>1. UNCHANGED begun
    BY <1>5
  <2>2. UNCHANGED StatusNow
    BY <1>0, <1>5, StatusStays DEF Start, Step, CallsOK, PendingStages
  <2> QED
    BY <2>1, <2>2, ContractStep
<1>6. ASSUME NEW c \in Calls, Unstarted(c), UNCHANGED <<hostVars, result>>
      PROVE  [Promise!CallNext]_(Promise!ccvars)
  <2>1. UNCHANGED begun
    BY <1>6
  <2>2. UNCHANGED StatusNow
    BY <1>0, <1>6, StatusStays DEF Unstarted, Step, Poison, Unanswered, Pending, CallsOK, PendingStages
  <2> QED
    BY <2>1, <2>2, ContractStep
<1>7. ASSUME NEW c \in Calls, Return(c), UNCHANGED <<hostVars, result>>
      PROVE  [Promise!CallNext]_(Promise!ccvars)
  <2>1. UNCHANGED begun
    BY <1>7
  <2>2. /\ stage[c] = "wait" /\ stage' = [stage EXCEPT ![c] = "done"]
        /\ answer[c] # "none" /\ UNCHANGED answer
    BY <1>7 DEF Return, Step
  <2>3. \A d \in Calls : d # c => stage'[d] = stage[d]
    BY <1>0, <2>2 DEF CallsOK
  <2>4. StatusNow[c] = "open" /\ stage'[c] = "done"
    BY <1>0, <2>2 DEF StatusNow, Status, CallsOK
  <2>5. CASE answer[c] = "channel"
    <3>1. StatusNow'[c] = "refused"
      BY <1>0, <2>2, <2>4, <2>5 DEF StatusNow, Status
    <3>2. StatusNow' = [StatusNow EXCEPT ![c] = "refused"]
      BY <2>2, <2>3, <3>1, StatusMoves
    <3> QED
      BY <2>1, <2>4, <3>2, ContractStep
  <2>6. CASE answer[c] = c /\ id[c] \in Ids /\ payload[id[c]] = c /\ worker[id[c]] # "none"
    <3>1. StatusNow'[c] = "answered"
      BY <1>0, <2>2, <2>4, <2>6 DEF StatusNow, Status
    <3>2. StatusNow' = [StatusNow EXCEPT ![c] = "answered"]
      BY <2>2, <2>3, <3>1, StatusMoves
    <3>3. begun[c] = 1
      BY <1>0, <2>6 DEF BegunInv, HasWorker
    <3> QED
      BY <2>1, <2>4, <3>2, <3>3, ContractStep
  <2> QED
    BY <1>0, <2>2, <2>5, <2>6 DEF IdInv
<1>8. ASSUME Check, UNCHANGED <<hostVars, result>>
      PROVE  [Promise!CallNext]_(Promise!ccvars)
  <2>1. UNCHANGED begun
    BY <1>8
  <2>2. UNCHANGED StatusNow
    BY <1>0, <1>8, StatusStays DEF Check, CallsOK, PendingStages
  <2> QED
    BY <2>1, <2>2, ContractStep
<1>9. ASSUME ReadAnswer, UNCHANGED <<hostVars, result>>
      PROVE  [Promise!CallNext]_(Promise!ccvars)
  <2>1. UNCHANGED begun
    BY <1>9
  <2>2. UNCHANGED StatusNow
    BY <1>0, <1>9, StatusStays DEF ReadAnswer, Poison, Unanswered, Pending, CallsOK, PendingStages
  <2> QED
    BY <2>1, <2>2, ContractStep
<1>10. ASSUME Dispatch, UNCHANGED <<hostVars, result>>
      PROVE  [Promise!CallNext]_(Promise!ccvars)
  <2>1. UNCHANGED begun
    BY <1>10
  <2>2. UNCHANGED StatusNow
    BY <1>0, <1>10, StatusStays DEF Dispatch, Poison, Unanswered, Pending, CallsOK, PendingStages
  <2> QED
    BY <2>1, <2>2, ContractStep
<1>11. ASSUME FunctionReturns, UNCHANGED <<hostVars, result>>
      PROVE  [Promise!CallNext]_(Promise!ccvars)
  <2>1. UNCHANGED begun
    BY <1>11
  <2>2. UNCHANGED StatusNow
    BY <1>0, <1>11, StatusStays DEF FunctionReturns, CallsOK, PendingStages
  <2> QED
    BY <2>1, <2>2, ContractStep
<1>12. ASSUME ContextClosed, UNCHANGED <<hostVars, result>>
      PROVE  [Promise!CallNext]_(Promise!ccvars)
  <2>1. UNCHANGED begun
    BY <1>12
  <2>2. UNCHANGED StatusNow
    BY <1>0, <1>12, StatusStays DEF ContextClosed, CallsOK, PendingStages
  <2> QED
    BY <2>1, <2>2, ContractStep
<1>13. ASSUME Respond, UNCHANGED <<hostVars, result>>
      PROVE  [Promise!CallNext]_(Promise!ccvars)
  <2>1. UNCHANGED begun
    BY <1>13
  <2>2. UNCHANGED StatusNow
    BY <1>0, <1>13, StatusStays DEF Respond, CallsOK, PendingStages
  <2> QED
    BY <2>1, <2>2, ContractStep
<1>14. ASSUME CloseStreams, UNCHANGED <<hostVars, result>>
      PROVE  [Promise!CallNext]_(Promise!ccvars)
  <2>1. UNCHANGED begun
    BY <1>14
  <2>2. UNCHANGED StatusNow
    BY <1>0, <1>14, StatusStays DEF CloseStreams, Poison, Unanswered, Pending, CallsOK, PendingStages
  <2> QED
    BY <2>1, <2>2, ContractStep
<1>15. ASSUME Exit, UNCHANGED <<hostVars, result>>
      PROVE  [Promise!CallNext]_(Promise!ccvars)
  <2>1. UNCHANGED begun
    BY <1>15
  <2>2. UNCHANGED StatusNow
    BY <1>0, <1>15, StatusStays DEF Exit, CallsOK, PendingStages
  <2> QED
    BY <2>1, <2>2, ContractStep
<1>16. ASSUME Die, UNCHANGED <<hostVars, result>>
      PROVE  [Promise!CallNext]_(Promise!ccvars)
  <2>1. UNCHANGED begun
    BY <1>16
  <2>2. UNCHANGED StatusNow
    BY <1>0, <1>16, StatusStays DEF Die, CallsOK, PendingStages
  <2> QED
    BY <2>1, <2>2, ContractStep
<1>17. ASSUME NoReader, UNCHANGED <<clientVars, result>>
      PROVE  [Promise!CallNext]_(Promise!ccvars)
  <2>1. UNCHANGED StatusNow
    BY <1>17 DEF StatusNow, Status
  <2>2. UNCHANGED begun
    BY <1>17 DEF NoReader
  <2> QED
    BY <2>1, <2>2, ContractStep
<1>18. ASSUME Take, UNCHANGED <<clientVars, result>>
      PROVE  [Promise!CallNext]_(Promise!ccvars)
  <2>1. UNCHANGED StatusNow
    BY <1>18 DEF StatusNow, Status
  <2>2. CASE UNCHANGED begun
    BY <2>1, <2>2, ContractStep
  <2>3. ASSUME NEW q, q = Head(requests), q.id \notin Seen, begun' = [begun EXCEPT ![q.call] = @ + 1]
        PROVE  [Promise!CallNext]_(Promise!ccvars)
    <3>1. q \in Request /\ q.id = id[q.call]
      BY <1>0, <2>3, <1>18 DEF Take, StartWorker, FrameInv, Sent
    <3>2. q.call \in Calls /\ q.id \in Ids /\ payload[q.id] = NoCall
      BY <2>3, <3>1 DEF Request, Seen
    <3>3. stage[q.call] # "idle"
      BY <1>0, <3>1, <3>2 DEF IdInv
    <3>4. begun[q.call] = 0
      BY <1>0, <3>1, <3>2 DEF BegunInv, HasWorker
    <3>5. begun' = [begun EXCEPT ![q.call] = 1]
      BY <2>3, <3>4
    <3>6. StatusNow[q.call] # "idle"
      BY <3>2, <3>3 DEF StatusNow, Status
    <3> QED
      BY <2>1, <3>2, <3>4, <3>5, <3>6, ContractStep
  <2> QED
    BY <2>2, <2>3, <1>18 DEF Take, StartWorker, Fail
<1>19. ASSUME TakeTorn, UNCHANGED <<clientVars, result>>
      PROVE  [Promise!CallNext]_(Promise!ccvars)
  <2>1. UNCHANGED StatusNow
    BY <1>19 DEF StatusNow, Status
  <2>2. UNCHANGED begun
    BY <1>19 DEF TakeTorn
  <2> QED
    BY <2>1, <2>2, ContractStep
<1>20. ASSUME TakeEnd, UNCHANGED <<clientVars, result>>
      PROVE  [Promise!CallNext]_(Promise!ccvars)
  <2>1. UNCHANGED StatusNow
    BY <1>20 DEF StatusNow, Status
  <2>2. UNCHANGED begun
    BY <1>20 DEF TakeEnd
  <2> QED
    BY <2>1, <2>2, ContractStep
<1>21. ASSUME Leave, UNCHANGED <<clientVars, result>>
      PROVE  [Promise!CallNext]_(Promise!ccvars)
  <2>1. UNCHANGED StatusNow
    BY <1>21 DEF StatusNow, Status
  <2>2. UNCHANGED begun
    BY <1>21 DEF Leave
  <2> QED
    BY <2>1, <2>2, ContractStep
<1>22. ASSUME Join, UNCHANGED <<clientVars, result>>
      PROVE  [Promise!CallNext]_(Promise!ccvars)
  <2>1. UNCHANGED StatusNow
    BY <1>22 DEF StatusNow, Status
  <2>2. UNCHANGED begun
    BY <1>22 DEF Join
  <2> QED
    BY <2>1, <2>2, ContractStep
<1>23. ASSUME NEW i \in Ids, Work(i), UNCHANGED <<clientVars, result>>
      PROVE  [Promise!CallNext]_(Promise!ccvars)
  <2>1. UNCHANGED StatusNow
    BY <1>23 DEF StatusNow, Status
  <2>2. UNCHANGED begun
    BY <1>23 DEF Work
  <2> QED
    BY <2>1, <2>2, ContractStep
<1>24. ASSUME NEW i \in Ids, WriteAnswer(i), UNCHANGED <<clientVars, result>>
      PROVE  [Promise!CallNext]_(Promise!ccvars)
  <2>1. UNCHANGED StatusNow
    BY <1>24 DEF StatusNow, Status
  <2>2. UNCHANGED begun
    BY <1>24 DEF WriteAnswer
  <2> QED
    BY <2>1, <2>2, ContractStep
<1>25. ASSUME NEW i \in Ids, Reap(i), UNCHANGED <<clientVars, result>>
      PROVE  [Promise!CallNext]_(Promise!ccvars)
  <2>1. UNCHANGED StatusNow
    BY <1>25 DEF StatusNow, Status
  <2>2. UNCHANGED begun
    BY <1>25 DEF Reap
  <2> QED
    BY <2>1, <2>2, ContractStep
<1>26. CASE Kill
  <2>1. UNCHANGED <<StatusNow, begun>>
    BY <1>26 DEF Kill, StatusNow, Status
  <2> QED
    BY <2>1, ContractStep
<1>27. CASE Conclude
  <2>1. UNCHANGED <<StatusNow, begun>>
    BY <1>27 DEF Conclude, StatusNow, Status
  <2> QED
    BY <2>1, ContractStep
<1>28. CASE UNCHANGED vars
  <2>1. UNCHANGED <<StatusNow, begun>>
    BY <1>28 DEF vars, StatusNow, Status
  <2> QED
    BY <2>1, ContractStep
<1> QED
  BY <1>1, <1>2, <1>3, <1>4, <1>5, <1>6, <1>7, <1>8, <1>9, <1>10, <1>11, <1>12, <1>13, <1>14,
     <1>15, <1>16, <1>17, <1>18, <1>19, <1>20, <1>21, <1>22, <1>23, <1>24, <1>25, <1>26, <1>27,
     <1>28
     DEF Next, Client, ClientNext, CallStep, ReaderStep, MainStep, Host, HostStep, PumpStep, WorkerStep

\* Client, pipes and pump together keep the promise of a call, for any calls
\* and faults: the Host starts at most one worker for it, it is answered with
\* its own outcome and only after that execution, or refused, and then it is
\* over.
THEOREM Refinement == Spec => ImplementsCalls
<1>1. Init => Promise!CallInit
  BY DEF Init, ClientInit, HostInit, Promise!CallInit, Status, Seen
<1>2. IInv /\ IInv' /\ [Next]_vars => [Promise!CallNext]_(Promise!ccvars)
  BY RefineStep
<1> QED
  BY <1>1, <1>2, Inductive, PTL DEF Spec, ImplementsCalls, Promise!CallSpec
=============================================================================
