------------------------- MODULE TestSessionsProofs -------------------------
(***************************************************************************)
(* Theorems about TestSessions, for any number of tests and calls.  The    *)
(* argument: a worker shares a scope exactly while it executes, and only   *)
(* the scope of a session that is known (ShareInv); a session that is      *)
(* ended beside a call of it is noted (HasteInv); a note is kept by the    *)
(* time its call is answered (NoteInv); nothing moves once the exchange is *)
(* over (EndInv).                                                          *)
(***************************************************************************)
EXTENDS TestSessions, TLAPS

\* Who shares the scope of a session, and which sessions are known.
Sharing == {"executing", "noted", "collected"}
ShareInv ==
  /\ \A c \in Calls : c \in held <=> stage[c] \in Sharing
  /\ \A c \in Calls : stage[c] # "idle" =>
       of[c] \in Sessions /\ scope[of[c]] \in {"open", "end", "closed", "unclosed"}
  /\ \A c \in held : of[c] \in sessions
  /\ \A s \in sessions : scope[s] \in {"open", "end", "unclosed"}
  /\ command = "running" =>
       storage /\ \A s \in Sessions : scope[s] \in {"open", "end"} => s \in sessions

\* The tests that do not wait for their calls.
HasteInv ==
  /\ \A c \in Calls : stage[c] \notin {"idle", "answered"} /\ scope[of[c]] = "end" => of[c] \in hasty
  /\ OrderlyTestCloses

\* Where the note of a call is.
NoteInv ==
  /\ \A s \in Sessions : \A c \in notes[s] : of[c] = s /\ stage[c] = "noted"
  /\ \A c \in executed : c \in kept \/ \E s \in Sessions : c \in notes[s]

\* Before the Runtime and after the exchange nothing moves.
EndInv ==
  /\ command = "new" =>
       /\ answer = "none" /\ executed = {}
       /\ \A c \in Calls : stage[c] = "idle"
       /\ \A s \in Sessions : scope[s] = "none"
  /\ command \in {"concluded", "answered"} =>
       /\ executed \subseteq logged
       /\ \A c \in Calls : stage[c] \notin WorkStage
       /\ pump = "on" => \A c \in Calls : stage[c] # "sent"
  /\ verdict = "success" => \A s \in Sessions : scope[s] \in {"none", "closed"}
  /\ answer # "none" => command = "answered"
  /\ answer = "success" => pump = "on" /\ verdict = "success" /\ report

\* The inductive invariant.
IInv == TypeOK /\ ShareInv /\ HasteInv /\ NoteInv /\ EndInv

(* The first state. *)
LEMMA InitIInv == Init => IInv
<1> SUFFICES ASSUME Init PROVE IInv
  OBVIOUS
<1> USE NoSessionAssumption DEF Init
<1>1. TypeOK
  <2>1. storage \in BOOLEAN /\ report \in BOOLEAN
    OBVIOUS
  <2> QED
    BY <2>1 DEF TypeOK, ScopeStage, CallStage
<1>2. ShareInv /\ HasteInv /\ NoteInv /\ EndInv
  BY DEF ShareInv, HasteInv, NoteInv, EndInv, OrderlyTestCloses, Sharing, WorkStage
<1> QED
  BY <1>1, <1>2 DEF IInv

\* The parts of TypeOK: flags, and the rest.
FlagsOK == storage \in BOOLEAN /\ report \in BOOLEAN
StateOK ==
  /\ command \in {"new", "running", "concluded", "answered"}
  /\ pump \in {"on", "failed"}
  /\ runtime \in {"none", "running", "exited", "dead"}
  /\ verdict \in {"none", "success", "failure"}
  /\ mirror \in {"none", "on", "over", "failed"}
  /\ answer \in {"none", "success", "failure"}
TablesOK ==
  /\ sessions \subseteq Sessions
  /\ scope \in [Sessions -> ScopeStage]
  /\ of \in [Calls -> Sessions \cup {NoSession}]
  /\ stage \in [Calls -> CallStage]
  /\ hasty \subseteq Sessions
  /\ held \subseteq Calls
NotesOK ==
  /\ notes \in [Sessions -> SUBSET Calls]
  /\ kept \in SUBSET Calls /\ logged \in SUBSET Calls /\ executed \in SUBSET Calls

(* They are all of it. *)
LEMMA TypeParts == TypeOK <=> FlagsOK /\ StateOK /\ TablesOK /\ NotesOK
BY DEF TypeOK, FlagsOK, StateOK, TablesOK, NotesOK

(* Flags. *)
LEMMA FlagStep == FlagsOK /\ [Next]_vars => FlagsOK'
<1> SUFFICES ASSUME FlagsOK, [Next]_vars PROVE FlagsOK'
  OBVIOUS
<1>0. FlagsOK
  OBVIOUS
<1> USE DEF FlagsOK
<1> USE DEF hostVars, testVars, endVars
<1>1. CASE UNCHANGED vars
  BY <1>0, <1>1 DEF vars
<1>2. ASSUME NEW s \in Sessions, BeginSession(s) PROVE FlagsOK'
  BY <1>0, <1>2 DEF BeginSession, InTest
<1>3. ASSUME NEW s \in Sessions, EndSession(s) PROVE FlagsOK'
  BY <1>0, <1>3 DEF EndSession, InTest, Waiting
<1>4. ASSUME NEW s \in Sessions, NEW c \in Calls, Call(c, s) PROVE FlagsOK'
  BY <1>0, <1>4 DEF Call, InTest
<1>5. CASE Finish
  BY <1>0, <1>5 DEF Finish, InTest
<1>6. CASE Exit
  BY <1>0, <1>6 DEF Exit
<1>7. CASE Die
  BY <1>0, <1>7 DEF Die
<1>8. ASSUME NEW s \in Sessions, HostBegin(s) PROVE FlagsOK'
  BY <1>0, <1>8 DEF HostBegin, Deliver
<1>9. ASSUME NEW s \in Sessions, HostEnd(s) PROVE FlagsOK'
  BY <1>0, <1>9 DEF HostEnd, Deliver, IsIdle
<1>10. ASSUME NEW c \in Calls, LookUp(c) PROVE FlagsOK'
  BY <1>0, <1>10 DEF LookUp, CallStep
<1>11. ASSUME NEW c \in Calls, Execute(c) PROVE FlagsOK'
  BY <1>0, <1>11 DEF Execute, CallStep
<1>12. ASSUME NEW c \in Calls, Collect(c) PROVE FlagsOK'
  BY <1>0, <1>12 DEF Collect, CallStep
<1>13. ASSUME NEW c \in Calls, Release(c) PROVE FlagsOK'
  BY <1>0, <1>13 DEF Release, CallStep
<1>14. ASSUME NEW c \in Calls, Answer(c) PROVE FlagsOK'
  BY <1>0, <1>14 DEF Answer, CallStep, Deliver
<1>15. CASE Reject
  BY <1>0, <1>15 DEF Reject
<1>16. CASE Start
  BY <1>0, <1>16 DEF Start
<1>17. CASE Mirror
  BY <1>0, <1>17 DEF Mirror
<1>18. CASE Conclude
  BY <1>0, <1>18 DEF Conclude, Drained
<1>19. CASE Respond
  BY <1>0, <1>19 DEF Respond
<1> QED
  BY <1>1, <1>2, <1>3, <1>4, <1>5, <1>6, <1>7, <1>8, <1>9, <1>10, <1>11, <1>12, <1>13, <1>14,
     <1>15, <1>16, <1>17, <1>18, <1>19
     DEF Next, TestStep, WorkerStep, CommandStep

(* How far the command is. *)
LEMMA StateStep == StateOK /\ [Next]_vars => StateOK'
<1> SUFFICES ASSUME StateOK, [Next]_vars PROVE StateOK'
  OBVIOUS
<1>0. StateOK
  OBVIOUS
<1> USE DEF StateOK
<1> USE DEF hostVars, testVars, endVars
<1>1. CASE UNCHANGED vars
  BY <1>0, <1>1 DEF vars
<1>2. ASSUME NEW s \in Sessions, BeginSession(s) PROVE StateOK'
  BY <1>0, <1>2 DEF BeginSession, InTest
<1>3. ASSUME NEW s \in Sessions, EndSession(s) PROVE StateOK'
  BY <1>0, <1>3 DEF EndSession, InTest, Waiting
<1>4. ASSUME NEW s \in Sessions, NEW c \in Calls, Call(c, s) PROVE StateOK'
  BY <1>0, <1>4 DEF Call, InTest
<1>5. CASE Finish
  BY <1>0, <1>5 DEF Finish, InTest
<1>6. CASE Exit
  BY <1>0, <1>6 DEF Exit
<1>7. CASE Die
  BY <1>0, <1>7 DEF Die
<1>8. ASSUME NEW s \in Sessions, HostBegin(s) PROVE StateOK'
  BY <1>0, <1>8 DEF HostBegin, Deliver
<1>9. ASSUME NEW s \in Sessions, HostEnd(s) PROVE StateOK'
  BY <1>0, <1>9 DEF HostEnd, Deliver, IsIdle
<1>10. ASSUME NEW c \in Calls, LookUp(c) PROVE StateOK'
  BY <1>0, <1>10 DEF LookUp, CallStep
<1>11. ASSUME NEW c \in Calls, Execute(c) PROVE StateOK'
  BY <1>0, <1>11 DEF Execute, CallStep
<1>12. ASSUME NEW c \in Calls, Collect(c) PROVE StateOK'
  BY <1>0, <1>12 DEF Collect, CallStep
<1>13. ASSUME NEW c \in Calls, Release(c) PROVE StateOK'
  BY <1>0, <1>13 DEF Release, CallStep
<1>14. ASSUME NEW c \in Calls, Answer(c) PROVE StateOK'
  BY <1>0, <1>14 DEF Answer, CallStep, Deliver
<1>15. CASE Reject
  BY <1>0, <1>15 DEF Reject
<1>16. CASE Start
  BY <1>0, <1>16 DEF Start
<1>17. CASE Mirror
  BY <1>0, <1>17 DEF Mirror
<1>18. CASE Conclude
  BY <1>0, <1>18 DEF Conclude, Drained
<1>19. CASE Respond
  BY <1>0, <1>19 DEF Respond
<1> QED
  BY <1>1, <1>2, <1>3, <1>4, <1>5, <1>6, <1>7, <1>8, <1>9, <1>10, <1>11, <1>12, <1>13, <1>14,
     <1>15, <1>16, <1>17, <1>18, <1>19
     DEF Next, TestStep, WorkerStep, CommandStep

(* Sessions and calls. *)
LEMMA TablesStep == TablesOK /\ [Next]_vars => TablesOK'
<1> SUFFICES ASSUME TablesOK, [Next]_vars PROVE TablesOK'
  OBVIOUS
<1>0. TablesOK
  OBVIOUS
<1> USE DEF TablesOK, ScopeStage, CallStage, WorkStage
<1> USE DEF hostVars, testVars, endVars
<1>1. CASE UNCHANGED vars
  BY <1>0, <1>1 DEF vars
<1>2. ASSUME NEW s \in Sessions, BeginSession(s) PROVE TablesOK'
  BY <1>0, <1>2 DEF BeginSession, InTest
<1>3. ASSUME NEW s \in Sessions, EndSession(s) PROVE TablesOK'
  BY <1>0, <1>3 DEF EndSession, InTest, Waiting
<1>4. ASSUME NEW s \in Sessions, NEW c \in Calls, Call(c, s) PROVE TablesOK'
  BY <1>0, <1>4 DEF Call, InTest
<1>5. CASE Finish
  BY <1>0, <1>5 DEF Finish, InTest
<1>6. CASE Exit
  BY <1>0, <1>6 DEF Exit
<1>7. CASE Die
  BY <1>0, <1>7 DEF Die
<1>8. ASSUME NEW s \in Sessions, HostBegin(s) PROVE TablesOK'
  BY <1>0, <1>8 DEF HostBegin, Deliver
<1>9. ASSUME NEW s \in Sessions, HostEnd(s) PROVE TablesOK'
  BY <1>0, <1>9 DEF HostEnd, Deliver, IsIdle
<1>10. ASSUME NEW c \in Calls, LookUp(c) PROVE TablesOK'
  BY <1>0, <1>10 DEF LookUp, CallStep
<1>11. ASSUME NEW c \in Calls, Execute(c) PROVE TablesOK'
  BY <1>0, <1>11 DEF Execute, CallStep
<1>12. ASSUME NEW c \in Calls, Collect(c) PROVE TablesOK'
  BY <1>0, <1>12 DEF Collect, CallStep
<1>13. ASSUME NEW c \in Calls, Release(c) PROVE TablesOK'
  BY <1>0, <1>13 DEF Release, CallStep
<1>14. ASSUME NEW c \in Calls, Answer(c) PROVE TablesOK'
  BY <1>0, <1>14 DEF Answer, CallStep, Deliver
<1>15. CASE Reject
  BY <1>0, <1>15 DEF Reject
<1>16. CASE Start
  BY <1>0, <1>16 DEF Start
<1>17. CASE Mirror
  BY <1>0, <1>17 DEF Mirror
<1>18. CASE Conclude
  BY <1>0, <1>18 DEF Conclude, Drained
<1>19. CASE Respond
  BY <1>0, <1>19 DEF Respond
<1> QED
  BY <1>1, <1>2, <1>3, <1>4, <1>5, <1>6, <1>7, <1>8, <1>9, <1>10, <1>11, <1>12, <1>13, <1>14,
     <1>15, <1>16, <1>17, <1>18, <1>19
     DEF Next, TestStep, WorkerStep, CommandStep

(* Notes are calls. *)
LEMMA NotesStep == NotesOK /\ TablesOK /\ ShareInv /\ [Next]_vars => NotesOK'
<1> SUFFICES ASSUME NotesOK, TablesOK, ShareInv, [Next]_vars PROVE NotesOK'
  OBVIOUS
<1>0. /\ notes \in [Sessions -> SUBSET Calls]
      /\ kept \in SUBSET Calls /\ logged \in SUBSET Calls /\ executed \in SUBSET Calls
  BY DEF NotesOK
<1>a. \A c \in Calls : stage[c] # "idle" => of[c] \in Sessions
  BY DEF ShareInv
<1> USE DEF NotesOK
<1> USE DEF hostVars, testVars, endVars
<1>1. CASE UNCHANGED vars
  BY <1>0, <1>1 DEF vars
<1>2. ASSUME NEW s \in Sessions, BeginSession(s) PROVE NotesOK'
  BY <1>0, <1>2 DEF BeginSession, InTest
<1>3. ASSUME NEW s \in Sessions, EndSession(s) PROVE NotesOK'
  BY <1>0, <1>3 DEF EndSession, InTest, Waiting
<1>4. ASSUME NEW s \in Sessions, NEW c \in Calls, Call(c, s) PROVE NotesOK'
  BY <1>0, <1>4 DEF Call, InTest
<1>5. CASE Finish
  BY <1>0, <1>5 DEF Finish, InTest
<1>6. CASE Exit
  BY <1>0, <1>6 DEF Exit
<1>7. CASE Die
  BY <1>0, <1>7 DEF Die
<1>8. ASSUME NEW s \in Sessions, HostBegin(s) PROVE NotesOK'
  BY <1>0, <1>8 DEF HostBegin, Deliver
<1>9. ASSUME NEW s \in Sessions, HostEnd(s) PROVE NotesOK'
  BY <1>0, <1>9 DEF HostEnd, Deliver, IsIdle
<1>10. ASSUME NEW c \in Calls, LookUp(c) PROVE NotesOK'
  BY <1>0, <1>10 DEF LookUp, CallStep
<1>11. ASSUME NEW c \in Calls, Execute(c) PROVE NotesOK'
  <2>1. of[c] \in Sessions
    BY <1>a, <1>11 DEF Execute, CallStep
  <2> QED
    BY <1>0, <2>1, <1>11 DEF Execute
<1>12. ASSUME NEW c \in Calls, Collect(c) PROVE NotesOK'
  <2>1. of[c] \in Sessions
    BY <1>a, <1>12 DEF Collect, CallStep
  <2> QED
    BY <1>0, <2>1, <1>12 DEF Collect
<1>13. ASSUME NEW c \in Calls, Release(c) PROVE NotesOK'
  BY <1>0, <1>13 DEF Release, CallStep
<1>14. ASSUME NEW c \in Calls, Answer(c) PROVE NotesOK'
  BY <1>0, <1>14 DEF Answer, CallStep, Deliver
<1>15. CASE Reject
  BY <1>0, <1>15 DEF Reject
<1>16. CASE Start
  BY <1>0, <1>16 DEF Start
<1>17. CASE Mirror
  BY <1>0, <1>17 DEF Mirror
<1>18. CASE Conclude
  BY <1>0, <1>18 DEF Conclude, Drained
<1>19. CASE Respond
  BY <1>0, <1>19 DEF Respond
<1> QED
  BY <1>1, <1>2, <1>3, <1>4, <1>5, <1>6, <1>7, <1>8, <1>9, <1>10, <1>11, <1>12, <1>13, <1>14,
     <1>15, <1>16, <1>17, <1>18, <1>19
     DEF Next, TestStep, WorkerStep, CommandStep

(* A worker shares the scope of a known session. *)
LEMMA ShareStep == IInv /\ [Next]_vars => ShareInv'
<1> SUFFICES ASSUME IInv, [Next]_vars PROVE ShareInv'
  OBVIOUS
<1>0. /\ ShareInv /\ HasteInv /\ NoteInv /\ EndInv
      /\ of \in [Calls -> Sessions \cup {NoSession}] /\ stage \in [Calls -> CallStage]
      /\ scope \in [Sessions -> ScopeStage] /\ sessions \subseteq Sessions /\ held \subseteq Calls
      /\ NoSession \notin Sessions
  BY NoSessionAssumption DEF IInv, TypeOK
<1> USE DEF ShareInv, Sharing, EndInv, WorkStage
<1> USE DEF hostVars, testVars, endVars
<1>1. CASE UNCHANGED vars
  BY <1>0, <1>1 DEF vars
<1>2. ASSUME NEW s \in Sessions, BeginSession(s) PROVE ShareInv'
  BY <1>0, <1>2 DEF BeginSession, InTest
<1>3. ASSUME NEW s \in Sessions, EndSession(s) PROVE ShareInv'
  BY <1>0, <1>3 DEF EndSession, InTest, Waiting
<1>4. ASSUME NEW s \in Sessions, NEW c \in Calls, Call(c, s) PROVE ShareInv'
  BY <1>0, <1>4 DEF Call, InTest
<1>5. CASE Finish
  BY <1>0, <1>5 DEF Finish, InTest
<1>6. CASE Exit
  BY <1>0, <1>6 DEF Exit
<1>7. CASE Die
  BY <1>0, <1>7 DEF Die
<1>8. ASSUME NEW s \in Sessions, HostBegin(s) PROVE ShareInv'
  BY <1>0, <1>8 DEF HostBegin, Deliver
<1>9. ASSUME NEW s \in Sessions, HostEnd(s) PROVE ShareInv'
  BY <1>0, <1>9 DEF HostEnd, Deliver, IsIdle
<1>10. ASSUME NEW c \in Calls, LookUp(c) PROVE ShareInv'
  BY <1>0, <1>10 DEF LookUp, CallStep
<1>11. ASSUME NEW c \in Calls, Execute(c) PROVE ShareInv'
  BY <1>0, <1>11 DEF Execute, CallStep
<1>12. ASSUME NEW c \in Calls, Collect(c) PROVE ShareInv'
  BY <1>0, <1>12 DEF Collect, CallStep
<1>13. ASSUME NEW c \in Calls, Release(c) PROVE ShareInv'
  BY <1>0, <1>13 DEF Release, CallStep
<1>14. ASSUME NEW c \in Calls, Answer(c) PROVE ShareInv'
  BY <1>0, <1>14 DEF Answer, CallStep, Deliver
<1>15. CASE Reject
  BY <1>0, <1>15 DEF Reject
<1>16. CASE Start
  BY <1>0, <1>16 DEF Start
<1>17. CASE Mirror
  BY <1>0, <1>17 DEF Mirror
<1>18. CASE Conclude
  BY <1>0, <1>18 DEF Conclude, Drained
<1>19. CASE Respond
  BY <1>0, <1>19 DEF Respond
<1> QED
  BY <1>1, <1>2, <1>3, <1>4, <1>5, <1>6, <1>7, <1>8, <1>9, <1>10, <1>11, <1>12, <1>13, <1>14,
     <1>15, <1>16, <1>17, <1>18, <1>19
     DEF Next, TestStep, WorkerStep, CommandStep

(* An end that is refused was requested beside a call. *)
LEMMA HasteStep == IInv /\ [Next]_vars => HasteInv'
<1> SUFFICES ASSUME IInv, [Next]_vars PROVE HasteInv'
  OBVIOUS
<1>0. /\ ShareInv /\ HasteInv /\ NoteInv /\ EndInv
      /\ of \in [Calls -> Sessions \cup {NoSession}] /\ stage \in [Calls -> CallStage]
      /\ scope \in [Sessions -> ScopeStage] /\ sessions \subseteq Sessions /\ held \subseteq Calls
      /\ NoSession \notin Sessions
  BY NoSessionAssumption DEF IInv, TypeOK
<1> USE DEF ShareInv, Sharing, HasteInv, OrderlyTestCloses, WorkStage, EndInv
<1> USE DEF hostVars, testVars, endVars
<1>1. CASE UNCHANGED vars
  BY <1>0, <1>1 DEF vars
<1>2. ASSUME NEW s \in Sessions, BeginSession(s) PROVE HasteInv'
  BY <1>0, <1>2 DEF BeginSession, InTest
<1>3. ASSUME NEW s \in Sessions, EndSession(s) PROVE HasteInv'
  BY <1>0, <1>3 DEF EndSession, InTest, Waiting
<1>4. ASSUME NEW s \in Sessions, NEW c \in Calls, Call(c, s) PROVE HasteInv'
  BY <1>0, <1>4 DEF Call, InTest
<1>5. CASE Finish
  BY <1>0, <1>5 DEF Finish, InTest
<1>6. CASE Exit
  BY <1>0, <1>6 DEF Exit
<1>7. CASE Die
  BY <1>0, <1>7 DEF Die
<1>8. ASSUME NEW s \in Sessions, HostBegin(s) PROVE HasteInv'
  BY <1>0, <1>8 DEF HostBegin, Deliver
<1>9. ASSUME NEW s \in Sessions, HostEnd(s) PROVE HasteInv'
  BY <1>0, <1>9 DEF HostEnd, Deliver, IsIdle
<1>10. ASSUME NEW c \in Calls, LookUp(c) PROVE HasteInv'
  BY <1>0, <1>10 DEF LookUp, CallStep
<1>11. ASSUME NEW c \in Calls, Execute(c) PROVE HasteInv'
  BY <1>0, <1>11 DEF Execute, CallStep
<1>12. ASSUME NEW c \in Calls, Collect(c) PROVE HasteInv'
  BY <1>0, <1>12 DEF Collect, CallStep
<1>13. ASSUME NEW c \in Calls, Release(c) PROVE HasteInv'
  BY <1>0, <1>13 DEF Release, CallStep
<1>14. ASSUME NEW c \in Calls, Answer(c) PROVE HasteInv'
  BY <1>0, <1>14 DEF Answer, CallStep, Deliver
<1>15. CASE Reject
  BY <1>0, <1>15 DEF Reject
<1>16. CASE Start
  BY <1>0, <1>16 DEF Start
<1>17. CASE Mirror
  BY <1>0, <1>17 DEF Mirror
<1>18. CASE Conclude
  BY <1>0, <1>18 DEF Conclude, Drained
<1>19. CASE Respond
  BY <1>0, <1>19 DEF Respond
<1> QED
  BY <1>1, <1>2, <1>3, <1>4, <1>5, <1>6, <1>7, <1>8, <1>9, <1>10, <1>11, <1>12, <1>13, <1>14,
     <1>15, <1>16, <1>17, <1>18, <1>19
     DEF Next, TestStep, WorkerStep, CommandStep

(* A note is in its session or kept. *)
LEMMA NoteStep == IInv /\ [Next]_vars => NoteInv'
<1> SUFFICES ASSUME IInv, [Next]_vars PROVE NoteInv'
  OBVIOUS
<1>0. /\ ShareInv /\ HasteInv /\ NoteInv /\ EndInv
      /\ of \in [Calls -> Sessions \cup {NoSession}] /\ stage \in [Calls -> CallStage]
      /\ scope \in [Sessions -> ScopeStage] /\ sessions \subseteq Sessions /\ held \subseteq Calls
      /\ notes \in [Sessions -> SUBSET Calls] /\ executed \subseteq Calls
      /\ NoSession \notin Sessions
  BY NoSessionAssumption DEF IInv, TypeOK
<1> USE DEF NoteInv, ShareInv, EndInv
<1> USE DEF hostVars, testVars, endVars
<1>1. CASE UNCHANGED vars
  BY <1>0, <1>1 DEF vars
<1>2. ASSUME NEW s \in Sessions, BeginSession(s) PROVE NoteInv'
  BY <1>0, <1>2 DEF BeginSession, InTest
<1>3. ASSUME NEW s \in Sessions, EndSession(s) PROVE NoteInv'
  BY <1>0, <1>3 DEF EndSession, InTest, Waiting
<1>4. ASSUME NEW s \in Sessions, NEW c \in Calls, Call(c, s) PROVE NoteInv'
  BY <1>0, <1>4 DEF Call, InTest
<1>5. CASE Finish
  BY <1>0, <1>5 DEF Finish, InTest
<1>6. CASE Exit
  BY <1>0, <1>6 DEF Exit
<1>7. CASE Die
  BY <1>0, <1>7 DEF Die
<1>8. ASSUME NEW s \in Sessions, HostBegin(s) PROVE NoteInv'
  BY <1>0, <1>8 DEF HostBegin, Deliver
<1>9. ASSUME NEW s \in Sessions, HostEnd(s) PROVE NoteInv'
  BY <1>0, <1>9 DEF HostEnd, Deliver, IsIdle
<1>10. ASSUME NEW c \in Calls, LookUp(c) PROVE NoteInv'
  BY <1>0, <1>10 DEF LookUp, CallStep
<1>11. ASSUME NEW c \in Calls, Execute(c) PROVE NoteInv'
  BY <1>0, <1>11 DEF Execute, CallStep
<1>12. ASSUME NEW c \in Calls, Collect(c) PROVE NoteInv'
  BY <1>0, <1>12 DEF Collect, CallStep
<1>13. ASSUME NEW c \in Calls, Release(c) PROVE NoteInv'
  BY <1>0, <1>13 DEF Release, CallStep
<1>14. ASSUME NEW c \in Calls, Answer(c) PROVE NoteInv'
  BY <1>0, <1>14 DEF Answer, CallStep, Deliver
<1>15. CASE Reject
  BY <1>0, <1>15 DEF Reject
<1>16. CASE Start
  BY <1>0, <1>16 DEF Start
<1>17. CASE Mirror
  BY <1>0, <1>17 DEF Mirror
<1>18. CASE Conclude
  BY <1>0, <1>18 DEF Conclude, Drained
<1>19. CASE Respond
  BY <1>0, <1>19 DEF Respond
<1> QED
  BY <1>1, <1>2, <1>3, <1>4, <1>5, <1>6, <1>7, <1>8, <1>9, <1>10, <1>11, <1>12, <1>13, <1>14,
     <1>15, <1>16, <1>17, <1>18, <1>19
     DEF Next, TestStep, WorkerStep, CommandStep

(* The end of the exchange is final. *)
LEMMA EndStep == IInv /\ [Next]_vars => EndInv'
<1> SUFFICES ASSUME IInv, [Next]_vars PROVE EndInv'
  OBVIOUS
<1>0. /\ ShareInv /\ HasteInv /\ NoteInv /\ EndInv
      /\ of \in [Calls -> Sessions \cup {NoSession}] /\ stage \in [Calls -> CallStage]
      /\ scope \in [Sessions -> ScopeStage] /\ sessions \subseteq Sessions /\ held \subseteq Calls
      /\ NoSession \notin Sessions
  BY NoSessionAssumption DEF IInv, TypeOK
<1> USE DEF EndInv, ShareInv, NoteInv, WorkStage
<1> USE DEF hostVars, testVars, endVars
<1>1. CASE UNCHANGED vars
  BY <1>0, <1>1 DEF vars
<1>2. ASSUME NEW s \in Sessions, BeginSession(s) PROVE EndInv'
  BY <1>0, <1>2 DEF BeginSession, InTest
<1>3. ASSUME NEW s \in Sessions, EndSession(s) PROVE EndInv'
  BY <1>0, <1>3 DEF EndSession, InTest, Waiting
<1>4. ASSUME NEW s \in Sessions, NEW c \in Calls, Call(c, s) PROVE EndInv'
  BY <1>0, <1>4 DEF Call, InTest
<1>5. CASE Finish
  BY <1>0, <1>5 DEF Finish, InTest, ScopeStage
<1>6. CASE Exit
  BY <1>0, <1>6 DEF Exit
<1>7. CASE Die
  BY <1>0, <1>7 DEF Die
<1>8. ASSUME NEW s \in Sessions, HostBegin(s) PROVE EndInv'
  BY <1>0, <1>8 DEF HostBegin, Deliver
<1>9. ASSUME NEW s \in Sessions, HostEnd(s) PROVE EndInv'
  BY <1>0, <1>9 DEF HostEnd, Deliver, IsIdle
<1>10. ASSUME NEW c \in Calls, LookUp(c) PROVE EndInv'
  BY <1>0, <1>10 DEF LookUp, CallStep
<1>11. ASSUME NEW c \in Calls, Execute(c) PROVE EndInv'
  BY <1>0, <1>11 DEF Execute, CallStep
<1>12. ASSUME NEW c \in Calls, Collect(c) PROVE EndInv'
  BY <1>0, <1>12 DEF Collect, CallStep
<1>13. ASSUME NEW c \in Calls, Release(c) PROVE EndInv'
  BY <1>0, <1>13 DEF Release, CallStep
<1>14. ASSUME NEW c \in Calls, Answer(c) PROVE EndInv'
  BY <1>0, <1>14 DEF Answer, CallStep, Deliver
<1>15. CASE Reject
  BY <1>0, <1>15 DEF Reject
<1>16. CASE Start
  BY <1>0, <1>16 DEF Start
<1>17. CASE Mirror
  BY <1>0, <1>17 DEF Mirror
<1>18. CASE Conclude
  <2>1. Drained /\ logged' = kept /\ executed' = executed /\ command' = "concluded"
        /\ UNCHANGED <<stage, pump, verdict, scope, answer, report>>
    BY <1>18 DEF Conclude
  <2>2. executed \subseteq kept
    <3> SUFFICES ASSUME NEW c \in executed, c \notin kept PROVE FALSE
      OBVIOUS
    <3>1. c \in Calls /\ \E s \in Sessions : c \in notes[s]
      BY <1>0 DEF IInv, TypeOK
    <3>2. stage[c] = "noted"
      BY <1>0, <3>1
    <3> QED
      BY <2>1, <3>1, <3>2 DEF Drained
  <2>3. answer = "none"
    BY <1>0, <1>18 DEF Conclude
  <2> QED
    BY <1>0, <2>1, <2>2, <2>3 DEF Drained
<1>19. CASE Respond
  BY <1>0, <1>19 DEF Respond
<1> QED
  BY <1>1, <1>2, <1>3, <1>4, <1>5, <1>6, <1>7, <1>8, <1>9, <1>10, <1>11, <1>12, <1>13, <1>14,
     <1>15, <1>16, <1>17, <1>18, <1>19
     DEF Next, TestStep, WorkerStep, CommandStep

-----------------------------------------------------------------------------
\* The inductive invariant holds of every reachable state.
THEOREM Inductive == Spec => []IInv
<1>1. Init => IInv
  BY InitIInv
<1>2. IInv /\ [Next]_vars => IInv'
  <2> SUFFICES ASSUME IInv, [Next]_vars PROVE IInv'
    OBVIOUS
  <2>1. TypeOK'
    <3>1. FlagsOK /\ StateOK /\ TablesOK /\ NotesOK /\ ShareInv
      BY TypeParts DEF IInv
    <3>2. FlagsOK' /\ StateOK' /\ TablesOK' /\ NotesOK'
      BY <3>1, FlagStep, StateStep, TablesStep, NotesStep
    <3>3. (FlagsOK /\ StateOK /\ TablesOK /\ NotesOK)' => TypeOK'
      BY TypeParts, PTL
    <3> QED
      BY <3>2, <3>3
  <2>2. ShareInv' /\ HasteInv' /\ NoteInv' /\ EndInv'
    BY ShareStep, HasteStep, NoteStep, EndStep
  <2> QED
    BY <2>1, <2>2 DEF IInv
<1> QED
  BY <1>1, <1>2, PTL DEF Spec

\* Type correctness of the sessions, the calls and their notes.
THEOREM TypeCorrect == Spec => []TypeOK
<1>1. IInv => TypeOK
  BY DEF IInv
<1> QED
  BY <1>1, Inductive, PTL

\* For any number of tests and calls: a closed session is quiet, and storage
\* stays as long as a worker uses a session in it.
THEOREM ClosedIsQuiet == Spec => []ClosedSessionIsQuiet
<1>1. IInv => ClosedSessionIsQuiet
  <2> SUFFICES ASSUME IInv PROVE ClosedSessionIsQuiet
    OBVIOUS
  <2>0. TypeOK /\ ShareInv /\ EndInv
    BY DEF IInv
  <2>1. ASSUME NEW s \in Sessions, scope[s] = "closed"
        PROVE  s \notin sessions /\ \A c \in held : of[c] # s
    BY <2>0, <2>1 DEF ShareInv
  <2>2. ASSUME NEW c \in held PROVE storage
    <3>1. c \in Calls /\ stage[c] \in Sharing
      BY <2>0, <2>2 DEF TypeOK, ShareInv
    <3>2. command = "running"
      BY <2>0, <3>1 DEF TypeOK, EndInv, Sharing, WorkStage
    <3> QED
      BY <2>0, <3>2 DEF ShareInv
  <2> QED
    BY <2>1, <2>2 DEF ClosedSessionIsQuiet
<1> QED
  BY <1>1, Inductive, PTL

\* For any number of tests and calls: a test that waits for its calls is never
\* told that its session is in use.
THEOREM OrderlyCloses == Spec => []OrderlyTestCloses
<1>1. IInv => OrderlyTestCloses
  BY DEF IInv, HasteInv
<1> QED
  BY <1>1, Inductive, PTL

\* For any number of tests and calls: success is not reported over a session
\* that is not closed, a call that is lost, or a log that nobody names.
THEOREM SuccessHolds == Spec => []SuccessIsTrue
<1>1. IInv => SuccessIsTrue
  <2> SUFFICES ASSUME IInv, answer = "success" PROVE SuccessIsTrue
    BY DEF SuccessIsTrue
  <2>1. /\ command = "answered" /\ pump = "on" /\ verdict = "success" /\ report
        /\ executed \subseteq logged
        /\ \A s \in Sessions : scope[s] \in {"none", "closed"}
    BY DEF IInv, EndInv
  <2>2. \A c \in Calls : stage[c] \in CallStage /\ stage[c] \notin WorkStage /\ stage[c] # "sent"
    BY <2>1 DEF IInv, EndInv, TypeOK
  <2> QED
    BY <2>1, <2>2 DEF SuccessIsTrue, CallStage
<1> QED
  BY <1>1, Inductive, PTL
=============================================================================
