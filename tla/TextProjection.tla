--------------------------- MODULE TextProjection ---------------------------
(***************************************************************************)
(* The output of a Runtime on its way to the Operation log.  It arrives in *)
(* pieces that end anywhere, also inside a character or between CR and LF: *)
(* text_projection.rs, and output_spool.rs, which feeds it.                *)
(***************************************************************************)
EXTENDS Integers, Sequences, SequencesExt

CONSTANTS
  Bytes,     \* kinds of bytes, out of those below
  MaxBytes,  \* length of the texts of an instance
  MaxPiece   \* length of a piece

\* "char", "cr", "lf" and "control" are characters of one byte; "lead2" and
\* "lead3" begin one of two or three bytes, "tail" goes on with it; "bad" is no
\* part of any.
AllBytes == {"char", "cr", "lf", "control", "lead2", "lead3", "tail", "bad"}

ASSUME BytesAssumption == Bytes \subseteq AllBytes

VARIABLES
  text,   \* the bytes that have arrived
  proj,   \* StreamProjection, with the TextProjection in it
  logged, \* what has been appended to the log
  stream  \* "open", "over" or "failed"

textVars == <<text, proj, logged, stream>>

-----------------------------------------------------------------------------
(* TextProjection. *)

NewProjection ==
  [utf8 |-> <<>>, cr |-> FALSE, warned |-> FALSE, out |-> <<>>,
   wrote |-> FALSE, newline |-> FALSE]

\* One character.  A carriage return waits for the next one.
ProjectChar(p, c) ==
  LET q == IF p.cr THEN [p EXCEPT !.cr = FALSE, !.out = Append(@, "newline")] ELSE p
  IN IF p.cr /\ c = "lf" THEN q
     ELSE CASE c = "cr" -> [q EXCEPT !.cr = TRUE]
            [] c = "lf" -> [q EXCEPT !.out = Append(@, "newline")]
            [] c = "control" -> [q EXCEPT !.out = Append(@, "escape")]
            [] OTHER -> [q EXCEPT !.out = Append(@, c)]

\* What stands for bytes that are no character: the first time with a warning.
Warned(p) ==
  IF p.warned THEN p ELSE ProjectChar(ProjectChar([p EXCEPT !.warned = TRUE], "warning"), "lf")
Replaced(p) == ProjectChar(Warned(p), "replacement")

Tails(b) == CASE b = "lead2" -> 1 [] b = "lead3" -> 2 [] OTHER -> 0

\* str::from_utf8 at the start of s: a character, bytes that are none, or bytes
\* that may become one.
FirstUnit(s) ==
  LET want == Tails(s[1])
      have == CHOOSE n \in 0..want :
                /\ n < Len(s) /\ \A i \in 1..n : s[i + 1] = "tail"
                /\ n = want \/ n + 1 = Len(s) \/ s[n + 2] # "tail"
  IN CASE s[1] \in {"tail", "bad"} -> [is |-> "invalid", len |-> 1]
       [] s[1] \notin {"tail", "bad"} /\ have = want ->
            [is |-> IF want > 0 THEN "char" ELSE s[1], len |-> want + 1]
       [] have # want /\ have + 1 = Len(s) -> [is |-> "partial", len |-> 0]
       [] OTHER -> [is |-> "invalid", len |-> have + 1]

\* One round of the loop of push, as far as one character.
Round(p) ==
  LET unit == FirstUnit(p.utf8)
      rest == [p EXCEPT !.utf8 = SubSeq(@, unit.len + 1, Len(@))]
  IN IF p.utf8 = <<>> \/ unit.is = "partial" THEN p
     ELSE IF unit.is = "invalid" THEN Replaced(rest)
     ELSE ProjectChar(rest, unit.is)

\* A round takes a byte at least, so that as many as there are bytes are enough.
Decode(p) ==
  LET after[n \in 0..Len(p.utf8)] == IF n = 0 THEN p ELSE Round(after[n - 1])
  IN after[Len(p.utf8)]

Push(p, piece) == Decode([p EXCEPT !.utf8 = @ \o piece])

\* Mutation of Finish: a carriage return at the end is forgotten.
FinishWithoutCr(p) == IF p.utf8 = <<>> THEN p ELSE Replaced([p EXCEPT !.utf8 = <<>>])

\* finish: what is left of a character is none, and a last CR ends its line.
Finish(p) ==
  LET q == IF p.utf8 = <<>> THEN p ELSE Replaced([p EXCEPT !.utf8 = <<>>])
  IN IF q.cr THEN [q EXCEPT !.cr = FALSE, !.out = Append(@, "newline")] ELSE q

-----------------------------------------------------------------------------
(* append_stream. *)

\* append_projection
Noted(p) ==
  IF p.out = <<>> THEN p
  ELSE [p EXCEPT !.wrote = TRUE, !.newline = Last(p.out) = "newline", !.out = <<>>]

\* needs_line_boundary
Boundary(p) == IF p.wrote /\ ~p.newline THEN <<"newline">> ELSE <<>>

TextInit == text = <<>> /\ proj = NewProjection /\ logged = <<>> /\ stream = "open"

Arrive(piece) ==
  /\ stream = "open" /\ Len(text) + Len(piece) <= MaxBytes
  /\ LET pushed == Push(proj, piece)
     IN proj' = Noted(pushed) /\ logged' = logged \o pushed.out
  /\ text' = text \o piece
  /\ UNCHANGED stream

End ==
  /\ stream = "open"
  /\ LET last == Finish(proj)
     IN proj' = Noted(last) /\ logged' = logged \o last.out \o Boundary(Noted(last))
  /\ stream' = "over"
  /\ UNCHANGED text

\* The spool cannot be read, or the log not written.
StreamFails ==
  /\ stream = "open" /\ stream' = "failed"
  /\ UNCHANGED <<text, proj, logged>>

TextNext ==
  \/ \E n \in 1..MaxPiece : \E piece \in [1..n -> Bytes] : Arrive(piece)
  \/ End \/ StreamFails

TextSpec == TextInit /\ [][TextNext]_textVars

-----------------------------------------------------------------------------
(* What a text should look like, said of the whole of it at once. *)

\* The byte at j begins a character, and the one at i is part of it or of what
\* there is of it.
Covers(s, j, i) ==
  /\ i <= j + Tails(s[j]) /\ \A k \in j + 1..i : s[k] = "tail"

Whole(s, i) == i + Tails(s[i]) <= Len(s) /\ Covers(s, i, i + Tails(s[i]))

\* Each byte yields a character, a replacement, or nothing.
UnitAt(s, i) ==
  CASE s[i] = "tail" -> IF \E j \in 1..i - 1 : Covers(s, j, i) THEN <<>> ELSE <<"replacement">>
    [] s[i] \notin {"tail", "bad"} /\ Whole(s, i) -> IF Tails(s[i]) > 0 THEN <<"char">> ELSE <<s[i]>>
    [] OTHER -> <<"replacement">>
Characters(s) == FlattenSeq([i \in 1..Len(s) |-> UnitAt(s, i)])

\* The first replacement is announced by a line of its own.
Announced(cs) ==
  IF ~Contains(cs, "replacement") THEN cs
  ELSE LET first == CHOOSE i \in 1..Len(cs) :
                      cs[i] = "replacement" /\ \A j \in 1..i - 1 : cs[j] # "replacement"
       IN SubSeq(cs, 1, first - 1) \o <<"warning", "lf">> \o SubSeq(cs, first, Len(cs))

\* CR, LF and CR LF end lines; other control characters are spelt out.
ShownAt(cs, i) ==
  CASE cs[i] = "cr" -> <<"newline">>
    [] cs[i] = "lf" -> IF i > 1 /\ cs[i - 1] = "cr" THEN <<>> ELSE <<"newline">>
    [] cs[i] = "control" -> <<"escape">>
    [] OTHER -> <<cs[i]>>
Lines(cs) == FlattenSeq([i \in 1..Len(cs) |-> ShownAt(cs, i)])

Shown(s) == Lines(Announced(Characters(s)))

\* In the log every output ends its line.
Expected(s) ==
  IF Shown(s) = <<>> \/ Last(Shown(s)) = "newline" THEN Shown(s) ELSE Append(Shown(s), "newline")

\* However the output is cut into pieces, the log shows the text as a whole:
\* while it arrives a beginning of it, with nothing held back but a carriage
\* return and the start of a character, and in the end all of it.
LogShowsTheText ==
  /\ IsPrefix(logged, Expected(text))
  /\ stream = "open" =>
       \E n \in 0..3 : n <= Len(text) /\ logged = Shown(SubSeq(text, 1, Len(text) - n))
  /\ stream = "over" => logged = Expected(text)
=============================================================================
