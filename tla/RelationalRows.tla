--------------------------- MODULE RelationalRows ---------------------------
(***************************************************************************)
(* What the emitters that are generated for a plan (RelationalPlan) write  *)
(* for a payload: protobuf_source_codegen, render.rs.                      *)
(***************************************************************************)
EXTENDS RelationalPlan

CONSTANT MaxRepeat  \* elements of a repeated field

\* Mutation of HasRowId: only relations whose children are repeated messages.
HasRowIdRepeated(slot) ==
  \E i \in 1..Len(relations) : relations[i].parent = slot /\ relations[i].kind = "repeated"
\* add_relationship_columns: only relations with children have row ids.
HasRowId(slot) == \E i \in 1..Len(relations) : relations[i].parent = slot

\* The value of a message has a value for each field: a scalar that is always
\* there, or the sequence of those that are there.  A column is null, or
\* has a value; that of a struct is that it is there.
NoIndex == 0

\* render_column_expression
Cell(column, v) ==
  LET given(x, e) ==
        IF x = <<>> THEN <<>>
        ELSE IF Field(e).mode = "single" THEN <<x[1][e.at]>> ELSE x[1][e.at]
      value == FoldLeft(given, <<v>>, column)
  IN IF column = <<>> \/ value = <<>> \/ ~IsMessage(Field(Last(column))) THEN value
     ELSE <<"struct">>

\* emit_relation and emit_child.  rows: of each relation; ids: row ids given.
RECURSIVE Emit(_, _, _, _, _)
Emit(e, slot, v, parent, index) ==
  LET r == relations[slot]
      id == IF HasRowId(slot) THEN e.ids[slot] + 1 ELSE 0
      row == [id |-> id, parent |-> parent, index |-> index,
              cells |-> [t \in r.columns |-> Cell(t, v)]]
      own == [rows |-> [e.rows EXCEPT ![slot] = Append(@, row)], ids |-> [e.ids EXCEPT ![slot] = id]]
      children == SelectSeq([i \in 1..Len(relations) |-> i], LAMBDA i : relations[i].parent = slot)
      repeated(c) == relations[c].kind \in {"repeated", "value"}
      emitChild(acc, c) ==
        LET given == v[relations[c].field]
        IN FoldLeft(LAMBDA x, j : Emit(x, c, given[j], id, IF repeated(c) THEN j ELSE NoIndex),
                    acc, [j \in 1..Len(given) |-> j])
  IN FoldLeft(emitChild, own, children)

\* The rows of the payload of a root.
RowsOf(slot, v) ==
  Emit([rows |-> [i \in 1..Len(relations) |-> <<>>], ids |-> [i \in 1..Len(relations) |-> 0]],
       slot, v, 0, NoIndex).rows

-----------------------------------------------------------------------------
\* The values of a message: at most one field of its "oneof" is there.
RECURSIVE Values(_)
Values(m) ==
  LET base(f) == IF IsMessage(f) THEN Values(f.to) ELSE {0, 1}
      of(f) == CASE f.mode = "single" -> base(f)
                 [] f.mode = "repeated" -> UNION {[1..n -> base(f)] : n \in 0..MaxRepeat}
                 [] OTHER -> {<<>>} \cup {<<x>> : x \in base(f)}
      all == FoldLeft(LAMBDA vs, f : {Append(v, x) : v \in vs, x \in of(f)}, {<<>>}, schema[m])
      chosen(v) == {i \in 1..Len(v) : schema[m][i].mode = "oneof" /\ v[i] # <<>>}
  IN {v \in all : Cardinality(chosen(v)) <= 1}

\* What is written by an accepted plan says all that a payload says: rows are
\* joined to rows of the payload, and tell it from any other.
RowsTellThePayload ==
  Planned /\ ~refused =>
    \A slot \in {i \in 1..Len(relations) : relations[i].kind = "root"} :
      LET values == Values(relations[slot].of)
          written == [v \in values |-> RowsOf(slot, v)]
          linked(rows) == \A i \in 1..Len(rows) : \A k \in 1..Len(rows[i]) :
            relations[i].kind # "root" =>
              \E j \in 1..Len(rows[relations[i].parent]) :
                rows[relations[i].parent][j].id = rows[i][k].parent
      IN /\ Cardinality({written[v] : v \in values}) = Cardinality(values)
         /\ \A v \in values : linked(written[v])
=============================================================================
