--------------------------- MODULE RelationalPlan ---------------------------
(***************************************************************************)
(* The plan by which protobuf messages become relations, made when the     *)
(* datasource library is built: protobuf_source_codegen, plan.rs.  Three   *)
(* recursive functions walk the graph of messages, each with a stack of    *)
(* calls here: validate_closure, plan_message_columns and, called by that, *)
(* message_has_relations.                                                  *)
(***************************************************************************)
EXTENDS Integers, Sequences, SequencesExt, FiniteSets

CONSTANTS
  Messages,         \* the messages of a descriptor set
  PlanRoots,        \* roots: the message and the name of the relation of each
  ReservedNames,    \* names of relations of other origin
  ReservedColumns,  \* names of the columns that join relations
  IllegalWords      \* words that may be part of a field's name only

\* A name is a sequence of words joined by "_".  A field has a scalar type or
\* that of another message.  "refused" stands for every shape that is not
\* supported: required, group, map, extension, alias, a name given twice.
Modes == {"single", "optional", "repeated", "oneof", "refused"}
Fields == [name : Seq(STRING), to : Messages \cup {"scalar"}, mode : Modes]

ASSUME MessagesAssumption == IsFiniteSet(Messages) /\ "scalar" \notin Messages
ASSUME PlanRootsAssumption == PlanRoots \in Seq([of : Messages, name : Seq(STRING)])

VARIABLES
  schema,    \* the fields of each message, in the order of their numbers
  root,      \* the root that is built
  task,      \* "root": the next one; "validate", "relation", "columns": of this one
  closure,   \* calls of validate_closure, the innermost last
  visited,   \* the messages validated for this root
  calls,     \* calls of plan_message_columns
  asking,    \* calls of message_has_relations
  memo,      \* its relation_memo
  relations, \* the relations planned
  refused    \* a root has been refused

planVars == <<schema, root, task, closure, visited, calls, asking, memo, relations, refused>>

IsMessage(f) == f.to # "scalar"

\* A call is in a message, at the field that comes next or whose message it is
\* in.  A call that returns goes on with the next field of its caller.
Call(m) == [of |-> m, at |-> 1]
AtField(c) == c.at <= Len(schema[c.of])
Field(c) == schema[c.of][c.at]
Advanced(s) == [s EXCEPT ![Len(s)].at = @ + 1]
Returned(s) == IF Len(s) = 1 THEN <<>> ELSE Advanced(Front(s))

PlanInit ==
  /\ schema \in [Messages -> Seq(Fields)]
  /\ root = 1 /\ task = "root"
  /\ closure = <<>> /\ visited = {}
  /\ calls = <<>> /\ asking = <<>>
  /\ memo = [m \in Messages |-> "unknown"]
  /\ relations = <<>> /\ refused = FALSE

\* build: a root that is refused does not keep the others from being tried.
Refuse ==
  /\ refused' = TRUE
  /\ root' = root + 1 /\ task' = "root"
  /\ closure' = <<>> /\ calls' = <<>>
  /\ UNCHANGED relations

-----------------------------------------------------------------------------
(* build_root and validate_closure. *)

OpenRoot ==
  /\ task = "root" /\ root <= Len(PlanRoots)
  /\ task' = "validate"
  /\ closure' = <<Call(PlanRoots[root].of)>> /\ visited' = {}
  /\ UNCHANGED <<schema, root, calls, asking, memo, relations, refused>>

OnTheWay == {closure[k].of : k \in 1..Len(closure)}

Cyclic(f) == f.to \in OnTheWay

CheckField ==
  /\ task = "validate" /\ AtField(Last(closure))
  /\ LET f == Field(Last(closure))
     IN IF f.mode = "refused" \/ Cyclic(f) THEN Refuse
        ELSE /\ closure' = IF IsMessage(f) /\ f.to \notin visited
                           THEN Append(closure, Call(f.to)) ELSE Advanced(closure)
             /\ UNCHANGED <<root, task, calls, relations, refused>>
  /\ UNCHANGED <<schema, visited, asking, memo>>

LeaveMessage ==
  /\ task = "validate" /\ ~AtField(Last(closure))
  /\ visited' = visited \cup {Last(closure).of}
  /\ closure' = Returned(closure)
  /\ task' = IF Len(closure) = 1 THEN "relation" ELSE task
  /\ UNCHANGED <<schema, root, calls, asking, memo, relations, refused>>

-----------------------------------------------------------------------------
(* plan_message_relation and plan_message_columns.  A relation knows its     *)
(* name, its message, its parent (0 for a root), the field it comes from and *)
(* its columns.  A column is the way to its value inside of the message: a   *)
(* message that has no relation of its own is a struct with columns in it.   *)

Legal(name) == name \notin ReservedNames /\ ToSet(name) \cap IllegalWords = {}
TakenNames == {relations[i].name : i \in 1..Len(relations)}

\* register_relation_name
MayRegister(name) == Legal(name) /\ name \notin TakenNames

Relation(name, m, kind, parent, at, columns) ==
  [name |-> name, of |-> m, kind |-> kind, parent |-> parent, field |-> at, columns |-> columns]

\* A call of plan_message_columns knows its relation and the way to its struct.
ColumnsCall(m, slot, name, arrow) ==
  [of |-> m, at |-> 1, slot |-> slot, name |-> name, arrow |-> arrow]

PlanRoot ==
  /\ task = "relation"
  /\ LET r == PlanRoots[root]
     IN IF ~MayRegister(r.name) THEN Refuse
        ELSE /\ relations' = Append(relations, Relation(r.name, r.of, "root", 0, 0, {}))
             /\ calls' = <<ColumnsCall(r.of, Len(relations) + 1, r.name, <<>>)>>
             /\ task' = "columns"
             /\ UNCHANGED <<root, closure, refused>>
  /\ UNCHANGED <<schema, visited, asking, memo>>

Planning == task = "columns" /\ asking = <<>>
Here == Last(calls)

\* A message of its own relation, or one that is asked about.
Several(f) == f.mode = "repeated" \/ (f.mode = "oneof" /\ IsMessage(f))
Single(f) == IsMessage(f) /\ ~Several(f)
GetsRelation(f) == Several(f) \/ (Single(f) /\ memo[f.to] = "yes")
GetsColumn(f) == ~Several(f) /\ (IsMessage(f) => memo[f.to] = "no")

Kind(f) ==
  CASE f.mode = "repeated" -> IF IsMessage(f) THEN "repeated" ELSE "value"
    [] f.mode = "oneof" -> "oneof"
    [] OTHER -> "optional"

PlanChild ==
  /\ Planning /\ AtField(Here) /\ GetsRelation(Field(Here))
  /\ LET f == Field(Here)
         name == Here.name \o f.name
         child == Relation(name, f.to, Kind(f), Here.slot, Here.at,
                           IF IsMessage(f) THEN {} ELSE {<<>>})
     IN IF ~MayRegister(name) THEN Refuse
        ELSE /\ relations' = Append(relations, child)
             /\ calls' = IF IsMessage(f)
                         THEN Append(calls, ColumnsCall(f.to, Len(relations) + 1, name, <<>>))
                         ELSE Advanced(calls)
             /\ UNCHANGED <<root, task, closure, refused>>
  /\ UNCHANGED <<schema, visited, asking, memo>>

PlanColumn ==
  /\ Planning /\ AtField(Here) /\ GetsColumn(Field(Here))
  /\ LET f == Field(Here)
         arrow == Append(Here.arrow, [of |-> Here.of, at |-> Here.at])
     IN IF Here.arrow = <<>> /\ f.name \in ReservedColumns THEN Refuse
        ELSE /\ relations' = [relations EXCEPT ![Here.slot].columns = @ \cup {arrow}]
             /\ calls' = IF IsMessage(f)
                         THEN Append(calls, ColumnsCall(f.to, Here.slot, Here.name, arrow))
                         ELSE Advanced(calls)
             /\ UNCHANGED <<root, task, closure, refused>>
  /\ UNCHANGED <<schema, visited, asking, memo>>

EndColumns ==
  /\ Planning /\ ~AtField(Here)
  /\ calls' = Returned(calls)
  /\ IF Len(calls) = 1 THEN task' = "root" /\ root' = root + 1 ELSE UNCHANGED <<task, root>>
  /\ UNCHANGED <<schema, closure, visited, asking, memo, relations, refused>>

-----------------------------------------------------------------------------
(* message_has_relations: "no" is put into the memo first.                   *)

Ask ==
  /\ Planning /\ AtField(Here)
  /\ LET f == Field(Here)
     IN /\ Single(f) /\ memo[f.to] = "unknown"
        /\ asking' = <<Call(f.to)>>
        /\ memo' = [memo EXCEPT ![f.to] = "no"]
  /\ UNCHANGED <<schema, root, task, closure, visited, calls, relations, refused>>

\* Mutation of Counts: only repeated fields count.
CountsRepeated(f) == f.mode = "repeated"
Counts(f) == f.mode = "repeated" \/ (IsMessage(f) /\ (f.mode = "oneof" \/ memo[f.to] = "yes"))

AskField ==
  /\ asking # <<>> /\ AtField(Last(asking))
  /\ LET f == Field(Last(asking))
     IN \/ /\ Counts(f)
           /\ memo' = [memo EXCEPT ![Last(asking).of] = "yes"]
           /\ asking' = Front(asking)
        \/ /\ ~Counts(f) /\ IsMessage(f) /\ memo[f.to] = "unknown"
           /\ memo' = [memo EXCEPT ![f.to] = "no"]
           /\ asking' = Append(asking, Call(f.to))
        \/ /\ ~Counts(f) /\ (IsMessage(f) => memo[f.to] = "no")
           /\ asking' = Advanced(asking)
           /\ UNCHANGED memo
  /\ UNCHANGED <<schema, root, task, closure, visited, calls, relations, refused>>

AskEnd ==
  /\ asking # <<>> /\ ~AtField(Last(asking))
  /\ asking' = Front(asking)
  /\ UNCHANGED <<schema, root, task, closure, visited, calls, memo, relations, refused>>

PlanNext ==
  \/ OpenRoot \/ CheckField \/ LeaveMessage
  \/ PlanRoot \/ PlanChild \/ PlanColumn \/ EndColumns
  \/ Ask \/ AskField \/ AskEnd

PlanSpec == PlanInit /\ [][PlanNext]_planVars

Planned == task = "root" /\ root > Len(PlanRoots)

-----------------------------------------------------------------------------
(* What a plan should be, said of the ways through the graph of messages. *)

\* A way leads from field to field, each in the message of the one before.
Steps == UNION {{[of |-> m, at |-> i] : i \in 1..Len(schema[m])} : m \in Messages}
Leads(m, s) ==
  /\ s # <<>> => s[1].of = m
  /\ \A k \in 1..Len(s) - 1 : s[k + 1].of = Field(s[k]).to
\* One that is longer than there are messages comes to one of them twice.
Ways(m) == {s \in BoundedSeq(Steps, Cardinality(Messages)) : Leads(m, s)}

\* Nothing a message leads to contains itself or is of a refused shape.
Supported(m) ==
  \A s \in Ways(m) \ {<<>>} :
    /\ Field(Last(s)).mode # "refused"
    /\ \A k \in 1..Len(s) : s[k].of # Field(Last(s)).to

\* A message is spread over several relations if something below it may come
\* several times, or is one of several messages.
Multiple(f) == f.mode = "repeated" \/ (f.mode = "oneof" /\ IsMessage(f))
Spread(m) == \E s \in Ways(m) \ {<<>>} : Multiple(Field(Last(s)))
OwnRelation(f) == Multiple(f) \/ (IsMessage(f) /\ Spread(f.to))

\* The places of relations: a root, and the ways from it to the others.
Places ==
  UNION {{[root |-> i, way |-> s] :
            s \in {t \in Ways(PlanRoots[i].of) : t # <<>> => OwnRelation(Field(Last(t)))}} :
         i \in 1..Len(PlanRoots)}
NameAt(p) ==
  PlanRoots[p.root].name \o FlattenSeq([k \in 1..Len(p.way) |-> Field(p.way[k]).name])
MessageAt(p) == IF p.way = <<>> THEN PlanRoots[p.root].of ELSE Field(Last(p.way)).to
\* Every field below a place that is in no other place.
ColumnsAt(p) ==
  IF MessageAt(p) = "scalar" THEN {<<>>}
  ELSE {t \in Ways(MessageAt(p)) \ {<<>>} : \A k \in 1..Len(t) : ~OwnRelation(Field(t[k]))}

Acceptable ==
  /\ \A i \in 1..Len(PlanRoots) : Supported(PlanRoots[i].of)
  /\ \A p \in Places : Legal(NameAt(p))
  /\ \A p, q \in Places : NameAt(p) = NameAt(q) => p = q
  /\ \A p \in Places : \A t \in ColumnsAt(p) : Len(t) = 1 => Field(t[1]).name \notin ReservedColumns

\* The relation i is that of the place p, after that of the place above.
StandsAt(i, p) ==
  LET r == relations[i]
  IN /\ r.name = NameAt(p) /\ r.of = MessageAt(p)
     /\ p.way = <<>> => r.parent = 0 /\ r.kind = "root"
     /\ p.way # <<>> =>
          /\ r.parent \in 1..i - 1
          /\ relations[r.parent].name = NameAt([root |-> p.root, way |-> Front(p.way)])
          /\ r.field = Last(p.way).at /\ r.kind = Kind(Field(Last(p.way)))

\* A plan is refused exactly if there is a reason.  One that is not has a
\* relation for every place, joined to that of the place above, and no other;
\* all that a message may hold is a column or has a relation of its own.  And no
\* schema sends the planner round in circles.
PlanIsFaithful ==
  /\ \A s \in {closure, calls, asking} : Len(s) <= Cardinality(Messages)
  /\ Planned =>
       /\ ~refused <=> Acceptable
       /\ ~refused =>
            /\ \A p \in Places : \E i \in 1..Len(relations) :
                 StandsAt(i, p) /\ relations[i].columns = ColumnsAt(p)
            /\ \A i \in 1..Len(relations) : \E p \in Places : StandsAt(i, p)
=============================================================================
