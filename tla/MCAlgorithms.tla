---------------------------- MODULE MCAlgorithms ----------------------------
(* Small instances of the two algorithms that keep no state beyond one call: *)
(* TextProjection and RelationalPlan, one of them in each behaviour.         *)
EXTENDS TextProjection, RelationalRows

CONSTANTS m1, m2, m3, MaxFields

VARIABLE subject

MCMessages == {m1, m2, m3}
MCRoots ==
  <<[of |-> m1, name |-> <<"clock">>], [of |-> m2, name |-> <<"clock", "domain", "domain">>]>>
MCReservedNames == {<<"clock", "domain">>}
MCReservedColumns == {<<"_kat_row_id">>}

\* Names that collide where messages are inside messages, or with a root.  Only
\* scalar fields have reserved names here.
MCFieldNames == {<<"domain">>, <<"domain", "domain">>}
MCFields ==
  [name : MCFieldNames \cup MCReservedColumns, to : {"scalar"}, mode : Modes]
  \cup [name : MCFieldNames, to : MCMessages, mode : {"optional", "repeated", "oneof"}]

FieldLists(n) == {s \in [1..n -> MCFields] : \A i, j \in 1..n : s[i].name = s[j].name => i = j}
Uses(s, m) == \E i \in DOMAIN s : s[i].to = m

\* Every schema of up to MaxFields fields in which m3 has fields only if it is used.
SchemaInit ==
  \E i, j, k \in 0..MaxFields :
    /\ i + j + k <= MaxFields
    /\ \E a \in FieldLists(i), b \in FieldLists(j), c \in FieldLists(k) :
         /\ k > 0 => Uses(a, m3) \/ Uses(b, m3)
         /\ schema = [m \in MCMessages |-> CASE m = m1 -> a [] m = m2 -> b [] OTHER -> c]

Init ==
  \/ subject = "plan" /\ SchemaInit /\ PlanInit /\ TextInit
  \/ subject = "text" /\ schema = [m \in MCMessages |-> <<>>] /\ PlanInit /\ TextInit

Next ==
  \/ subject = "text" /\ TextNext /\ UNCHANGED <<subject, planVars>>
  \/ subject = "plan" /\ PlanNext /\ UNCHANGED <<subject, textVars>>

Spec == Init /\ [][Next]_<<subject, textVars, planVars>>
=============================================================================
