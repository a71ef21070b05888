---------------------- MODULE MaterializationContract ----------------------
(***************************************************************************)
(* What `with dp.write(schema, destination=...)` promises (ADR-0076): all  *)
(* rows that were accepted, in their order, become the destination in one  *)
(* step, or nothing does; and a destination that somebody else has put in  *)
(* place is never touched.                                                 *)
(***************************************************************************)
EXTENDS Sequences

CONSTANTS Relations, Rows

VARIABLES
  open,         \* the write is not over
  rows,         \* the rows accepted for each relation
  destination,  \* "none", "ours" or "foreign"
  content       \* what our destination holds

mcvars == <<open, rows, destination, content>>

WriteInit ==
  /\ open = TRUE
  /\ rows = [t \in Relations |-> <<>>]
  /\ destination \in {"none", "foreign"}
  /\ content = [t \in Relations |-> <<>>]

Accept ==
  /\ open
  /\ \E t \in Relations, n \in Rows : rows' = [rows EXCEPT ![t] = Append(@, n)]
  /\ UNCHANGED <<open, destination, content>>

Compete ==
  /\ destination = "none" /\ destination' = "foreign"
  /\ UNCHANGED <<open, rows, content>>

Commit ==
  /\ open /\ open' = FALSE
  /\ destination = "none" /\ destination' = "ours"
  /\ content' = rows
  /\ UNCHANGED rows

Abort ==
  /\ open /\ open' = FALSE
  /\ UNCHANGED <<rows, destination, content>>

WriteNext == Accept \/ Compete \/ Commit \/ Abort

WriteSpec == WriteInit /\ [][WriteNext]_mcvars
=============================================================================
