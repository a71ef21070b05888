\* Every text of four bytes in pieces of up to three; every schema of three
\* fields.  A text and a schema may be complete, and nothing follows.
CONSTANTS
  Bytes = {"char", "cr", "lf", "control", "lead2", "lead3", "tail", "bad"}
  MaxBytes = 4
  MaxPiece = 3
  m1 = m1
  m2 = m2
  m3 = m3
  Messages <- MCMessages
  PlanRoots <- MCRoots
  ReservedNames <- MCReservedNames
  ReservedColumns <- MCReservedColumns
  IllegalWords = {"_kat_row_id"}
  MaxFields = 3
  MaxRepeat = 2
SPECIFICATION Spec
INVARIANTS
  LogShowsTheText
  PlanIsFaithful
  RowsTellThePayload
CHECK_DEADLOCK FALSE
