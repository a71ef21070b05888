\* The body goes on after an interrupt of an append.
CONSTANTS
  Relations = {t1}
  MaxRows = 3
  BatchRows = 2
  Capacity = 1
  MaxFaults = 1
  Catches = TRUE
SPECIFICATION Spec
INVARIANTS AcceptedRowsArePublished
CHECK_DEADLOCK FALSE
