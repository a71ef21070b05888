CONSTANTS
  Relations = {t1, t2}
  MaxRows = 3
  BatchRows = 2
  Capacity = 1
  MaxFaults = 2
  Catches = FALSE
SPECIFICATION FairSpec
INVARIANTS
  PublicationIsWhole
  AbortLeavesNothing
PROPERTIES
  ImplementsContract
  OwnerReturns
CHECK_DEADLOCK FALSE
