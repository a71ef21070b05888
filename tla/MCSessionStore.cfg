CONSTANTS
  Procs = {p1, p2, p3}
  Creator = p1
  Runs = {r1, r2}
  NoRun = NoRun
  MaxFaults = 2
SPECIFICATION Spec
SYMMETRY Symmetry
INVARIANTS
  TypeOK
  WhatIsUsedStays
  DiskIsAccounted
  DeletionIsWhole
PROPERTIES
  ImplementsContract
