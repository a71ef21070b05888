CONSTANTS
  Procs = {p1, p2}
  Runs = {r1}
  Topics = {k1}
  Ids = {i1, i2}
  Nothing = Nothing
  MaxRevision = 3
  MaxFaults = 1
SYMMETRY Symmetry
SPECIFICATION Spec
INVARIANTS
  ArchiveIsReliable
  SnapshotsAreDeliberate
PROPERTIES
  NoLostUpdate
  AuthorSawWhatIsReplaced
CHECK_DEADLOCK FALSE
