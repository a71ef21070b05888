\* Three Runs: a parent, its child and its grandchild, two concurrent children,
\* or two trees at once.
CONSTANTS
  r1 = r1
  r2 = r2
  r3 = r3
  t1 = t1
  t2 = t2
  t3 = t3
  Runs <- MCRuns
  Targets <- MCTargets
  NoRun = NoRun
  MaxCrashes = 1
SPECIFICATION OrderedSpec
INVARIANTS
  ManifestIsExact
  NeverInsideItself
  EnumerationIsSound
PROPERTIES TreesEnd
CHECK_DEADLOCK FALSE
