\* Two tests; two calls, of different sessions or overlapping in one.
CONSTANTS
  Sessions = {s1, s2}
  Calls = {c1, c2}
  NoSession = NoSession
SPECIFICATION FairSpec
INVARIANTS
  ClosedSessionIsQuiet
  OrderlyTestCloses
  SuccessIsTrue
PROPERTIES TestConcludes
CHECK_DEADLOCK FALSE
