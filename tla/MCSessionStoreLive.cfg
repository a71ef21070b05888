CONSTANTS
  Procs = {p1, p2}
  Creator = p1
  Runs = {r1}
  NoRun = NoRun
  MaxFaults = 2
SPECIFICATION FairSpec
PROPERTIES
  DeletionAnswers
  RetriedDeletionCompletes
