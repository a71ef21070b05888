CONSTANTS
  Calls = {c1, c2}
  NoCall = NoCall
  MaxCallId = 1
  NoId = NoId
  Capacity = 1
  MaxFaults = 1
SPECIFICATION FairSpec
PROPERTIES
  EveryCallReturns
  ExchangeEnds
CHECK_DEADLOCK FALSE
