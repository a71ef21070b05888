\* Two calls get an id, the third finds none left.
CONSTANTS
  Calls = {c1, c2, c3}
  NoCall = NoCall
  MaxCallId = 1
  NoId = NoId
  Capacity = 1
  MaxFaults = 1
SYMMETRY Symmetry
SPECIFICATION Spec
INVARIANTS
  NoCallIsStranded
  ExchangeIsQuiet
PROPERTIES
  ClosedContextStaysQuiet
  ImplementsCalls
CHECK_DEADLOCK FALSE
