\* Three payloads; the second of two with two events each finds no row id.
CONSTANTS
  MaxId = 2
  BatchRows = 2
  Clocks = {boot, mono}
  NoClock = NoClock
  Plugins = {p1}
  SectionTypes = {t1}
  EnumOrigins <- MCEnumOrigins
  EventCounts = {0, 1, 2}
  MaxFrames = 3
  MaxSections = 2
  Kinds = {"sched_switch", "print"}
  OtherKinds = {"other"}
  MaxLines = 4
SPECIFICATION Spec
INVARIANTS
  DecodeIsFaithful
PROPERTIES DecodeIsAtomic
CHECK_DEADLOCK FALSE
