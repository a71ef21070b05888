\* One command of each kind; five layouts of three directories with two edits;
\* four modules with two edits; every Output name of four characters.  A command
\* may be killed, each of them comes to an end, and nothing follows it.
CONSTANTS
  Kinds = {"query", "inspect", "run"}
  Directories = {"d1", "d2", "d3"}
  PackNames = {"p", "q"}
  Asked = "p"
  Layouts <- MCLayouts
  MaxEdits = 2
  ModuleOrder <- MCModuleOrder
  Workflows = {"wanted", "other"}
  Interfaces = {"wanted1", "wanted2", "other"}
  NameOf <- MCNameOf
  Guides = {"g"}
  Wanted = "wanted"
  MaxChanges = 2
  Lower = {"a", "z"}
  Digit = {"1"}
  Devices <- MCDevices
  Returns <- MCReturns
SPECIFICATION MCSpec
INVARIANTS
  AnswerIsTrue
  NothingIsLeft
  AnswerIsTheSet
  OnlyTheInspectedRuns
  PublishedIsReadable
PROPERTIES
  EffectsComeLast
CHECK_DEADLOCK FALSE
