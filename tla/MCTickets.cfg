CONSTANTS
  Epics = {"epic-a", "epic-b"}
  Ids = {"1", "2"}
  Names = {"x", "y"}
  PlanNames = {"x", "y", "odd"}
  Agents = {a1, a2}
  MarkStatuses = {"done"}
  Trees <- MCTrees
  Nothing = Nothing
  Blank = Blank
  MaxCommands = 3
SYMMETRY Symmetry
SPECIFICATION Spec
INVARIANTS
  SomethingToDo
  RowRefFinds
  ChainIsLongest
PROPERTIES
  OnlyTheMarkedChange
  OnlyTornReadsBreak
  PullKeepsAnswer
CHECK_DEADLOCK FALSE
