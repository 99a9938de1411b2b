CONSTANTS
  Epics = {"epic-a", "epic-b"}
  Ids = {"1", "2"}
  Names = {"x", "y"}
  PlanNames = {"x", "y", "odd"}
  Agents = {a1, a2}
  MarkStatuses = {"in-progress", "done"}
  Trees <- StrayTrees
  Nothing = Nothing
  Blank = Blank
  MaxCommands = 2
SPECIFICATION Spec
PROPERTIES
  StaysLoadable
CHECK_DEADLOCK FALSE
