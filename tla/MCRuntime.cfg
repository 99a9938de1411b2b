CONSTANTS
  Setups = {s1, s2}
  Renders = {r1, r2}
  Modules = {"method", "tools"}
  Declared <- MCDeclared
  TemplateKeys = {"core.output"}
  TeamAsks <- MCTeamAsks
  UserAsks <- MCUserAsks
  CustomFiles = {"skill.toml", "skill.user.toml"}
  LayerOf <- MCLayerOf
  Invocations <- MCInvocations
  Sources = {"workflow", "step", "note"}
  Entry = "workflow"
  Switch <- MCSwitch
  Names <- MCNames
  Links <- MCLinks
  ShortName <- MCShortName
  Defaults <- MCDefaults
  Stamps = {d1, d2}
  Starts <- MCStarts
  Given = {"given"}
  Nothing = Nothing
  MaxBegun = 3
SYMMETRY Symmetry
SPECIFICATION Spec
INVARIANTS
  GenerationsWhole
  NamesTellApart
PROPERTIES
  SwapKeeps
  SetupConverges
CHECK_DEADLOCK FALSE
