CONSTANTS
  Techniques <- MCTechniques
  Catalogs <- MCCatalogs
  Lower <- MCLower
  Shipped <- MCShipped
  CatRank <- MCRank
  Modes = {"Facilitator", "Ideate for me"}
  MainMode = "Facilitator"
  MaxStep <- MCMaxStep
  Callers = {h1, h2}
  Fields = {"mode", "status"}
  NoFile = NoFile
  Nothing = Nothing
  MaxTechs = 2
  MaxEntries = 3
  MaxKills = 1
SPECIFICATION Spec
SYMMETRY Symmetry
INVARIANTS
  TotalIsHonest
  OverlayWins
  UnreadableNeedsBoth
  ResumeContinues
PROPERTIES
  LogGrows
CHECK_DEADLOCK FALSE
