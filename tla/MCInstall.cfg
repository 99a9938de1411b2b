CONSTANTS
  Folders = {"alpha", "bmad", "bmod-m", "omega", "zeta"}
  Rank <- MCRank
  HelpPage = "help"
  TopicPages = {"topic", "more"}
  Hub = "bmad"
  Fold <- MCFold
  Catalogs <- MCCatalogs
  Installations <- MCStarts
  ScriptFiles <- MCScripts
  None = None
  Absent = Absent
  NoFile = NoFile
  BadFile = BadFile
  Odd = Odd
  NextPre = 2
  MaxChanges = 2
SPECIFICATION FairSpec
INVARIANTS
  CurrentMeansNothingOwed
  KnowledgeAgrees
  KnowledgeListedOnce
PROPERTIES
  SetupPaysDebts
  FollowingNextEnds
CHECK_DEADLOCK FALSE
