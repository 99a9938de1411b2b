CONSTANTS
  Worlds <- MCWorlds
  Words <- MCWords
  Lower <- MCLower
  PartyAlias <- MCPartyAlias
  ForgeAlias <- MCForgeAlias
  Nothing = Nothing
SPECIFICATION Spec
INVARIANTS
  WordsSummon
  AgentsKeepTheirNames
  RoomIsInstalled
  SameRoom
CHECK_DEADLOCK FALSE
