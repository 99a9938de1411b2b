CONSTANTS
  Catalogs <- MCCatalogs
  Digits <- MCDigits
  CatFold <- MCCatFold
  MenuSize = 3
  None = None
SPECIFICATION PicksSpec
INVARIANTS
  RunsWhatWasChosen
  ReshuffleSpreads
CHECK_DEADLOCK FALSE
