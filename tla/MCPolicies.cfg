SPECIFICATION ConfigSpec
CONSTANTS
  Texts <- SegmentTexts
  Blank <- NoText
  Length <- Characters
  Folded <- LowerCase
  Paths <- RequestPaths
  Covers <- StartsWithSegments
  KnownPrefixes <- AllPrefixes
  Values = {"default", "own", "strict"}
  Items = {"extra", "owned"}
  OwnedItems = {"owned"}
  Presets <- SecurePresets
  Defaults <- Library
  Customizations <- Edits
  MaxLists = 3
INVARIANT LongestPrefixWins
PROPERTY PoliciesIndependent
