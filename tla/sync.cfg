SPECIFICATION Spec
CONSTANTS
  Absent = Absent
  Unwritten = Unwritten
  NoRecipe <- Absent
  NoText <- Unwritten
  Names <- MCNames
  Parts <- MCParts
  Alpine <- MCAlpine
  Merged <- MCMerged
  Aports = {"a", "b"}
  Tracked = {"t"}
  Pin <- MCPin
  Scheme <- MCScheme
  Policy <- MCPolicy
  Group <- MCGroup
  Kept = {"b"}
  Starts <- MCStarts
  Word = {"mine"}
  MaxMoves = 2
  MaxSyncs = 3
  MaxActs = 1
CHECK_DEADLOCK FALSE
INVARIANT TypeOK
PROPERTIES ReadFirst OwnStays
