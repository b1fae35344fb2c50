CONSTANTS
  None = None
  MaxChunkTokens = 3
  MaxCharacters = 6
  Overlaps = {0, 1, 2}
  SepTokens <- MCSepTokens
  SepLength <- MCSepLength
  Texts <- MCTexts
  Documents <- MCDocuments
  Whole <- MCWhole
  General = "General"
SPECIFICATION ParserSpec
INVARIANTS
  NothingLost
  EachChunkAdvances
  ExcessIsBounded
  VisibleTextIsKept
  SectionsFollowHeadings
  PiecesAreNumbered
  RowsMatchOutcome
  RefusedIsExplained
