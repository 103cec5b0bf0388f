\* Fourteen scripts on the card: the last line of the TAS page is also the
\* line of the fourteenth.
SPECIFICATION Spec
CONSTANTS
  ShowLines <- MCNoFlags
  AlphaMax = 0
  AlphaInit = 0
  PatternCount = 1
  PadStates <- MCPadsForward
  StickStates <- MCNoStick
  EntryCounts <- MCManyEntries
PROPERTIES
  ReturnToMainOnlyReturns
