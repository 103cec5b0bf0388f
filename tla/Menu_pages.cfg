\* Every page, every cursor and every call on TAS, with options that are
\* edited, saved on request or by an autosave, and read back after a restart.
SPECIFICATION Spec
CONSTANTS
  ShowLines <- MCOneFlag
  AlphaMax = 2
  AlphaInit = 1
  PatternCount = 2
  PadStates <- MCPads
  StickStates <- MCAnyStick
  EntryCounts <- MCFewEntries
INVARIANTS
  TypeOK
  CursorsInRange
  LoadedEntryUnderCursor
  UnsavedOnlyWhileEditing
PROPERTIES
  NoRepeatWhileHeld
