\* One script that changes the stage, two scenes that replace each other.
SPECIFICATION SmoSpec
CONSTANTS
  a = a
  A = A
  s1 = s1
  s2 = s2
  Buttons <- MCButtons
  Scripts <- MCScripts
  NotAScript = NotAScript
  Names <- MCNames
  NoName = NoName
  NoScript = NoScript
  Contents <- MCScripts
  HeapBlocks = 1
  GarbageCounts <- MCZero
  CardMayChange = FALSE
  ShowLines <- MCNoFlags
  AlphaMax = 0
  AlphaInit = 0
  PatternCount = 1
  PadStates <- MCPads
  StickStates <- MCStick
  Scenes <- MCScenes
  NoScene = NoScene
  UnsetScene = UnsetScene
SYMMETRY MCSymmetry
INVARIANTS
  SmoTypeOK
PROPERTIES
  CrashOnlyInFirstMovement
  SceneSetBeforeRead
