\* Every script of up to three lines, played, restarted and ended at any step;
\* two files, all headers, a card that changes; a heap that runs out.
SPECIFICATION MCFairSpec
CONSTANTS
  a = a
  b = b
  A = A
  Buttons <- MCButtons
  Scripts <- MCScripts
  NotAScript = NotAScript
  Names <- MCNames
  NoName = NoName
  NoScript = NoScript
  Contents <- MCContents
  HeapBlocks = 2
  GarbageCounts <- MCZeroOrOne
  CardMayChange = TRUE
INVARIANTS
  TypeOK
  PlaysNamedScript
PROPERTIES
  PlaysAsPromised
  StartsInScriptMode
  RunEnds
