SPECIFICATION Spec
CONSTANTS
  Cells = {c1, c2, c3}
  NULL = NULL
  AslrRegion <- MCAslrRegion
  AliasRegion <- MCAliasRegion
  HeapRegion <- MCHeapRegion
  Objects = {s_Storage, o1, o2, o3, o4}
  Storage = s_Storage
  Code <- MCCode
  OtherPages <- MCOtherPages
  MainModule <- MCMainModule
  Hooked <- MCHooked
  Patched <- MCPatched
  MaxWritten = 3
SYMMETRY Symmetry
INVARIANTS
  TypeOK
  ReservationsListed
  AliasesApart
  OneOwnerEach
  WritesArrive
  NothingStale
CHECK_DEADLOCK FALSE
