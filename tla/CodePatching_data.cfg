SPECIFICATION Spec
CONSTANTS
  Cells = {c1, c2, c3}
  NULL = NULL
  AslrRegion <- MCAslrRegion
  AliasRegion <- MCAliasRegion
  HeapRegion <- MCHeapRegion
  Objects = {s_Storage, o1, o2, o3, o4}
  Storage = s_Storage
  Code <- MCCode
  OtherPages <- MCOtherPages
  MainModule <- MCMainModule
  Hooked <- RunsOver
  Patched <- MCPatched
  MaxWritten = 3
SYMMETRY Symmetry
INVARIANT MappingIsTheSame
CHECK_DEADLOCK FALSE
