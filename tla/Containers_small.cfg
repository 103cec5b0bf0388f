SPECIFICATION MCSpec
CONSTANTS
  one = one
  other = other
  Keys <- MCKeys
  Values = {one, other}
  Entries <- MCEntries
  NodeMaxes = {2, 7}
  Items = {one, other}
  RingCapacities = {0, 1, 4}
INVARIANTS
  TreeTypeOK
  CellsAccounted
  Balanced
  RingTypeOK
PROPERTIES
  MapImplemented
  QueueImplemented
