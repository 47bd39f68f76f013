SPECIFICATION Spec
CONSTANTS
  Len = 11
  Requests <- MCRequests
  Null = Null
INVARIANTS
  ChainTiles
  NoFreeNeighbours
PROPERTIES
  Refines
