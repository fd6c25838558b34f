CONSTANTS
  W = 12
  Pages = 2
  MaxHeld = 3
  Requests = {3, 4, 5}
  Contents <- MCContents
SPECIFICATION Spec
INVARIANTS BlocksTile BlocksMarked ClearBitMeansFree FreeNeighbours RefusedByFormerContents 
VIEW View
CHECK_DEADLOCK FALSE
