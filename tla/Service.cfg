CONSTANTS
  c1 = c1
  c2 = c2
  c3 = c3
  Trans = {c1, c2, c3}
  Keys = {k1, k2}
  Ids <- MCIds
  Garbages = {0, 1}
  NoBlob = NoBlob
  NoThread = NoThread
  NoCall = NoCall
  MaxRequests = 4
SPECIFICATION Spec
INVARIANTS DirtyOnlyWhenForgetful  
VIEW View
SYMMETRY Symmetry
CHECK_DEADLOCK FALSE
