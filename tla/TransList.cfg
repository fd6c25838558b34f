CONSTANTS
  Trans = {t1, t2, t3}
  List = List
  Null = Null
SPECIFICATION ListSpec
INVARIANTS NoCycle ReachableIsInitialised IdBounded
PROPERTY WalkEnds
CHECK_DEADLOCK FALSE
