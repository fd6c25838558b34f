CONSTANTS
  t1 = t1
  t2 = t2
  t3 = t3
  Trans = {t1, t2, t3}
  List = List
  Null = Null
  NoThread = NoThread
  MaxOps = 1
SPECIFICATION CreatedSpec
PROPERTY AbortAborts
CHECK_DEADLOCK FALSE
