CONSTANTS
  t1 = t1
  t2 = t2
  t3 = t3
  Trans = {t1, t2, t3}
  List = List
  Null = Null
  NoThread = NoThread
  MaxOps = 2
SPECIFICATION CreatedSpec
INVARIANTS TypeOK TokenMeansFinal CommitOrder EnoughTokens PointersCounted OnlyPendingOperate
PROPERTY FinalStatusStable
CHECK_DEADLOCK FALSE
