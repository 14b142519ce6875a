SPECIFICATION Spec
CONSTANTS
  Coins = {a}
  a = a
  Answers <- const_Answers
  MaxTasks = 2
INVARIANTS TypeOK LoadLockKept PointersGood BlankExplained
PROPERTIES PictureKept IconShown
