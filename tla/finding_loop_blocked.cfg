SPECIFICATION FairSpec
CONSTANTS
  Starters = {t1, t2}
  Files = {task, sig}
  Signals = {sig}
  Cap = 1
  MaxWrites = 3
  MaxStarts = 1
CHECK_DEADLOCK FALSE
PROPERTY LoopNotBlocked
