SPECIFICATION FairSpec
CONSTANTS
  Starters = {t1, t2}
  Files = {task, sig}
  Signals = {sig}
  Cap = 2
  MaxWrites = 3
  MaxStarts = 2
CHECK_DEADLOCK FALSE
PROPERTIES
  EveryChangeHandled
  StartsReturn
  LoopNotBlocked
