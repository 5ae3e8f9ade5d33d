SPECIFICATION FairSpec
CONSTANTS
  Clients = {c1, c2}
  MaxSessions = 3
  NumTasks = 2
  MaxCalls = 2
  MaxRestarts = 2
  Requests = {"start-all", "chat", "retry", "shutdown"}
  Sandboxes = {"auto"}
  PathDenied = {TRUE, FALSE}
CHECK_DEADLOCK FALSE
INVARIANTS
  EndedRunReported
  LoneRunRestartsBounded
PROPERTIES
  StartReturns
  StopFreesSlot
