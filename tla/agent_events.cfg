SPECIFICATION EvFairSpec
CONSTANTS
  Clients = {c1}
  MaxSessions = 2
  NumTasks = 1
  MaxCalls = 1
  MaxRestarts = 2
  Requests = {"wildfire", "task"}
  Sandboxes = {"auto"}
  PathDenied = {FALSE}
CHECK_DEADLOCK FALSE
PROPERTIES
  ImplementsManager
  DoneTaskEndsSession
  SignalEndsPhase
