SPECIFICATION Spec
CONSTANTS
  Clients = {c1, c2}
  MaxSessions = 3
  NumTasks = 1
  MaxCalls = 3
  MaxRestarts = 2
  Requests = {"chat", "wildfire", "stop"}
  Sandboxes = {"auto"}
  PathDenied = {FALSE}
CHECK_DEADLOCK FALSE
SYMMETRY ClientSymmetry
INVARIANTS
  LiveAgentOwnsSlot
  SlotIsMonitored
  StoppedRunEnds
  ReportedOnce
  ChatNeverKillsWork
PROPERTY OneSlot
