SPECIFICATION FairSpec
CONSTANTS
    Chats = {c1}
    MaxUpdates = 2
    MaxRpcs = 1
    MaxBridges = 2
    MaxCodes = 1
    MaxSessions = 2
    Scripts <- MCScripts
INVARIANTS NothingForgotten CodeRedeemedOnce AdmittedWasSaved
PROPERTIES HandledOnce EveryUpdateHandled QueuedTextSettled
CHECK_DEADLOCK FALSE
