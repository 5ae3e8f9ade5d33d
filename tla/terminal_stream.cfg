SPECIFICATION Spec
CONSTANTS
    MaxProcesses = 2
    MaxChunks = 2
    Kept = 1
    Room = 1
    MaxFaults = 1
INVARIANTS NothingRepeated
PROPERTIES EventuallyShown
CHECK_DEADLOCK FALSE
