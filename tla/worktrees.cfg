SPECIFICATION Spec
CONSTANTS
    Tasks = {t1, t2}
    MaxWork = 2
    MaxSessions = 2
    MaxCalls = 1
INVARIANTS CommittedWorkKept ReportedWorkLanded OpenMergeTold
CHECK_DEADLOCK FALSE
SYMMETRY Symmetry
