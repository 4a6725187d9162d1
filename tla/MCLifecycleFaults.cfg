SPECIFICATION Spec
CONSTANTS
    p1 = p1
    p2 = p2
    Processes = {p1}
    Instances = {i1, i2}
    Rebuilds <- MCAnyRebuild
    Faults = {"crash", "db", "beat", "driver", "disconnect", "lost", "late", "slow"}
    MaxFaults = 3
INVARIANTS
    TypeOK
    NeverRerun
    SingleExecutor
    CallsAreSaga
    CancelHasTarget
    CompletedIsActive
    SuccessStands
    FailedWasCancelled
PROPERTIES
    TerminalStable
    RowsKeepContract
SYMMETRY InstanceSymmetry
CHECK_DEADLOCK FALSE
