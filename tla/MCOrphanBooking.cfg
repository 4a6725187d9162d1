SPECIFICATION Spec
CONSTANTS
    p1 = p1
    p2 = p2
    Processes = {p1}
    Instances = {i1}
    Rebuilds <- MCIntact
    Faults = {"lost", "late"}
    MaxFaults = 1
INVARIANTS
    FailedLeavesNothing
