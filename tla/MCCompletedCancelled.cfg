SPECIFICATION Spec
CONSTANTS
    p1 = p1
    p2 = p2
    Processes = {p1}
    Instances = {i1, i2}
    Rebuilds <- MCIntact
    Faults = {"crash"}
    MaxFaults = 2
INVARIANTS
    CompletedNeverCancelled
