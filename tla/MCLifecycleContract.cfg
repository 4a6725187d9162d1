SPECIFICATION FairSpec
CONSTANTS
    p1 = p1
    p2 = p2
    Processes = {p1, p2}
    Instances = {i1}
    Rebuilds <- MCOneUnregistered
    Faults = {"crash", "db", "disconnect", "lost"}
    MaxFaults = 1
PROPERTIES
    KeepsContract
    RunningResolves
