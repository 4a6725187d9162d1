SPECIFICATION FairSpec
CONSTANTS
    p1 = p1
    p2 = p2
    Processes = {p1, p2}
    Instances = {i1}
    Rebuilds <- MCOneUnparsable
    Faults = {"crash"}
    MaxFaults = 1
PROPERTIES
    OthersResolve
CHECK_DEADLOCK FALSE
