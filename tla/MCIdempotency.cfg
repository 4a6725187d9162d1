SPECIFICATION FairSpec
CONSTANTS
    r1 = r1
    r2 = r2
    r3 = r3
    r4 = r4
    k1 = k1
    NoKey = NoKey
    Settlers = {worker, watchdog}
    Requests <- MCRequests
    Keys <- MCKeys
    KeyOf <- MCKeyOf
    MaxFaults = 2
INVARIANTS
    TypeOK
    OneExecution
    CollisionIsFound
    HitIsTrue
    WaitsForCommit
PROPERTIES
    ImplementsAtomicGate
    EveryRequestLeaves
CHECK_DEADLOCK FALSE
