SPECIFICATION Spec
CONSTANTS
    Requests = {r1, r2}
    HasBranch = TRUE
    Enclosed = TRUE
    MaxVersion = 3
INVARIANTS
    TypeOK
    ServedIsCurrent
    LocalHasReason
    OwnTreeUntouched
SYMMETRY Symmetry
CHECK_DEADLOCK FALSE
