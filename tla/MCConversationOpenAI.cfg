SPECIFICATION Spec
CONSTANTS
    t1 = t1
    t2 = t2
    t3 = t3
    ToolUses <- MCToolUses
    Invalid <- MCInvalid
    Provider = "openai"
    MaxSteps = 1
    Faults = {}
    MaxFaults = 0
INVARIANTS
    AnyProviderSeesResults
CHECK_DEADLOCK FALSE
