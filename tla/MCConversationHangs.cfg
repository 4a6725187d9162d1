SPECIFICATION FairSpec
CONSTANTS
    t1 = t1
    t2 = t2
    t3 = t3
    ToolUses <- MCToolUses
    Invalid <- MCInvalid
    Provider = "anthropic"
    MaxSteps = 2
    Faults = {"gate"}
    MaxFaults = 1
PROPERTIES
    ToolUseIsAnswered
CHECK_DEADLOCK FALSE
