SPECIFICATION FairSpec
CONSTANTS
    t1 = t1
    t2 = t2
    t3 = t3
    ToolUses <- MCToolUses
    Invalid <- MCInvalid
    Provider = "anthropic"
    MaxSteps = 2
    Faults = {"llm", "gate", "finalize", "leave"}
    MaxFaults = 2
INVARIANTS
    TypeOK
    EachUseAnswered
    ReplySeesResults
    StepsInOrder
    CancelledWasShown
    ConsumerIsServed
PROPERTIES
    AnsweredUnlessGateRaises
CHECK_DEADLOCK FALSE
