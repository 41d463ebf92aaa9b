SPECIFICATION FairSpec
CONSTANTS
    Callers <- TwoCallers
    Capacity = 2
    Shapes <- Known
    MaxHiccups = 1
INVARIANTS TypeOK RightTask NotGivenUp RateBound
PROPERTIES Tracked ServedInTurn
CHECK_DEADLOCK FALSE
