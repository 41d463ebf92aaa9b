SPECIFICATION FairSpec
CONSTANTS
    Callers <- TwoCallers
    Capacity = 2
    Shapes <- NzbsByAuth
    MaxHiccups = 1
PROPERTIES Tracked
CHECK_DEADLOCK FALSE
