SPECIFICATION Spec
CONSTANTS
    Base = 3
    Places = 2
    Sids <- TwoSids
    ttl = 11
    MaxTime = 20
INVARIANTS TypeOK LetIn Swept TextOrder
CHECK_DEADLOCK FALSE
