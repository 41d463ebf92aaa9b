SPECIFICATION Spec
CONSTANTS
    Jobs <- OneJob
    KeyOf <- OneKey
    BatchSize = 1
    Assets <- OneAsset
    Uploads <- OneJob
    Deletes = {d1}
    DeleteWhen <- AnyState
    MaxCrashes = 0
    MaxHiccups = 0
    MaxFaults = 0
    max5xxRetries = 2
INVARIANTS SingleOwner
CHECK_DEADLOCK FALSE
