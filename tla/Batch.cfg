SPECIFICATION Spec
CONSTANTS
    Jobs <- TwoJobs
    KeyOf <- OwnKeys
    BatchSize = 2
    Assets <- OneAsset
    Uploads = {}
    Deletes = {}
    DeleteWhen <- SettledStates
    MaxCrashes = 0
    MaxHiccups = 0
    MaxFaults = 1
    max5xxRetries = 2
INVARIANTS SingleOwner StrandedBound
CHECK_DEADLOCK FALSE
