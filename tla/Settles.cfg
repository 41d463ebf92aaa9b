SPECIFICATION FairSpec
CONSTANTS
    Jobs <- TwoJobs
    KeyOf <- SharedKey
    BatchSize = 1
    Assets <- OneAsset
    Uploads = {}
    Deletes = {}
    DeleteWhen <- SettledStates
    MaxCrashes = 0
    MaxHiccups = 2
    MaxFaults = 0
    max5xxRetries = 2
PROPERTIES JobSettles ImplementsLifecycle
CHECK_DEADLOCK FALSE
