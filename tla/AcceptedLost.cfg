SPECIFICATION FairSpec
CONSTANTS
    Jobs <- OneJob
    KeyOf <- OneKey
    BatchSize = 1
    Assets <- OneAsset
    Uploads = {}
    Deletes = {}
    DeleteWhen <- SettledStates
    MaxCrashes = 0
    MaxHiccups = 0
    MaxFaults = 1
    max5xxRetries = 2
PROPERTIES AcceptedAdvances
CHECK_DEADLOCK FALSE
