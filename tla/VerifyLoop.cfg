SPECIFICATION FairSpec
CONSTANTS
    Jobs <- OneJob
    KeyOf <- OneKey
    BatchSize = 1
    Assets <- OneAsset
    Uploads <- OneJob
    Deletes = {d1}
    DeleteWhen <- SettledStates
    MaxCrashes = 1
    MaxHiccups = 0
    MaxFaults = 0
    max5xxRetries = 2
PROPERTIES VerifySettles
CHECK_DEADLOCK FALSE
