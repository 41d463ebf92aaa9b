SPECIFICATION Spec
CONSTANTS
    Jobs <- OneJob
    KeyOf <- OneKey
    BatchSize = 1
    Assets <- TwoAssets
    Uploads <- OneJob
    Deletes = {d1}
    DeleteWhen <- SettledStates
    MaxCrashes = 1
    MaxHiccups = 0
    MaxFaults = 0
    max5xxRetries = 2
INVARIANTS CompletedWhole
CHECK_DEADLOCK FALSE
