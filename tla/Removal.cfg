SPECIFICATION FairSpec
CONSTANTS
    Jobs <- OneJob
    KeyOf <- OneKey
    BatchSize = 1
    Assets <- OneAsset
    Uploads <- OneJob
    Deletes = {d1}
    DeleteWhen <- AtEachStage
    MaxCrashes = 2
    MaxHiccups = 0
    MaxFaults = 0
    max5xxRetries = 2
INVARIANTS ClaimsBacked PipelineOwner
PROPERTIES RemovalCompletes DeleteKept
CHECK_DEADLOCK FALSE
