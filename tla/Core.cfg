SPECIFICATION Spec
CONSTANTS
    Jobs <- OneJob
    KeyOf <- OneKey
    BatchSize = 1
    Assets <- TwoAssets
    Uploads <- OneJob
    Deletes = {d1, d2}
    DeleteWhen <- SettledStates
    MaxCrashes = 1
    MaxHiccups = 1
    MaxFaults = 1
    max5xxRetries = 2
INVARIANTS TypeOK SingleOwner PartsOnDisk CompletedOnDisk WholeUnlessBroken NoLeftovers RemoteTaskBound ShownDone
PROPERTIES DeleteSticks ImplementsLifecycle EndSticks
CHECK_DEADLOCK FALSE
