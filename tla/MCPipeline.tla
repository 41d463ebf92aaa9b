----------------------------- MODULE MCPipeline -----------------------------
(* Small instances of Pipeline for TLC.                                    *)
EXTENDS Projection

OneJob == {1}
TwoJobs == {1, 2}
OneKey == [j \in OneJob |-> "k"]
SharedKey == [j \in TwoJobs |-> "k"]
OwnKeys == [j \in TwoJobs |-> j]
OneAsset == {1}
TwoAssets == {1, 2}
SettledStates == {"completed", "remote_failed", "failed"}
AnyState == JobStates
AtEachStage == {"accepted", "local_downloading", "completed"}
=============================================================================
