---------------------------- MODULE JobLifecycle ----------------------------
(***************************************************************************)
(* What a client of TorBoxarr may rely on, with no workers, claims, copies *)
(* or files in sight: the state of each job moves along the edges below,   *)
(* one job at a time, and at most one job of a submission key is active.   *)
(* Pipeline implements this when deletes only reach settled jobs.          *)
(***************************************************************************)
EXTENDS JobStore

VARIABLE st

Edges ==
    { << "absent", "accepted" >>,
      << "accepted", "submit_pending" >>,
      << "submit_pending", "submit_retry" >>,
      << "submit_pending", "remote_queued" >>,
      << "submit_pending", "remote_active" >>,
      << "submit_pending", "remote_failed" >>,
      << "submit_retry", "remote_queued" >>,
      << "submit_retry", "remote_active" >>,
      << "submit_retry", "remote_failed" >>,
      << "remote_queued", "remote_active" >>,
      << "remote_queued", "remote_failed" >>,
      << "remote_active", "local_download_pending" >>,
      << "remote_active", "remote_failed" >>,
      << "local_download_pending", "local_downloading" >>,
      << "local_download_pending", "local_verify" >>,
      << "local_download_pending", "failed" >>,
      << "local_downloading", "local_verify" >>,
      << "local_downloading", "failed" >>,
      << "local_verify", "local_downloading" >>,
      << "local_verify", "completed" >>,
      << "local_verify", "failed" >>,
      << "completed", "remove_pending" >>,
      << "remote_failed", "remove_pending" >>,
      << "failed", "remove_pending" >>,
      << "remove_pending", "removed" >>,
      << "removed", "remove_pending" >>,
      << "removed", "absent" >> }

Holder(j) == { k \in Jobs \ {j} : KeyOf[k] = KeyOf[j] /\ st[k] \in ActiveStates }

Move(j, s) ==
    /\ << st[j], s >> \in Edges
    /\ s \in ActiveStates => Holder(j) = {}
    /\ st' = [st EXCEPT ![j] = s]

LifecycleInit == st = [j \in Jobs |-> "absent"]

LifecycleNext == \E j \in Jobs, s \in JobStates \cup {"absent"} : Move(j, s)

LifecycleSpec == LifecycleInit /\ [][LifecycleNext]_st
=============================================================================
