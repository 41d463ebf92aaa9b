------------------------------- MODULE Startup ------------------------------
(***************************************************************************)
(* The end of a process and the start of the next: reconcileStartup        *)
(* (internal/worker/orchestrator.go) runs to its end before the workers    *)
(* and the HTTP server start, so it reads rows nobody else is writing.     *)
(***************************************************************************)
EXTENDS WorkerLoop

StartupFrame == UNCHANGED << parts, tasks, pc, todo, snap, left, req, dreq,
                             djob, drow, hiccups >>

(* Killed, or shut down: the database, the files and TorBox keep what they *)
(* have.  Requests in flight are not taken up again.                       *)
Crash ==
    /\ mode # "down"
    /\ crashes < MaxCrashes
    /\ crashes' = crashes + 1
    /\ mode' = "down"
    /\ pending' = {}
    /\ pc' = [w \in Workers |-> "idle"]
    /\ todo' = [w \in Workers |-> {}]
    /\ snap' = [w \in Workers |-> [j \in Jobs |-> NoRow]]
    /\ left' = {}
    /\ req' = [j \in Jobs |-> IF req[j] = "none" THEN "none" ELSE "done"]
    /\ dreq' = [d \in Deletes |-> IF dreq[d] = "none" THEN "none" ELSE "done"]
    /\ djob' = [d \in Deletes |-> NoJob]
    /\ drow' = [d \in Deletes |-> NoRow]
    /\ UNCHANGED << jobs, world, hiccups, faults >>

Restart ==
    /\ mode = "down"
    /\ mode' = "recovering"
    /\ jobs' = ReleaseAllClaims(jobs)
    /\ pending' = ListOpenJobs(jobs)
    /\ UNCHANGED << disk, crashes, faults >>
    /\ StartupFrame

needsWakeup(state) ==
    state \in { "submit_pending", "submit_retry", "remote_queued",
                "remote_active", "local_download_pending",
                "local_downloading", "local_verify", "remove_pending" }

CompletedPathFound(j) == jobs[j].completed /\ disk[j].final

(* Variant: the state of the job is not looked at.                         *)
StagedAnyState(j) == disk[j].staging /\ allPartsCompleted(j)

Staged(j) ==
    /\ jobs[j].state \in { "local_download_pending", "local_downloading",
                           "local_verify" }
    /\ disk[j].staging
    /\ allPartsCompleted(j)

(* Variant: a completed path on disk means completed, deleted or not.      *)
ReconciledIgnoringDeletes(j) ==
    LET row == [jobs[j] EXCEPT !.staging = TRUE]
    IN  CASE CompletedPathFound(j) -> [row EXCEPT !.state = "completed"]
          [] ~ CompletedPathFound(j) /\ Staged(j) ->
                [row EXCEPT !.run = "due", !.state = "local_verify"]
          [] OTHER ->
                IF needsWakeup(row.state) /\ row.run = "nil"
                THEN [row EXCEPT !.run = "due"]
                ELSE jobs[j]

(* The row reconcileStartup leaves behind; it writes only what it changes. *)
Reconciled(j) ==
    LET row == [jobs[j] EXCEPT !.staging = TRUE]
    IN  CASE CompletedPathFound(j) ->
                IF row.state \in {"completed", "remove_pending"}
                THEN jobs[j]
                ELSE [row EXCEPT !.state = "completed"]
          [] ~ CompletedPathFound(j) /\ Staged(j) ->
                [row EXCEPT !.run = "due", !.state = "local_verify"]
          [] OTHER ->
                IF needsWakeup(row.state) /\ row.run = "nil"
                THEN [row EXCEPT !.run = "due"]
                ELSE jobs[j]

Reconcile ==
    LET j == First(pending)
    IN  /\ mode = "recovering"
        /\ pending # {}
        /\ pending' = pending \ {j}
        /\ \/ /\ Reconciled(j) # jobs[j]
              /\ \/ jobs' = UpdateJob(jobs, j, Reconciled(j)) /\ UNCHANGED faults
                 \/ Fault /\ UNCHANGED jobs
           \/ Reconciled(j) = jobs[j] /\ UNCHANGED << jobs, faults >>
        /\ UNCHANGED << disk, mode, crashes >>
        /\ StartupFrame

(* Variant: every staging directory is taken for an orphan.                *)
WithoutStaging(j) == RemoveStaging(disk[j])

(* RemoveOrphanStagingDirs(validIDs).                                      *)
WithoutOrphans(j) ==
    IF j \in ListOpenJobs(jobs) THEN disk[j] ELSE RemoveStaging(disk[j])

(* ... after which the workers and the HTTP server start.                  *)
Start ==
    /\ mode = "recovering"
    /\ pending = {}
    /\ disk' = [j \in Jobs |-> WithoutOrphans(j)]
    /\ mode' = "up"
    /\ UNCHANGED << jobs, pending, crashes, faults >>
    /\ StartupFrame

StartupStep == Restart \/ Reconcile \/ Start
=============================================================================
