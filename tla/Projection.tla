------------------------------ MODULE Projection -----------------------------
(***************************************************************************)
(* What Sonarr and Radarr are shown: internal/compat and                   *)
(* internal/api/progress.go as functions of a job's row and parts.  Both   *)
(* clients act on it: they import from the path of a download that is      *)
(* shown as done, and delete what is shown as failed.                      *)
(*                                                                         *)
(* Byte counts are kept only as `is anything left?'.  Rates, times and     *)
(* names are left out.                                                     *)
(***************************************************************************)
EXTENDS Pipeline

(* ListVisibleClientJobs                                                   *)
Visible(j) == Exists(jobs, j) /\ jobs[j].state # "removed"

Queueing ==
    { "accepted", "submit_pending", "submit_retry", "remote_queued",
      "remote_active", "local_download_pending" }

(* "downloading" reads "queuedDL" until a length is known.                 *)
projectQBitState(state) ==
    CASE state \in Queueing -> "queuedDL"
      [] state = "local_downloading" -> "downloading"
      [] state = "local_verify" -> "checkingResumeData"
      [] state \in { "completed", "remove_pending" } -> "pausedUP"
      [] state \in { "remote_failed", "failed" } -> "error"
      [] OTHER -> "stoppedDL"

isSABQueueState(state) ==
    state \in Queueing \cup { "local_downloading", "local_verify" }

isSABHistoryState(state) ==
    state \in { "completed", "remove_pending", "remote_failed", "failed" }

projectSABHistoryStatus(state) ==
    IF state \in { "completed", "remove_pending" }
    THEN "Completed" ELSE "Failed"

(* Variant: the staging directory is preferred.                            *)
StagingPathFirst(row) ==
    IF row.staging THEN "staging" ELSE IF row.completed THEN "final" ELSE ""

qbitPathsForJob(row) ==
    IF row.completed THEN "final" ELSE IF row.staging THEN "staging" ELSE ""

needsLocalTransferOverlay(state) ==
    state \in { "local_download_pending", "local_downloading",
                "local_verify", "completed", "remove_pending", "failed" }

(* withLocalTransferProgress: AmountLeft, from the parts (RangeDownload's  *)
(* CountedBytes: a completed part counts at least its length).             *)
SomethingLeft(j) ==
    /\ needsLocalTransferOverlay(jobs[j].state)
    /\ \E a \in Registered(j) : parts[j][a] # "done"

-----------------------------------------------------------------------------
(* How a client reads the two lists of one job, qBittorrent's and SAB's.   *)
QBitView(j) ==
    IF Visible(j)
    THEN CASE projectQBitState(jobs[j].state) = "pausedUP" -> "done"
           [] projectQBitState(jobs[j].state) = "error" -> "failed"
           [] OTHER -> "coming"
    ELSE "gone"

SABView(j) ==
    CASE ~ Visible(j) -> "gone"
      [] Visible(j) /\ isSABQueueState(jobs[j].state) -> "coming"
      [] Visible(j) /\ isSABHistoryState(jobs[j].state) ->
            IF projectSABHistoryStatus(jobs[j].state) = "Completed"
            THEN "done" ELSE "failed"

(* What is shown as done can be imported: with nothing left to download,   *)
(* and with the content path that is shown a directory that is on disk,    *)
(* whole (ProjectQBitTorrent, ProjectSABHistorySlot), until a delete.      *)
ShownDone ==
    \A j \in Jobs :
        QBitView(j) = "done" /\ jobs[j].state # "remove_pending" =>
            /\ qbitPathsForJob(jobs[j]) = "final" /\ disk[j].final
            /\ Registered(j) \subseteq disk[j].placed
            /\ ~ SomethingLeft(j)

(* A download that a client has seen end does not come back as one that is *)
(* coming, in either list: across stale copies, crashes and startup.       *)
EndIsShownOnce ==
    \A j \in Jobs :
        /\ QBitView(j) \in { "done", "failed" } => QBitView(j)' # "coming"
        /\ SABView(j) \in { "done", "failed" } => SABView(j)' # "coming"
        /\ QBitView(j) = "done" => QBitView(j)' # "failed"

EndSticks == [][EndIsShownOnce]_vars
=============================================================================
