-------------------------------- MODULE Poller ------------------------------
(***************************************************************************)
(* internal/worker/poll.go.  A task is first looked up in TorBox's queue,  *)
(* by its queue id, then among the active tasks; when it turns up there    *)
(* the row is written once as remote_active before its status is applied.  *)
(* A transient answer (no such task yet, retryable error, still running)   *)
(* costs a hiccup.                                                         *)
(***************************************************************************)
EXTENDS WorkerLoop

Polling(label) == Up("poller", label)

PolledJob == Copy("poller")

NoQueue(row) == row.state = "remote_queued" \/ ~ row.remote

PollerFrame == UNCHANGED << world, outside, todo, left >>

(* One more poll later; UpdateJob, so the state is the copy's.             *)
PollAgain ==
    /\ Hiccup
    /\ WriteBack("poller", Later(PolledJob))
    /\ UNCHANGED << jobs, faults >>
    /\ PollerFrame

RemoteFailed ==
    /\ WriteBack("poller",
                 [PolledJob EXCEPT !.run = "nil", !.state = "remote_failed"])
    /\ UNCHANGED << jobs, hiccups, faults >>
    /\ PollerFrame

Turn(label) ==
    /\ Goto("poller", label)
    /\ UNCHANGED << jobs, snap, hiccups, faults >>
    /\ PollerFrame

(* Every task TorBox lists has an id.                                      *)
FoundActive(label) ==
    /\ SetCopy("poller",
               [PolledJob EXCEPT !.remote = TRUE, !.state = "remote_active"])
    /\ Goto("poller", label)
    /\ UNCHANGED << jobs, hiccups, faults >>
    /\ PollerFrame

(***************************************************************************)
(* processPollJob: the task has an id and is not queued.  An answer        *)
(* without the task is applied like a task that is still running.          *)
(***************************************************************************)
PollActive ==
    /\ Polling("work")
    /\ ~ NoQueue(PolledJob)
    /\ PollAgain \/ RemoteFailed \/ Turn("apply")

(***************************************************************************)
(* processQueuedPollJob.                                                   *)
(***************************************************************************)
PollQueued ==
    /\ Polling("work")
    /\ NoQueue(PolledJob)
    /\ \/ PolledJob.queued /\ PollAgain                   \* still queued
       \/ PolledJob.queued /\ FoundActive("promote")
       \/ Turn("recover")                  \* not in the queue, or an error

(* UpdateJobState(remote_active) before the status is known.  It clears    *)
(* the claim and leaves next_run_at as it was.                             *)
PollMidWrite ==
    /\ Polling("promote") \/ Polling("adopt")
    /\ CanUpdate(jobs, Job("poller"), PolledJob)
    /\ jobs' = UpdateJob(jobs, Job("poller"), PolledJob)
    /\ Goto("poller", IF pc["poller"] = "promote" THEN "find" ELSE "apply")
    /\ UNCHANGED << snap, hiccups, faults >>
    /\ PollerFrame

(* The row is gone, or the index rejects it: the error is returned.        *)
PollMidWriteRejected ==
    /\ Polling("promote") \/ Polling("adopt")
    /\ ~ CanUpdate(jobs, Job("poller"), PolledJob)
    /\ GiveUp("poller")
    /\ UNCHANGED << jobs, hiccups, faults >>
    /\ PollerFrame

(* The row, or only the event that goes with it, is not written.           *)
PollMidWriteFails ==
    /\ Polling("promote") \/ Polling("adopt")
    /\ Fault
    /\ \/ UNCHANGED jobs
       \/ jobs' = UpdateJob(jobs, Job("poller"), PolledJob)
    /\ GiveUp("poller")
    /\ UNCHANGED hiccups
    /\ PollerFrame

(* FindActiveTask after a promotion; its error is returned unwritten.      *)
PollFind ==
    /\ Polling("find")
    /\ \/ PollAgain
       \/ Turn("apply")
       \/ Hiccup /\ GiveUp("poller") /\ UNCHANGED << jobs, faults >>
                 /\ PollerFrame

(***************************************************************************)
(* tryRecoverActiveStatus.                                                 *)
(***************************************************************************)
PollRecover ==
    /\ Polling("recover")
    /\ \/ PollAgain
       \/ RemoteFailed
       \/ FoundActive(IF PolledJob.state = "remote_active"
                      THEN "apply" ELSE "adopt")

(***************************************************************************)
(* applyActiveStatus.                                                      *)
(***************************************************************************)
(* Variant: `ready at TorBox' is taken for `downloaded'.                   *)
ReadyHere(row) ==
    [row EXCEPT !.run = "due", !.queued = FALSE, !.state = "local_verify"]

Ready(row) ==
    [row EXCEPT !.run = "due", !.queued = FALSE,
                !.state = "local_download_pending"]

PollApplyReady ==
    /\ Polling("apply")
    /\ WriteBack("poller", Ready(PolledJob))
    /\ UNCHANGED << jobs, hiccups, faults >>
    /\ PollerFrame

PollApplyFailed == Polling("apply") /\ RemoteFailed

PollApplyRunning == Polling("apply") /\ PollAgain

PollerStep ==
    \/ PollActive \/ PollQueued \/ PollMidWrite \/ PollMidWriteRejected
    \/ PollFind \/ PollRecover
    \/ PollApplyReady \/ PollApplyFailed \/ PollApplyRunning

PollerFault == PollMidWriteFails
=============================================================================
