------------------------------ MODULE Submitter -----------------------------
(***************************************************************************)
(* internal/worker/submit.go.  A create call is not idempotent: whether    *)
(* the answer is lost, carries no identifier, or is never written to the   *)
(* row, the task exists at TorBox and the next attempt creates another.    *)
(***************************************************************************)
EXTENDS WorkerLoop

Submitting == Up("submitter", "work")

TaskCreated == tasks' = [tasks EXCEPT ![Job("submitter")] = @ + 1]

Answered(row) ==
    /\ WriteBack("submitter", row)
    /\ UNCHANGED << jobs, parts, disk, outside, todo, left, faults >>

Created(row) ==
    [row EXCEPT !.remote = TRUE, !.retry = 0, !.run = "later",
                !.state = "remote_active"]

(* Variant: a queued task is taken for a failed attempt.                   *)
QueuedRetried(row, hasQueueID) ==
    [row EXCEPT !.queued = hasQueueID, !.run = "later",
                !.state = "submit_retry"]

Queued(row, hasQueueID) ==
    [row EXCEPT !.remote = FALSE, !.queued = hasQueueID, !.retry = 0,
                !.run = "later", !.state = "remote_queued"]

(* Variant: retry_count counts the attempts that are left.                 *)
CountedDown(row) ==
    [row EXCEPT !.retry = @ - 1, !.run = "later", !.state = "submit_retry"]

Retried(row) ==
    [row EXCEPT !.retry = @ + 1, !.run = "later", !.state = "submit_retry"]

(* Variant: a rejected submission ends in the local failure state.         *)
RejectedLocally(row) == [row EXCEPT !.run = "nil", !.state = "failed"]

Rejected(row) == [row EXCEPT !.run = "nil", !.state = "remote_failed"]

(* The answer has the id of an active task.                                *)
SubmitActive ==
    /\ Submitting
    /\ TaskCreated
    /\ \E q \in BOOLEAN :
          Answered([Created(Copy("submitter")) EXCEPT !.queued = q])
    /\ UNCHANGED hiccups

(* The answer has a queue id, or only an auth id or a hash.                *)
SubmitQueued ==
    /\ Submitting
    /\ TaskCreated
    /\ \E q \in BOOLEAN : Answered(Queued(Copy("submitter"), q))
    /\ UNCHANGED hiccups

(* A retryable error (429, 5xx, timeout) or an answer without any id.  In  *)
(* the last two cases TorBox has created the task.                         *)
SubmitRetryable ==
    /\ Submitting
    /\ Hiccup
    /\ TaskCreated \/ UNCHANGED tasks
    /\ Answered(Retried(Copy("submitter")))

(* Any other error: a 4xx, an unreadable answer, or a connection that was  *)
(* lost, in which case TorBox may have created the task.                   *)
SubmitPermanent ==
    /\ Submitting
    /\ TaskCreated \/ UNCHANGED tasks
    /\ Answered(Rejected(Copy("submitter")))
    /\ UNCHANGED hiccups

SubmitterStep ==
    SubmitActive \/ SubmitQueued \/ SubmitRetryable \/ SubmitPermanent
=============================================================================
