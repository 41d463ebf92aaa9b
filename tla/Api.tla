--------------------------------- MODULE Api --------------------------------
(***************************************************************************)
(* The two handlers of internal/api/router.go that change jobs.  Each runs *)
(* beside the workers and beside other requests: enqueueSubmission looks   *)
(* for an active job and inserts one in separate statements, and           *)
(* markRemovePending writes back a row it read one statement before.       *)
(***************************************************************************)
EXTENDS WorkerLoop

ReqStates == { "none", "lookup", "insert", "queue", "done" }

DeleteStates == { "none", "read", "done" }

ApiFrame == UNCHANGED << parts, tasks, mode, pending, pc, todo, snap, left,
                         crashes, hiccups >>

Submitted(j) == UNCHANGED << dreq, djob, drow >> /\ ApiFrame

Step(j, from, to) ==
    /\ mode = "up"
    /\ req[j] = from
    /\ req' = [req EXCEPT ![j] = to]

(* A request arrives; the payload of an upload is saved first.             *)
SavePayload(j) ==
    /\ Step(j, "none", "lookup")
    /\ disk' = [disk EXCEPT ![j].payload = j \in Uploads]
    /\ UNCHANGED << jobs, faults >>
    /\ Submitted(j)

(* A duplicate is answered with the active job, and its payload dropped.   *)
FindDuplicate(j) ==
    /\ Step(j, "lookup", "done")
    /\ FindActiveBySubmissionKey(jobs, KeyOf[j]) # {}
    /\ disk' = [disk EXCEPT ![j].payload = FALSE]
    /\ UNCHANGED << jobs, faults >>
    /\ Submitted(j)

FindNone(j) ==
    /\ Step(j, "lookup", "insert")
    /\ FindActiveBySubmissionKey(jobs, KeyOf[j]) = {}
    /\ UNCHANGED << jobs, disk, faults >>
    /\ Submitted(j)

Accepted(j) ==
    [NoRow EXCEPT !.state = "accepted", !.staging = TRUE,
                  !.payload = j \in Uploads]

Insert(j) ==
    /\ Step(j, "insert", "queue")
    /\ CanInsert(jobs, j, Accepted(j))
    /\ jobs' = CreateJob(jobs, j, Accepted(j))
    /\ UNCHANGED << disk, faults >>
    /\ Submitted(j)

(* The unique index rejects the insert: another request came first.  The   *)
(* payload stays where it is.                                              *)
InsertRejected(j) ==
    /\ Step(j, "insert", "done")
    /\ ~ CanInsert(jobs, j, Accepted(j))
    /\ UNCHANGED << jobs, disk, faults >>
    /\ Submitted(j)

(* The handler writes its own copy of the row.                             *)
QueueForSubmit(j) ==
    /\ Step(j, "queue", "done")
    /\ jobs' = UpdateJob(jobs, j, [Accepted(j) EXCEPT
                   !.run = "due", !.state = "submit_pending"])
    /\ UNCHANGED << disk, faults >>
    /\ Submitted(j)

(* The client hangs up (the statements run under the request's context) or *)
(* a statement fails: the handler returns where it is.                     *)
RequestDies(j) ==
    /\ Fault
    /\ \E from \in {"lookup", "insert", "queue"} : Step(j, from, "done")
    /\ UNCHANGED << jobs, disk >>
    /\ Submitted(j)

SubmitStep(j) ==
    \/ FindDuplicate(j) \/ FindNone(j) \/ Insert(j) \/ InsertRejected(j)
    \/ QueueForSubmit(j)

(***************************************************************************)
(* markRemovePending.                                                      *)
(***************************************************************************)
DeleteFrame == UNCHANGED << disk, req, faults >> /\ ApiFrame

DeleteRead(d, j) ==
    /\ mode = "up"
    /\ dreq[d] = "none"
    /\ jobs[j].state \in DeleteWhen \ {"removed", "remove_pending"}
    /\ dreq' = [dreq EXCEPT ![d] = "read"]
    /\ djob' = [djob EXCEPT ![d] = j]
    /\ drow' = [drow EXCEPT ![d] = [jobs[j] EXCEPT !.claim = NoWorker]]
    /\ UNCHANGED jobs
    /\ DeleteFrame

(* Variant: the delete forgets where the files are.                        *)
ForgetPath(row) ==
    [row EXCEPT !.completed = FALSE, !.run = "due", !.state = "remove_pending"]

ToRemove(row) == [row EXCEPT !.run = "due", !.state = "remove_pending"]

DeleteWrite(d) ==
    /\ mode = "up"
    /\ dreq[d] = "read"
    /\ jobs' = UpdateJob(jobs, djob[d], ToRemove(drow[d]))
    /\ dreq' = [dreq EXCEPT ![d] = "done"]
    /\ djob' = [djob EXCEPT ![d] = NoJob]
    /\ drow' = [drow EXCEPT ![d] = NoRow]
    /\ DeleteFrame
=============================================================================
