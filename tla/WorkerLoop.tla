----------------------------- MODULE WorkerLoop -----------------------------
(***************************************************************************)
(* The state of the running program, and what its five workers have in     *)
(* common (internal/worker/orchestrator.go and the run... functions).      *)
(*                                                                         *)
(* A worker claims a batch of due jobs in one transaction, reads their     *)
(* rows in a second statement, and then works through its COPIES of the    *)
(* rows in order, however long that takes.  A job ends with a write of the *)
(* whole copy and a release of the claim by id; the two are separate       *)
(* statements and the second is not conditional on still owning the claim. *)
(* The steps between are the worker's own: see Submitter, Poller,          *)
(* Downloader, Finalizer and Remover.                                      *)
(***************************************************************************)
EXTENDS JobStore

CONSTANTS
    Assets,         \* the files of a remote task, numbered in list order
    Uploads,        \* the jobs submitted as a file rather than as a URI
    Deletes,        \* bound: the delete requests clients send
    DeleteWhen,     \* the states in which clients ask for a delete
    MaxCrashes,     \* bound: how often the process dies
    MaxHiccups,     \* bound: transient answers of TorBox and of its CDN
    MaxFaults,      \* bound: failed statements and file operations
    max5xxRetries   \* download.go

ASSUME LoopAssumption ==
    /\ Assets \subseteq Nat \ {0}
    /\ Uploads \subseteq Jobs
    /\ DeleteWhen \subseteq JobStates
    /\ MaxCrashes \in Nat /\ MaxHiccups \in Nat /\ MaxFaults \in Nat
    /\ max5xxRetries \in Nat

VARIABLES
    jobs,     \* the jobs table
    parts,    \* the transfer_parts table
    disk,     \* the files of each job
    tasks,    \* how many remote tasks were created for each job
    mode,     \* is the process up, down, or in reconcileStartup?
    pending,  \* jobs reconcileStartup has not looked at yet
    pc,       \* where each worker is
    todo,     \* the jobs of each worker's batch that it is not done with
    snap,     \* each worker's copies of the rows of its batch
    left,     \* the parts the downloader's loop has still to fetch
    req,      \* where the submit request of each job is
    dreq,     \* where each delete request is
    djob,     \* the job it is for
    drow,     \* the row it has read
    crashes, hiccups, faults    \* how much of each bound is used up

vars == << jobs, parts, disk, tasks, mode, pending, pc, todo, snap, left,
           req, dreq, djob, drow, crashes, hiccups, faults >>

(* What no step of a worker changes.                                       *)
outside == << mode, pending, req, dreq, djob, drow, crashes >>

(* The job's data outside the jobs table.                                  *)
world == << parts, disk, tasks >>

(***************************************************************************)
(* A part is registered before it is done.  A job's files: the staging     *)
(* directory and the part files in it, the completed directory and the     *)
(* part files that were in it when it was renamed, the payload.  A file is *)
(* full when it has the size the part's row says.                          *)
(***************************************************************************)
PartStates == { "none", "registered", "done" }

FileStates == { "absent", "partial", "full" }

Files == [ staging : BOOLEAN, file : [Assets -> FileStates],
           final : BOOLEAN, placed : SUBSET Assets, payload : BOOLEAN ]

NoFile == [a \in Assets |-> "absent"]

NoFiles == [ staging |-> FALSE, file |-> NoFile, final |-> FALSE,
             placed |-> {}, payload |-> FALSE ]

NoParts == [a \in Assets |-> "none"]

Registered(j) == { a \in Assets : parts[j][a] # "none" }

allPartsCompleted(j) ==
    /\ Registered(j) # {}
    /\ \A a \in Registered(j) : parts[j][a] = "done"

RemoveStaging(d) == [d EXCEPT !.staging = FALSE, !.file = NoFile]

(***************************************************************************)
(* The states a worker passes to ClaimJobsDue.                             *)
(***************************************************************************)
(* Variant: the poller also claims jobs that wait for their download.      *)
PollerTakesDownloads(w) ==
    CASE w = "submitter"  -> { "submit_pending", "submit_retry" }
      [] w = "poller"     -> { "remote_queued", "remote_active",
                               "local_download_pending" }
      [] w = "downloader" -> { "local_download_pending",
                               "local_downloading" }
      [] w = "finalizer"  -> { "local_verify" }
      [] w = "remover"    -> { "remove_pending" }

Handles(w) ==
    CASE w = "submitter"  -> { "submit_pending", "submit_retry" }
      [] w = "poller"     -> { "remote_queued", "remote_active" }
      [] w = "downloader" -> { "local_download_pending",
                               "local_downloading" }
      [] w = "finalizer"  -> { "local_verify" }
      [] w = "remover"    -> { "remove_pending" }

(***************************************************************************)
(* A worker is at one of these labels; all but the first two and the last  *)
(* two belong to one worker each.                                          *)
(***************************************************************************)
Labels == { "idle", "fetch", "work", "save", "release",
            "recover", "promote", "adopt", "find", "apply",
            "links", "register", "loop", "mark", "stream", "last", "commit",
            "rename", "rmstaging", "rmpayload" }

Up(w, label) == mode = "up" /\ pc[w] = label

Job(w) == First(todo[w])

Copy(w) == snap[w][Job(w)]

Goto(w, label) == pc' = [pc EXCEPT ![w] = label]

SetCopy(w, row) == snap' = [snap EXCEPT ![w][Job(w)] = row]

(* The last thing most branches do: change the copy, then write it.        *)
WriteBack(w, row) == SetCopy(w, row) /\ Goto(w, "save")

Later(row) == [row EXCEPT !.run = "later"]

Hiccup == hiccups < MaxHiccups /\ hiccups' = hiccups + 1

Fault == faults < MaxFaults /\ faults' = faults + 1

(***************************************************************************)
(* ClaimJobsDue: select and mark in one transaction ...                    *)
(***************************************************************************)
Claim(w) ==
    LET batch == DueBatch(jobs, Handles(w))
    IN  /\ Up(w, "idle")
        /\ batch # {}
        /\ jobs' = ClaimJobs(jobs, w, batch)
        /\ todo' = [todo EXCEPT ![w] = batch]
        /\ Goto(w, "fetch")
        /\ UNCHANGED << world, outside, snap, left, hiccups, faults >>

(* ... then GetJobsByIDs, outside it; a row may be gone by then.           *)
Fetch(w) ==
    LET found == { j \in todo[w] : Exists(jobs, j) }
    IN  /\ Up(w, "fetch")
        /\ todo' = [todo EXCEPT ![w] = found]
        /\ snap' = [snap EXCEPT ![w] =
                       [j \in Jobs |-> IF j \in found
                                       THEN [jobs[j] EXCEPT !.claim = NoWorker]
                                       ELSE NoRow]]
        /\ Goto(w, IF found = {} THEN "idle" ELSE "work")
        /\ UNCHANGED << jobs, world, outside, left, hiccups, faults >>

(* The error is returned, the claims stay in the table.                    *)
FetchFails(w) ==
    /\ Up(w, "fetch")
    /\ Fault
    /\ todo' = [todo EXCEPT ![w] = {}]
    /\ Goto(w, "idle")
    /\ UNCHANGED << jobs, world, outside, snap, left, hiccups >>

(* UpdateJob, or UpdateJobState, as the last thing a process... call does. *)
Save(w) ==
    /\ Up(w, "save")
    /\ jobs' = UpdateJob(jobs, Job(w), Copy(w))
    /\ Goto(w, "release")
    /\ UNCHANGED << world, outside, todo, snap, left, hiccups, faults >>

SaveFails(w) ==
    /\ Up(w, "save")
    /\ Fault
    /\ Goto(w, "release")
    /\ UNCHANGED << jobs, world, outside, todo, snap, left, hiccups >>

(* A process... call that returns an error before it has written.          *)
GiveUp(w) == Goto(w, "release") /\ UNCHANGED snap

(* Variant: a run... function that returns after its first job.            *)
StopAtFirst(w) ==
    /\ todo' = [todo EXCEPT ![w] = {}]
    /\ snap' = [snap EXCEPT ![w] = [j \in Jobs |-> NoRow]]
    /\ left' = IF w = "downloader" THEN {} ELSE left
    /\ Goto(w, "idle")

NextJob(w) ==
    LET rest == todo[w] \ {Job(w)}
    IN  /\ todo' = [todo EXCEPT ![w] = rest]
        /\ snap' = [snap EXCEPT ![w][Job(w)] = NoRow]
        /\ left' = IF w = "downloader" THEN {} ELSE left
        /\ Goto(w, IF rest = {} THEN "idle" ELSE "work")

Release(w) ==
    /\ Up(w, "release")
    /\ jobs' = ReleaseJobClaim(jobs, Job(w))
    /\ NextJob(w)
    /\ UNCHANGED << world, outside, hiccups, faults >>

ReleaseFails(w) ==
    /\ Up(w, "release")
    /\ Fault
    /\ NextJob(w)
    /\ UNCHANGED << jobs, world, outside, hiccups >>

LoopStep(w) == Claim(w) \/ Fetch(w) \/ Save(w) \/ Release(w)

LoopFault(w) == FetchFails(w) \/ SaveFails(w) \/ ReleaseFails(w)

(* The clock passes next_run_at.                                           *)
TimePasses(j) ==
    /\ mode = "up"
    /\ jobs[j].run = "later"
    /\ jobs' = [jobs EXCEPT ![j].run = "due"]
    /\ UNCHANGED << world, outside, pc, todo, snap, left, hiccups, faults >>
=============================================================================
