------------------------------ MODULE Pipeline ------------------------------
(***************************************************************************)
(* The whole program: the workers, the request handlers, the pruner, the   *)
(* clock, crashes and restarts, around one jobs table.                     *)
(***************************************************************************)
EXTENDS Submitter, Poller, Downloader, Finalizer, Remover, Api, Startup

Init ==
    /\ jobs = [j \in Jobs |-> NoRow]
    /\ parts = [j \in Jobs |-> NoParts]
    /\ disk = [j \in Jobs |-> NoFiles]
    /\ tasks = [j \in Jobs |-> 0]
    /\ mode = "up"
    /\ pending = {}
    /\ pc = [w \in Workers |-> "idle"]
    /\ todo = [w \in Workers |-> {}]
    /\ snap = [w \in Workers |-> [j \in Jobs |-> NoRow]]
    /\ left = {}
    /\ req = [j \in Jobs |-> "none"]
    /\ dreq = [d \in Deletes |-> "none"]
    /\ djob = [d \in Deletes |-> NoJob]
    /\ drow = [d \in Deletes |-> NoRow]
    /\ crashes = 0 /\ hiccups = 0 /\ faults = 0

ProcessStep(w) ==
    \/ w = "submitter"  /\ SubmitterStep
    \/ w = "poller"     /\ PollerStep
    \/ w = "downloader" /\ DownloaderStep
    \/ w = "finalizer"  /\ FinalizerStep
    \/ w = "remover"    /\ RemoverStep

WorkerStep(w) == LoopStep(w) \/ ProcessStep(w)

WorkerFault ==
    \/ \E w \in Workers : LoopFault(w)
    \/ PollerFault \/ DownloaderFault \/ FinalizerFault \/ RemoverFault

ClientStep ==
    \/ \E j \in Jobs : SavePayload(j) \/ SubmitStep(j) \/ RequestDies(j)
    \/ \E d \in Deletes : DeleteWrite(d) \/ \E j \in Jobs : DeleteRead(d, j)

Next ==
    \/ \E w \in Workers : WorkerStep(w)
    \/ WorkerFault
    \/ ClientStep
    \/ \E j \in Jobs : Prune(j) \/ TimePasses(j)
    \/ Crash \/ StartupStep

Spec == Init /\ [][Next]_vars

(***************************************************************************)
(* Fairness.  Each worker is a goroutine of its own with a ticker, each    *)
(* handler a goroutine, and the clock does not stop; the process is        *)
(* restarted by its supervisor (restart: unless-stopped).  Nothing is      *)
(* assumed of clients, the pruner, crashes and failures.                   *)
(***************************************************************************)
Fairness ==
    /\ \A w \in Workers : WF_vars(WorkerStep(w))
    /\ \A j \in Jobs : WF_vars(TimePasses(j)) /\ WF_vars(SubmitStep(j))
    /\ \A d \in Deletes : WF_vars(DeleteWrite(d))
    /\ WF_vars(StartupStep)

FairSpec == Spec /\ Fairness

(***************************************************************************)
(* Properties.                                                             *)
(***************************************************************************)
(* Every variable holds values of its type: rows, copies and file states   *)
(* stay well formed along every path through the handlers.                 *)
TypeOK ==
    /\ jobs \in [Jobs -> Row]
    /\ parts \in [Jobs -> [Assets -> PartStates]]
    /\ disk \in [Jobs -> Files]
    /\ tasks \in [Jobs -> Nat]
    /\ mode \in {"up", "down", "recovering"}
    /\ pending \in SUBSET Jobs
    /\ pc \in [Workers -> Labels]
    /\ todo \in [Workers -> SUBSET Jobs]
    /\ snap \in [Workers -> [Jobs -> Row]]
    /\ left \in SUBSET Assets
    /\ req \in [Jobs -> ReqStates]
    /\ dreq \in [Deletes -> DeleteStates]
    /\ djob \in [Deletes -> Jobs \cup {NoJob}]
    /\ drow \in [Deletes -> Row]
    /\ crashes \in Nat /\ hiccups \in Nat /\ faults \in Nat

(* j is in w's batch and w may still act on its copy of it.                *)
Holds(w, j) == j \in todo[w] /\ ~ (pc[w] = "release" /\ j = Job(w))

(* Claims keep workers apart (store.go, ClaimJobsDue: "preventing          *)
(* concurrent processing"): no two workers hold copies of the same job.    *)
SingleOwner ==
    \A j \in Jobs : \A v, w \in Workers :
        Holds(v, j) /\ Holds(w, j) => v = w

(* A claim in the table belongs to a worker that has the job in its batch, *)
(* so it will be released; a claim without one would take the job out of   *)
(* every worker's sight until the next restart (ClaimJobsDue skips it).    *)
ClaimsBacked ==
    mode # "down" =>
        \A j \in Jobs : \A w \in Workers :
            jobs[j].claim = w => j \in todo[w]

(* A claim without such a worker hides the job until the next restart.     *)
(* Each failed statement can leave the batch of one worker so, if it is    *)
(* the fetch after the claim (ClaimJobsDue, GetJobsByIDs), and no more     *)
(* than that: nothing else, and no crash, adds to them.                    *)
Stranded ==
    { j \in Jobs : \E w \in Workers : jobs[j].claim = w /\ j \notin todo[w] }

LostBy == { jobs[j].claim : j \in Stranded }

StrandedBound ==
    mode # "down" =>
        /\ Cardinality(Stranded) <= faults * BatchSize
        /\ Cardinality(LostBy) <= faults

(* A completed job's directory is there and holds every part the job has,  *)
(* whole, across crashes, broken and short downloads and repeated checks.  *)
CompletedOnDisk ==
    \A j \in Jobs :
        jobs[j].state = "completed" =>
            /\ disk[j].final
            /\ Registered(j) # {}
            /\ Registered(j) \subseteq disk[j].placed

(* A part the table says is done is never fetched again, so it must be on  *)
(* disk, whole, until its directory is renamed: across crashes, restarts   *)
(* and the clean-up of orphaned directories.                               *)
PartsOnDisk ==
    \A j \in Jobs :
        jobs[j].state \in Handles("downloader") \cup Handles("finalizer")
        /\ ~ disk[j].final
        => \A a \in Assets :
              parts[j][a] = "done" => disk[j].staging /\ disk[j].file[a] = "full"

(* A completed job's directory holds every file of the remote task         *)
(* (README: "verifies all parts are on disk").                             *)
CompletedWhole ==
    \A j \in Jobs :
        jobs[j].state = "completed" => disk[j].placed = Assets

(* It does unless a crash or a failed statement comes between two          *)
(* registrations of its parts (download.go), whatever broken bodies and    *)
(* transient answers there were.                                           *)
WholeUnlessBroken == crashes = 0 /\ faults = 0 => CompletedWhole

(* Nothing of a removed job is left on disk (README: "Remover cleans up    *)
(* local files when the *arr app sends a delete request").                 *)
NoLeftovers ==
    \A j \in Jobs :
        jobs[j].state = "removed" =>
            ~ (disk[j].final \/ disk[j].staging \/ disk[j].payload)

(* A job gets a second remote task only at the price of a crash, of a lost *)
(* or empty answer, or of a failed statement: createtask is not repeated   *)
(* in the ordinary course of events.                                       *)
RemoteTaskBound ==
    \A j \in Jobs : tasks[j] <= 1 + crashes + hiccups + faults

(* Once a delete is recorded no step takes the job back into the pipeline. *)
DeleteStands(j) ==
    /\ jobs[j].state = "remove_pending" =>
          jobs'[j].state \in {"remove_pending", "removed"}
    /\ jobs[j].state = "removed" =>
          jobs'[j].state \in {"removed", "remove_pending", "absent"}

DeleteStepSticks == \A j \in Jobs : DeleteStands(j)

DeleteSticks == [][DeleteStepSticks]_vars

(* The submit handler, or a worker of the pipeline, has j at hand and may  *)
(* still write the row it knows.                                           *)
PipelineWorkers == Workers \ {"remover"}

InOtherHands(j) ==
    req[j] = "queue" \/ \E w \in PipelineWorkers : Holds(w, j)

(* A delete may come at any time (router.go, markRemovePending), also of a *)
(* job that somebody has at hand, who may then undo it with a stale copy.  *)
(* Nobody else does: neither the remover, startup, the pruner nor another  *)
(* delete, and no worker gets at the job once the delete is recorded.      *)
DeleteStepKept == \A j \in Jobs : InOtherHands(j) \/ DeleteStands(j)

DeleteKept == [][DeleteStepKept]_vars

(* Whenever the deletes come, only the remover ever works on a job next to *)
(* another worker: submitter, poller, downloader and finalizer still keep  *)
(* apart (ClaimJobsDue), although a delete clears the claim of the holder. *)
PipelineOwner ==
    \A j \in Jobs : \A v, w \in PipelineWorkers :
        Holds(v, j) /\ Holds(w, j) => v = w

Settled == { "completed", "remote_failed", "failed", "remove_pending",
             "removed", "absent" }

(* Every job queued for submission ends: it completes, fails or is         *)
(* removed, after finitely many transient answers.                         *)
JobSettles ==
    \A j \in Jobs :
        jobs[j].state = "submit_pending" ~> jobs[j].state \in Settled

(* A recorded delete is carried out, across crashes, once nobody has the   *)
(* job at hand who could undo it.                                          *)
RemovalCompletes ==
    \A j \in Jobs :
        (jobs[j].state = "remove_pending" /\ ~ InOtherHands(j)) ~>
            jobs[j].state \in {"removed", "absent"}

(* An accepted job enters the pipeline (README: "accepted ->               *)
(* submit_pending").                                                       *)
AcceptedAdvances ==
    \A j \in Jobs :
        jobs[j].state = "accepted" ~> jobs[j].state # "accepted"

(* A downloaded job is moved to its completed path or fails.               *)
VerifySettles ==
    \A j \in Jobs :
        jobs[j].state = "local_verify" ~> jobs[j].state \in Settled

(* The states the table shows implement JobLifecycle.                      *)
Lifecycle == INSTANCE JobLifecycle WITH st <- [j \in Jobs |-> jobs[j].state]

ImplementsLifecycle == Lifecycle!LifecycleSpec
=============================================================================
