--------------------------- MODULE OwnershipProofs --------------------------
(***************************************************************************)
(* Who may write a row, for any number of jobs and any bounds: claims have *)
(* owners, workers stay apart, deletes stick.  The claim column alone does *)
(* not carry the argument, as every UpdateJob clears it: what keeps two    *)
(* workers apart is that a job somebody holds is in a state that only that *)
(* worker's query selects, and that only the holder moves it on.           *)
(***************************************************************************)
EXTENDS PipelineProofs, FiniteSetTheorems

(***************************************************************************)
(* The invariant behind StrandedBound and ClaimsBacked.                    *)
(***************************************************************************)
(* An idle worker has no batch.                                            *)
IdleEmpty == \A w \in Workers : pc[w] = "idle" => todo[w] = {}

AbsentUnclaimed ==
    \A j \in Jobs : jobs[j].state = "absent" => jobs[j].claim = NoWorker

AtMost(S, n) == IsFiniteSet(S) /\ Cardinality(S) <= n

BatchesSmall == \A w \in Workers : AtMost(todo[w], BatchSize)

StrandedFew ==
    mode # "down" =>
        AtMost(Stranded, faults * BatchSize) /\ AtMost(LostBy, faults)

ClaimInv == IdleEmpty /\ AbsentUnclaimed /\ BatchesSmall /\ StrandedFew

(***************************************************************************)
(* The invariant behind SingleOwner, with deletes of ended jobs only.      *)
(***************************************************************************)
(* The states a job may be in while a delete request has read it.          *)
Late == DeleteWhen \cup {"remove_pending", "removed", "absent"}

Owned ==
    \A w \in Workers : \A j \in Jobs :
        Holds(w, j) => jobs[j].state \in Handles(w)

(* What the writes in mid-flight will write.                               *)
MidPoll ==
    pc["poller"] \in {"promote", "adopt"} => Copy("poller").state = "remote_active"

MidRemove == pc["remover"] = "save" => Copy("remover").state = "removed"

Requests ==
    \A j \in Jobs :
        /\ req[j] \in {"none", "lookup", "insert"} => jobs[j].state = "absent"
        /\ req[j] = "queue" => jobs[j].state = "accepted"

DeleteTargets ==
    \A d \in Deletes :
        dreq[d] = "read" =>
            req[djob[d]] = "done" /\ jobs[djob[d]].state \in Late

(* Nothing is under way while the process is down or starting.             *)
Quiet ==
    mode # "up" =>
        /\ \A w \in Workers : pc[w] = "idle" /\ todo[w] = {}
        /\ \A j \in Jobs : req[j] \in {"none", "done"}
        /\ \A d \in Deletes : dreq[d] # "read"

(* reconcileStartup has only open jobs left to look at.                    *)
Unreconciled ==
    \A j \in pending : mode = "recovering" /\ jobs[j].state \notin ClosedStates

OwnInv ==
    /\ Owned /\ MidPoll /\ MidRemove
    /\ Requests /\ DeleteTargets /\ Quiet /\ Unreconciled

(***************************************************************************)
(* What a step inside a process... function may do, whichever worker takes *)
(* it: it keeps the batch, and touches at most the row of the job at hand, *)
(* which it leaves in one of the worker's own states.                      *)
(***************************************************************************)
Apart(w) ==
    /\ UNCHANGED << mode, pending, todo, req, dreq, djob >>
    /\ \A v \in Workers \ {w} : pc'[v] = pc[v] /\ snap'[v] = snap[v]

OwnRowOnly(w) ==
    \A j \in Jobs :
        \/ jobs'[j] = jobs[j]
        \/ /\ j = Job(w)
           /\ jobs'[j].claim = NoWorker
           /\ IndexAllows(jobs, j, jobs'[j])
           /\ MidPoll => jobs'[j].state \in Handles(w)

Working(w) ==
    /\ mode = "up"
    /\ pc[w] \notin {"idle", "save", "release"}
    /\ pc'[w] # "idle"
    /\ Apart(w)
    /\ OwnRowOnly(w)
    /\ MidPoll => MidPoll'
    /\ MidRemove => MidRemove'

(* No two workers' queries select the same state.                          *)
LEMMA HandlesApart ==
    \A w \in Workers :
        /\ Handles(w) \subseteq
              { "submit_pending", "submit_retry", "remote_queued",
                "remote_active", "local_download_pending",
                "local_downloading", "local_verify", "remove_pending" }
        /\ w # "remover" => "remove_pending" \notin Handles(w)
        /\ \A v \in Workers \ {w} : Handles(v) \cap Handles(w) = {}
<1> SUFFICES ASSUME NEW w \in Workers, NEW v \in Workers \ {w}
             PROVE  /\ Handles(w) \subseteq
                          { "submit_pending", "submit_retry", "remote_queued",
                            "remote_active", "local_download_pending",
                            "local_downloading", "local_verify",
                            "remove_pending" }
                    /\ w # "remover" => "remove_pending" \notin Handles(w)
                    /\ Handles(v) \cap Handles(w) = {}
    BY DEF Workers
<1>1. /\ Handles("submitter") = { "submit_pending", "submit_retry" }
      /\ Handles("poller") = { "remote_queued", "remote_active" }
      /\ Handles("downloader") = { "local_download_pending", "local_downloading" }
      /\ Handles("finalizer") = { "local_verify" }
      /\ Handles("remover") = { "remove_pending" }
    BY DEF Handles
<1> QED
    BY <1>1 DEF Workers

(* Changing one's copy leaves the copies of the other workers alone.       *)
LEMMA CopyFrame ==
    ASSUME TypeInv, NEW w \in Workers, UNCHANGED snap \/ \E row : SetCopy(w, row)
    PROVE  \A v \in Workers \ {w} : snap'[v] = snap[v]
    BY DEF SetCopy, TypeInv, TypeOK

(* Moving on leaves the other workers where they are.                      *)
LEMMA GotoFrame ==
    ASSUME TypeInv, NEW w \in Workers, NEW label, Goto(w, label)
    PROVE  pc'[w] = label /\ \A v \in Workers \ {w} : pc'[v] = pc[v]
    BY DEF Goto, TypeInv, TypeOK

(* A worker that changes its copy and keeps its batch is still at that     *)
(* job.                                                                    *)
LEMMA CopyAfter ==
    ASSUME TypeInv, NEW w \in Workers, pc[w] # "idle", NEW row, SetCopy(w, row),
           UNCHANGED todo
    PROVE  Copy(w)' = row
<1>1. Job(w) \in Jobs
    BY AtJob
<1> QED
    BY <1>1 DEF SetCopy, Copy, Job, TypeInv, TypeOK

(* What the poller and the remover are about to write is theirs alone.     *)
LEMMA MidFrame ==
    ASSUME NEW w \in Workers, Apart(w)
    PROVE  /\ w # "poller" => (MidPoll => MidPoll')
           /\ w # "remover" => (MidRemove => MidRemove')
<1>1. ASSUME NEW v \in Workers \ {w}
      PROVE  pc'[v] = pc[v] /\ Copy(v)' = Copy(v)
    BY DEF Apart, Copy, Job
<1>2. "poller" \in Workers /\ "remover" \in Workers
    BY DEF Workers
<1> QED
    BY <1>1, <1>2 DEF MidPoll, MidRemove

(* What UpdateJob leaves: the other rows, and this one in the state of the *)
(* caller's copy and unclaimed.                                            *)
LEMMA UpdateRow ==
    ASSUME TypeInv, NEW j \in Jobs, NEW row \in Row,
           jobs' = UpdateJob(jobs, j, row)
    PROVE  /\ \A k \in Jobs \ {j} : jobs'[k] = jobs[k]
           /\ \/ jobs' = jobs
              \/ /\ Exists(jobs, j)
                 /\ jobs'[j].claim = NoWorker
                 /\ jobs'[j].state = row.state
                 /\ IndexAllows(jobs, j, jobs'[j])
<1>1. jobs \in [Jobs -> Row]
    BY DEF TypeInv, TypeOK
<1>2. /\ \A k \in Jobs \ {j} : jobs'[k] = jobs[k]
      /\ \/ jobs' = jobs
         \/ /\ Exists(jobs, j)
            /\ jobs'[j] = [row EXCEPT !.claim = NoWorker]
    BY <1>1, UpdateJobType
<1>3. /\ [row EXCEPT !.claim = NoWorker].claim = NoWorker
      /\ [row EXCEPT !.claim = NoWorker].state = row.state
    BY DEF Row
<1>4. jobs' = jobs \/ IndexAllows(jobs, j, row)
    BY DEF UpdateJob, CanUpdate
<1> QED
    BY <1>2, <1>3, <1>4 DEF IndexAllows

(* The same for the job a worker is at.                                    *)
LEMMA UpdateFrame ==
    ASSUME TypeInv, NEW w \in Workers, pc[w] # "idle", NEW row \in Row,
           jobs' = UpdateJob(jobs, Job(w), row)
    PROVE  \A j \in Jobs :
              \/ jobs'[j] = jobs[j]
              \/ /\ j = Job(w)
                 /\ jobs'[j].claim = NoWorker
                 /\ jobs'[j].state = row.state
                 /\ IndexAllows(jobs, j, jobs'[j])
<1>1. Job(w) \in Jobs
    BY AtJob
<1> QED
    BY <1>1, UpdateRow

(* What the submitter does between two steps of its loop: every answer of  *)
(* TorBox only changes its copy.                                           *)
LEMMA SubmitterWorks ==
    ASSUME TypeInv, SubmitterStep
    PROVE  Working("submitter")
<1> DEFINE w == "submitter"
<1>1. w \in Workers /\ Up(w, "work")
    BY DEF SubmitterStep, SubmitActive, SubmitQueued, SubmitRetryable,
           SubmitPermanent, Submitting, Workers
<1>2. PICK row : Answered(row)
    BY DEF SubmitterStep, SubmitActive, SubmitQueued, SubmitRetryable,
           SubmitPermanent
<1>3. SetCopy(w, row) /\ Goto(w, "save") /\ UNCHANGED << jobs, outside, todo >>
    BY <1>2 DEF Answered, WriteBack
<1>4. Apart(w) /\ pc'[w] = "save"
    BY <1>1, <1>3, CopyFrame, GotoFrame DEF Apart, outside
<1> QED
    BY <1>1, <1>3, <1>4, MidFrame DEF Working, OwnRowOnly, Up

(* What the finalizer does between two steps of its loop (Verify,          *)
(* Promote).                                                               *)
LEMMA FinalizerWorks ==
    ASSUME TypeInv, FinalizerStep \/ FinalizerFault
    PROVE  Working("finalizer")
<1> DEFINE w == "finalizer"
<1>1. w \in Workers /\ (Up(w, "work") \/ Up(w, "rename"))
    BY DEF FinalizerStep, FinalizerFault, Verify, VerifyFails, PromoteOk,
           PromoteFails, PromoteFault, Finalizing, Workers
<1>2. /\ UNCHANGED snap \/ \E row : SetCopy(w, row)
      /\ \E label \in {"save", "rename", "release"} : Goto(w, label)
      /\ UNCHANGED << jobs, outside, todo >>
    BY DEF FinalizerStep, FinalizerFault, Verify, VerifyFails, PromoteOk,
           PromoteFails, PromoteFault, PromoteError, WriteBack, GiveUp
<1>3. Apart(w) /\ pc'[w] # "idle"
    BY <1>1, <1>2, CopyFrame, GotoFrame DEF Apart, outside
<1> QED
    BY <1>1, <1>2, <1>3, MidFrame DEF Working, OwnRowOnly, Up

(* What the remover does between two steps of its loop; the copy it ends   *)
(* with is `removed'.                                                      *)
LEMMA RemoverWorks ==
    ASSUME TypeInv, RemoverStep \/ RemoverFault
    PROVE  Working("remover")
<1> DEFINE w == "remover"
<1>1. w \in Workers /\ (Up(w, "work") \/ Up(w, "rmstaging") \/ Up(w, "rmpayload"))
    BY DEF RemoverStep, RemoverFault, RemoveCompletedPath, RemoveStagingPath,
           RemovePayload, RemoveFails, Removing, Workers
<1>2. /\ UNCHANGED snap \/ \E row : SetCopy(w, row)
      /\ \E label \in {"rmstaging", "rmpayload", "save", "release"} : Goto(w, label)
      /\ UNCHANGED << jobs, outside, todo >>
    BY DEF RemoverStep, RemoverFault, RemoveCompletedPath, RemoveStagingPath,
           RemovePayload, RemoveFails, RemoverFrame, WriteBack, GiveUp
<1>3. Apart(w) /\ pc'[w] # "idle"
    BY <1>1, <1>2, CopyFrame, GotoFrame DEF Apart, outside
<1>4. CASE RemovePayload
    <2> DEFINE row == [Copy(w) EXCEPT !.payload = FALSE, !.run = "nil",
                                      !.state = "removed"]
    <2>1. SetCopy(w, row)
        BY <1>4 DEF RemovePayload, WriteBack
    <2>2. row.state = "removed"
        BY <1>1, AtJob DEF Row, Up
    <2> HIDE DEF row
    <2>3. MidRemove'
        BY <1>1, <1>2, <2>1, <2>2, CopyAfter DEF MidRemove, Up
    <2> QED
        BY <1>1, <1>2, <1>3, <2>3, MidFrame DEF Working, OwnRowOnly, Up
<1>5. CASE ~ RemovePayload
    <2>1. \E label \in {"rmstaging", "rmpayload", "release"} : Goto(w, label)
        BY <1>5 DEF RemoverStep, RemoverFault, RemoveCompletedPath,
           RemoveStagingPath, RemoveFails, GiveUp
    <2>2. pc'[w] # "save"
        BY <1>1, <2>1, GotoFrame
    <2> QED
        BY <1>1, <1>2, <1>3, <2>2, MidFrame DEF Working, OwnRowOnly, MidRemove, Up
<1> QED
    BY <1>4, <1>5

(* What the poller does between two steps of its loop.                     *)
LEMMA PollerWorks ==
    ASSUME TypeInv, PollerStep \/ PollerFault
    PROVE  Working("poller")
<1> DEFINE w == "poller"
<1>1. /\ w \in Workers
      /\ mode = "up"
      /\ pc[w] \in {"work", "promote", "adopt", "find", "recover", "apply"}
    BY DEF PollerStep, PollerFault, PollActive, PollQueued, PollMidWrite,
           PollMidWriteRejected, PollMidWriteFails, PollFind, PollRecover,
           PollApplyReady, PollApplyFailed, PollApplyRunning, Polling, Up, Workers
<1>2. Copy(w) \in Row
    BY <1>1, AtJob
<1>3. PollerFrame
    BY DEF PollerStep, PollerFault, PollActive, PollQueued, PollMidWrite,
           PollMidWriteRejected, PollMidWriteFails, PollFind, PollRecover,
           PollApplyReady, PollApplyFailed, PollApplyRunning, PollAgain,
           RemoteFailed, Turn, FoundActive
<1>4. ASSUME UNCHANGED snap \/ (\E row : SetCopy(w, row)),
             NEW label \in Labels \ {"idle"}, Goto(w, label)
      PROVE  Apart(w) /\ pc'[w] = label
    BY <1>1, <1>3, <1>4, CopyFrame, GotoFrame DEF Apart, PollerFrame, outside
<1>5. {"work", "save", "release", "promote", "adopt", "find", "recover", "apply"}
         \subseteq Labels \ {"idle"}
    BY DEF Labels
<1>6. ASSUME Apart(w), pc'[w] # "idle", OwnRowOnly(w), MidPoll => MidPoll'
      PROVE  Working(w)
    BY <1>1, <1>6, MidFrame DEF Working
<1>7. ASSUME UNCHANGED jobs
      PROVE  OwnRowOnly(w)
    BY <1>7 DEF OwnRowOnly
<1>8. CASE PollAgain \/ RemoteFailed \/ PollApplyReady
    <2>1. (\E row : SetCopy(w, row)) /\ Goto(w, "save") /\ UNCHANGED jobs
        BY <1>8 DEF PollAgain, RemoteFailed, PollApplyReady, WriteBack
    <2> QED
        BY <1>4, <1>5, <1>6, <1>7, <2>1 DEF MidPoll
<1>9. CASE Turn("apply") \/ Turn("recover")
    <2>1. UNCHANGED << snap, jobs >> /\ (Goto(w, "apply") \/ Goto(w, "recover"))
        BY <1>9 DEF Turn
    <2> QED
        BY <1>4, <1>5, <1>6, <1>7, <2>1 DEF MidPoll
<1>10. ASSUME NEW label \in {"promote", "apply", "adopt"}, FoundActive(label)
       PROVE  Working(w)
    <2> DEFINE row == [PolledJob EXCEPT !.remote = TRUE, !.state = "remote_active"]
    <2>1. SetCopy(w, row) /\ Goto(w, label) /\ UNCHANGED << jobs, todo >>
        BY <1>10 DEF FoundActive, PollerFrame
    <2>2. row.state = "remote_active"
        BY <1>2 DEF Row, PolledJob
    <2> HIDE DEF row
    <2>3. Copy(w)'.state = "remote_active"
        BY <1>1, <2>1, <2>2, CopyAfter
    <2> QED
        BY <1>4, <1>5, <1>6, <1>7, <2>1, <2>3 DEF MidPoll
<1>11. CASE GiveUp(w) /\ UNCHANGED jobs
    BY <1>4, <1>5, <1>6, <1>7, <1>11 DEF MidPoll, GiveUp
<1>12. ASSUME pc[w] \in {"promote", "adopt"},
              jobs' = UpdateJob(jobs, Job(w), Copy(w))
       PROVE  OwnRowOnly(w)
    <2>1. MidPoll => Copy(w).state \in Handles(w)
        BY <1>12 DEF MidPoll, Handles
    <2> QED
        BY <1>1, <1>2, <1>12, <2>1, UpdateFrame DEF OwnRowOnly
<1>13. CASE PollMidWrite
    <2>1. /\ pc[w] \in {"promote", "adopt"}
          /\ jobs' = UpdateJob(jobs, Job(w), Copy(w))
          /\ Goto(w, "find") \/ Goto(w, "apply")
          /\ UNCHANGED snap
        BY <1>13 DEF PollMidWrite, Polling, Up, PolledJob
    <2> QED
        BY <1>4, <1>5, <1>6, <1>12, <2>1 DEF MidPoll
<1>14. CASE PollMidWriteFails
    <2>1. /\ pc[w] \in {"promote", "adopt"}
          /\ UNCHANGED jobs \/ jobs' = UpdateJob(jobs, Job(w), Copy(w))
          /\ GiveUp(w)
        BY <1>14 DEF PollMidWriteFails, Polling, Up, PolledJob
    <2>2. OwnRowOnly(w)
        BY <1>7, <1>12, <2>1
    <2> QED
        BY <1>4, <1>5, <1>6, <2>1, <2>2 DEF MidPoll, GiveUp
<1> QED
    BY <1>8, <1>9, <1>10, <1>11, <1>13, <1>14
    DEF PollerStep, PollerFault, PollActive, PollQueued, PollMidWriteRejected,
        PollFind, PollRecover, PollApplyFailed, PollApplyRunning

(* What the downloader does between two steps of its loop.                 *)
LEMMA DownloaderWorks ==
    ASSUME TypeInv, DownloaderStep \/ DownloaderFault
    PROVE  Working("downloader")
<1> DEFINE w == "downloader"
<1> USE DEF DownloaderStep, DownloaderFault, Prepare, PrepareFails, LinksError,
       NoAssets, GetDownloadLinks, Register, RegisterDone, RegisterRejected,
       RegisterFails, RequestOk, RequestBeyondEnd, Request404, Request5xx,
       RequestError, Marking, MarkSkipped, Mark, MarkRejected, MarkFails,
       StreamEnd, StreamShort, StreamBroken, Recorded, Commit, CommitShort,
       CommitRejected, CommitFails, Finish, FinishFails, Leave, Abandon,
       MarkError
<1>1. /\ w \in Workers
      /\ mode = "up"
      /\ pc[w] \in {"work", "links", "register", "loop", "mark", "stream",
                    "last", "commit"}
    BY DEF Fetching, Downloading, Up, Workers
<1>2. DownloaderFrame
    OBVIOUS
<1>3. UNCHANGED snap \/ \E row : SetCopy(w, row)
    BY DEF WriteBack, GiveUp
<1>4. \/ UNCHANGED pc
      \/ \E label \in {"links", "register", "loop", "mark", "stream", "last",
                       "commit", "save", "release"} : Goto(w, label)
    BY DEF WriteBack, GiveUp, AfterMark
<1>5. \/ UNCHANGED jobs
      \/ jobs' = UpdateJob(jobs, DlJob, Marked(DlCopy))
    OBVIOUS
<1> HIDE DEF DownloaderStep, DownloaderFault
<1>6. DlCopy \in Row /\ DlJob = Job(w)
    BY <1>1, AtJob DEF DlCopy, DlJob
<1>7. Apart(w) /\ pc'[w] # "idle"
    BY <1>1, <1>2, <1>3, <1>4, CopyFrame, GotoFrame
    DEF Apart, DownloaderFrame, outside
<1>8. OwnRowOnly(w)
    <2>1. Marked(DlCopy) \in Row
        BY <1>6, RowTypes DEF Marked
    <2>2. Marked(DlCopy).state \in Handles(w)
        BY <1>6 DEF Marked, TryAgain, Later, Row, Handles
    <2>3. CASE jobs' = UpdateJob(jobs, Job(w), Marked(DlCopy))
        BY <1>1, <2>1, <2>2, <2>3, UpdateFrame DEF OwnRowOnly
    <2> QED
        BY <1>5, <1>6, <2>3 DEF OwnRowOnly
<1> QED
    BY <1>1, <1>7, <1>8, MidFrame DEF Working

(* The rows the submit handler writes.                                     *)
LEMMA AcceptedRow ==
    ASSUME NEW j \in Jobs
    PROVE  /\ Accepted(j) \in Row
           /\ Accepted(j).state = "accepted"
           /\ [Accepted(j) EXCEPT !.run = "due", !.state = "submit_pending"] \in Row
           /\ [Accepted(j) EXCEPT !.run = "due",
                                  !.state = "submit_pending"].state = "submit_pending"
<1>1. ASSUME NEW p \in BOOLEAN
      PROVE  LET row == [NoRow EXCEPT !.state = "accepted", !.staging = TRUE,
                                      !.payload = p]
             IN  row \in Row /\ row.state = "accepted"
    BY NoRowType DEF Row, JobStates
<1>2. (j \in Uploads) \in BOOLEAN
    OBVIOUS
<1>3. Accepted(j) \in Row /\ Accepted(j).state = "accepted"
    BY <1>1, <1>2, Zenon DEF Accepted
<1>4. ASSUME NEW row \in Row
      PROVE  LET queued == [row EXCEPT !.run = "due", !.state = "submit_pending"]
             IN  queued \in Row /\ queued.state = "submit_pending"
    BY DEF RunAt, JobStates, Row
<1> QED
    BY <1>3, <1>4

(* reconcileStartup writes at most one row, and rows that wait for their   *)
(* removal stay so.                                                        *)
LEMMA ReconcileWrites ==
    ASSUME TypeInv, Reconcile
    PROVE  \E j \in pending :
              /\ pending' = pending \ {j}
              /\ Reconciled(j) \in Row
              /\ jobs' = jobs \/ jobs' = UpdateJob(jobs, j, Reconciled(j))
              /\ jobs[j].state = "remove_pending" =>
                    Reconciled(j).state = "remove_pending"
<1> DEFINE j == First(pending)
<1>1. jobs \in [Jobs -> Row] /\ pending \in SUBSET Jobs
    BY DEF TypeInv, TypeOK
<1>2. j \in pending
    BY <1>1, JobsAssumption, FirstElement DEF Reconcile
<1>3. /\ pending' = pending \ {j}
      /\ jobs' = jobs \/ jobs' = UpdateJob(jobs, j, Reconciled(j))
    BY DEF Reconcile
<1> HIDE DEF j
<1>4. ASSUME NEW row \in Row
       PROVE  /\ [row EXCEPT !.staging = TRUE] \in Row
              /\ [row EXCEPT !.staging = TRUE].state = row.state
              /\ [row EXCEPT !.state = "completed"] \in Row
              /\ [row EXCEPT !.run = "due", !.state = "local_verify"] \in Row
              /\ [row EXCEPT !.run = "due"] \in Row
              /\ [row EXCEPT !.run = "due"].state = row.state
    <2>1. /\ [row EXCEPT !.staging = TRUE].state = row.state
          /\ [row EXCEPT !.run = "due"].state = row.state
        BY DEF Row
    <2> QED
        BY <2>1, RowTypes DEF RunAt, JobStates
<1> DEFINE row == [jobs[j] EXCEPT !.staging = TRUE]
<1>5. row \in Row /\ jobs[j] \in Row /\ row.state = jobs[j].state
    BY <1>1, <1>2, <1>4
<1> HIDE DEF row
<1>6. /\ [row EXCEPT !.state = "completed"] \in Row
      /\ [row EXCEPT !.run = "due", !.state = "local_verify"] \in Row
      /\ [row EXCEPT !.run = "due"] \in Row
      /\ [row EXCEPT !.run = "due"].state = row.state
    BY <1>5, <1>4
<1>7. Reconciled(j) \in Row
    BY <1>5, <1>6 DEF Reconciled, row
<1>8. ASSUME jobs[j].state = "remove_pending"
      PROVE  Reconciled(j).state = "remove_pending"
    <2>1. Reconciled(j) \in {jobs[j], [row EXCEPT !.run = "due"]}
        BY <1>5, <1>8 DEF Reconciled, Staged, row
    <2> QED
        BY <1>5, <1>6, <1>8, <2>1
<1> QED
    BY <1>2, <1>3, <1>7, <1>8

(* A step inside any process... function.                                  *)
LEMMA ProcessWorks ==
    ASSUME TypeInv,
           \/ \E w \in Workers : ProcessStep(w)
           \/ PollerFault \/ DownloaderFault \/ FinalizerFault \/ RemoverFault
    PROVE  \E w \in Workers : Working(w)
<1>1. Working("submitter") \/ Working("poller") \/ Working("downloader")
      \/ Working("finalizer") \/ Working("remover")
    BY SubmitterWorks, PollerWorks, DownloaderWorks, FinalizerWorks, RemoverWorks
    DEF ProcessStep
<1> QED
    BY <1>1 DEF Workers

(* Crashes and failures are counted, one at a time.                        *)
LEMMA MishapsCounted ==
    ASSUME Next
    PROVE  /\ faults' \in { faults, faults + 1 }
           /\ WorkerFault => faults' = faults + 1
           /\ IF Crash THEN crashes' = crashes + 1 ELSE crashes' = crashes
<1>1. WorkerFault => faults' = faults + 1 /\ crashes' = crashes
    BY DEF WorkerFault, LoopFault, FetchFails, SaveFails, ReleaseFails,
           PollerFault, PollMidWriteFails, DownloaderFault, PrepareFails,
           RegisterFails, MarkFails, CommitFails, FinishFails, MarkError,
           Abandon, FinalizerFault, VerifyFails, PromoteFault, PromoteError,
           RemoverFault, RemoveFails, PollerFrame, DownloaderFrame, outside,
           Fault
<1>2. ASSUME NEW w \in Workers, WorkerStep(w)
      PROVE  UNCHANGED << crashes, faults >>
    <2>1. CASE LoopStep(w)
        BY <2>1 DEF LoopStep, Claim, Fetch, Save, Release, outside
    <2>2. CASE SubmitterStep
        BY <2>2 DEF SubmitterStep, SubmitActive, SubmitQueued,
                    SubmitRetryable, SubmitPermanent, Answered, outside
    <2>3. CASE PollerStep
        BY <2>3 DEF PollerStep, PollActive, PollQueued, PollMidWrite,
                    PollMidWriteRejected, PollFind, PollRecover,
                    PollApplyReady, PollApplyFailed, PollApplyRunning,
                    PollAgain, RemoteFailed, Turn, FoundActive, PollerFrame,
                    outside
    <2>4. CASE DownloaderStep
        BY <2>4 DEF DownloaderStep, Prepare, LinksError, NoAssets,
                    GetDownloadLinks, Register, RegisterDone,
                    RegisterRejected, RequestOk, RequestBeyondEnd,
                    Request404, Request5xx, RequestError, MarkSkipped, Mark,
                    MarkRejected, MarkError, StreamEnd, StreamShort,
                    StreamBroken, Commit, CommitShort, Recorded,
                    CommitRejected, Finish, Leave, Abandon, DownloaderFrame,
                    outside
    <2>5. CASE FinalizerStep
        BY <2>5 DEF FinalizerStep, Verify, PromoteOk, PromoteFails,
                    PromoteError, outside
    <2>6. CASE RemoverStep
        BY <2>6 DEF RemoverStep, RemoveCompletedPath, RemoveStagingPath,
                    RemovePayload, RemoverFrame, outside
    <2> QED
        BY <1>2, <2>1, <2>2, <2>3, <2>4, <2>5, <2>6 DEF WorkerStep, ProcessStep
<1>3. ASSUME ClientStep \/ (\E j \in Jobs : Prune(j) \/ TimePasses(j)) \/ StartupStep
      PROVE  crashes' = crashes /\ faults' \in { faults, faults + 1 }
    BY <1>3 DEF ClientStep, SavePayload, SubmitStep, RequestDies,
                FindDuplicate, FindNone, Insert, InsertRejected,
                QueueForSubmit, Submitted, DeleteWrite, DeleteRead,
                DeleteFrame, ApiFrame, Prune, TimePasses, outside,
                StartupStep, Restart, Reconcile, Start, StartupFrame, Fault
<1>4. Crash => crashes' = crashes + 1 /\ faults' = faults /\ mode # "down"
               /\ mode' = "down"
    BY DEF Crash
<1>5. CASE Crash
    <2>1. WorkerFault => mode' = mode
        BY DEF WorkerFault, LoopFault, FetchFails, SaveFails, ReleaseFails,
               PollerFault, PollMidWriteFails, DownloaderFault, PrepareFails,
               RegisterFails, MarkFails, CommitFails, FinishFails, MarkError,
               Abandon, FinalizerFault, VerifyFails, PromoteFault,
               PromoteError, RemoverFault, RemoveFails, PollerFrame,
               DownloaderFrame, outside
    <2> QED
        BY <1>4, <1>5, <2>1
<1> QED
    BY <1>1, <1>2, <1>3, <1>5 DEF Next

(***************************************************************************)
(* Claims.                                                                 *)
(***************************************************************************)
(* A set with an element that another lacks, and all of that other, is     *)
(* the larger one.                                                         *)
LEMMA LargerSet ==
    ASSUME NEW S, NEW T, NEW x \in T, IsFiniteSet(T), S \subseteq T, x \notin S
    PROVE  Cardinality(S) < Cardinality(T)
<1>1. S \in SUBSET T /\ S # T
    OBVIOUS
<1>2. /\ IsFiniteSet(S) /\ Cardinality(S) <= Cardinality(T)
      /\ Cardinality(S) # Cardinality(T)
    BY <1>1, FS_Subset
<1>3. Cardinality(S) \in Nat /\ Cardinality(T) \in Nat
    BY <1>2, FS_CardinalityType
<1> QED
    BY <1>2, <1>3

(* A set with one element more than another at most.                       *)
LEMMA OneMore ==
    ASSUME NEW S, NEW T, NEW x, IsFiniteSet(S), T \subseteq S \cup {x}
    PROVE  AtMost(T, Cardinality(S) + 1)
<1> DEFINE both == S \cup {x}
<1>1. /\ IsFiniteSet(both)
      /\ Cardinality(both) = IF x \in S THEN Cardinality(S) ELSE Cardinality(S) + 1
    BY FS_AddElement
<1>2. T \in SUBSET both
    OBVIOUS
<1> HIDE DEF both
<1>3. IsFiniteSet(T) /\ Cardinality(T) <= Cardinality(both)
    BY <1>1, <1>2, FS_Subset
<1>4. /\ Cardinality(S) \in Nat /\ Cardinality(T) \in Nat
      /\ Cardinality(both) \in Nat
    BY <1>1, <1>3, FS_CardinalityType
<1>5. Cardinality(both) <= Cardinality(S) + 1
    BY <1>1, <1>4
<1>6. Cardinality(T) <= Cardinality(S) + 1
    BY <1>3, <1>4, <1>5
<1> QED
    BY <1>3, <1>6 DEF AtMost

(* LIMIT: as many jobs as can have fewer than BatchSize others before them *)
(* are BatchSize.  The last of them is the one with the most before it.    *)
LEMMA BatchBound ==
    ASSUME NEW due \in SUBSET Nat
    PROVE  AtMost({ j \in due : Cardinality({ k \in due : k < j }) < BatchSize },
                  BatchSize)
<1> DEFINE before == [j \in due |-> { k \in due : k < j }]
           count == [j \in due |-> Cardinality(before[j])]
           B == { j \in due : count[j] < BatchSize }
<1>1. BatchSize \in Nat \ {0} /\ \A j \in due : j \in Nat
    BY JobsAssumption
<1>2. ASSUME NEW j \in due
      PROVE  /\ \A k \in due : k \in before[j] <=> k < j
             /\ before[j] \subseteq due
             /\ IsFiniteSet(before[j])
             /\ count[j] = Cardinality(before[j])
             /\ count[j] \in Nat
    <2>1. before[j] = { k \in due : k < j } /\ count[j] = Cardinality(before[j])
        OBVIOUS
    <2> HIDE DEF before, count
    <2>2. before[j] \in SUBSET Nat /\ j \in Nat /\ \A k \in before[j] : k <= j
        <3>1. j \in Nat /\ \A k \in before[j] : k \in Nat /\ k < j
            BY <1>1, <2>1
        <3>2. \A k \in before[j] : k <= j
            BY <3>1
        <3> QED
            BY <3>1, <3>2
    <2>3. IsFiniteSet(before[j])
        <3> DEFINE S == before[j]
        <3>1. S \in SUBSET Nat /\ \A k \in S : k <= j
            BY <2>2
        <3> HIDE DEF S
        <3>2. IsFiniteSet(S)
            BY <2>2, <3>1, FS_BoundedSetOfNaturals
        <3> QED
            BY <3>2 DEF S
    <2> QED
        BY <2>1, <2>3, FS_CardinalityType
<1>3. B = { j \in due : Cardinality({ k \in due : k < j }) < BatchSize }
    OBVIOUS
<1>4. B \subseteq due /\ \A j \in B : count[j] < BatchSize
    OBVIOUS
<1> HIDE DEF before, count, B
<1>5. ASSUME NEW j \in due, NEW k \in due, k > j
      PROVE  count[j] < count[k]
    <2>1. j \in Nat /\ k \in Nat
        BY <1>1
    <2>2. \A m \in before[j] : m \in before[k]
        <3> SUFFICES ASSUME NEW m \in before[j]
                     PROVE  m \in before[k]
            OBVIOUS
        <3>1. m \in due /\ m \in Nat /\ m < j
            BY <1>1, <1>2
        <3>2. m < k
            BY <1>5, <2>1, <3>1
        <3> QED
            BY <1>2, <3>1, <3>2
    <2>3. j < k /\ ~ (j < j)
        BY <1>5, <2>1
    <2>4. j \in before[k] /\ j \notin before[j]
        BY <1>2, <2>3
    <2> QED
        BY <1>2, <2>2, <2>4, LargerSet
<1>6. CASE B = {}
    <2>1. Cardinality(B) = 0 /\ IsFiniteSet(B)
        BY <1>6, FS_EmptySet
    <2> QED
        BY <1>1, <1>3, <2>1 DEF AtMost
<1>7. CASE B # {}
    <2> DEFINE rooms == { BatchSize - count[j] : j \in B }
    <2>1. \A j \in B : BatchSize - count[j] \in Nat
        BY <1>1, <1>2, <1>4
    <2>2. rooms \in SUBSET Nat /\ rooms # {}
        BY <1>7, <2>1
    <2>3. \E r \in rooms : \A n \in rooms : r <= n
        <3> HIDE DEF rooms
        <3> QED
            BY <2>2, FirstElement
    <2>4. PICK j \in B : \A k \in B : BatchSize - count[j] <= BatchSize - count[k]
        BY <2>3
    <2>5. j \in due /\ count[j] < BatchSize /\ count[j] \in Nat
        BY <1>2, <1>4
    <2>6. ASSUME NEW k \in B
          PROVE  k \in before[j] \cup {j}
        <3>1. k \in due /\ count[k] \in Nat /\ count[k] <= count[j]
            BY <1>1, <1>2, <1>4, <2>4, <2>5
        <3>2. ~ (k > j)
            BY <1>5, <2>5, <3>1
        <3> QED
            BY <1>2, <2>5, <3>1, <3>2
    <2>7. AtMost(B, count[j] + 1)
        BY <1>2, <2>5, <2>6, OneMore
    <2>8. IsFiniteSet(B) /\ Cardinality(B) <= count[j] + 1 /\ Cardinality(B) \in Nat
        BY <2>7, FS_CardinalityType DEF AtMost
    <2>9. Cardinality(B) <= BatchSize
        BY <1>1, <2>5, <2>8
    <2> QED
        BY <1>3, <2>8, <2>9 DEF AtMost
<1> QED
    BY <1>6, <1>7

(* A subset of a small set is small.                                       *)
LEMMA FewerAtMost ==
    ASSUME NEW S, NEW T, T \subseteq S, NEW n \in Nat, AtMost(S, n),
           NEW m \in Nat, n <= m
    PROVE  AtMost(T, m)
<1>1. IsFiniteSet(T) /\ Cardinality(T) <= Cardinality(S)
    BY FS_Subset DEF AtMost
<1>2. Cardinality(T) \in Nat /\ Cardinality(S) \in Nat
    BY <1>1, FS_CardinalityType DEF AtMost
<1> QED
    BY <1>1, <1>2 DEF AtMost

LEMMA BothAtMost ==
    ASSUME NEW S, NEW T, NEW n \in Nat, NEW m \in Nat, AtMost(S, n), AtMost(T, m)
    PROVE  AtMost(S \cup T, n + m)
<1>1. /\ IsFiniteSet(S \cup T)
      /\ Cardinality(S \cup T) =
            Cardinality(S) + Cardinality(T) - Cardinality(S \cap T)
    BY FS_Union DEF AtMost
<1>2. IsFiniteSet(S \cap T)
    BY FS_Subset DEF AtMost
<1>3. /\ Cardinality(S) \in Nat /\ Cardinality(T) \in Nat
      /\ Cardinality(S \cap T) \in Nat
    BY <1>2, FS_CardinalityType DEF AtMost
<1> QED
    BY <1>1, <1>3 DEF AtMost

(* Steps that strand no job.                                               *)
LEMMA NoneStranded ==
    ASSUME TypeInv, StrandedFew,
           \A j \in Stranded' : j \in Stranded /\ jobs'[j].claim = jobs[j].claim,
           mode' # "down" => mode # "down", faults' \in { faults, faults + 1 }
    PROVE  StrandedFew'
<1>1. faults \in Nat /\ BatchSize \in Nat
    BY JobsAssumption DEF TypeInv, TypeOK
<1>2. /\ faults * BatchSize \in Nat
      /\ (faults + 1) * BatchSize = faults * BatchSize + BatchSize
      /\ (faults + 1) * BatchSize \in Nat
    BY <1>1
<1>3. faults' * BatchSize \in Nat /\ faults * BatchSize <= faults' * BatchSize
    <2>1. CASE faults' = faults
        BY <1>2, <2>1
    <2>2. CASE faults' = faults + 1
        <3>1. faults * BatchSize <= (faults + 1) * BatchSize
            BY <1>1, <1>2
        <3> QED
            BY <1>2, <2>2, <3>1
    <2> QED
        BY <2>1, <2>2
<1>4. Stranded' \subseteq Stranded /\ LostBy' \subseteq LostBy
    BY DEF LostBy
<1>5. faults' \in Nat /\ faults <= faults'
    BY <1>1
<1> QED
    BY <1>1, <1>2, <1>3, <1>4, <1>5, FewerAtMost DEF StrandedFew

(* A failure that strands a worker's batch, or part of it.                 *)
LEMMA SomeStranded ==
    ASSUME TypeInv, StrandedFew, mode # "down", faults' = faults + 1,
           NEW w \in Workers, NEW S, AtMost(S, BatchSize),
           \A j \in Stranded' :
               \/ j \in Stranded /\ jobs'[j].claim = jobs[j].claim
               \/ j \in S /\ jobs'[j].claim = w
    PROVE  StrandedFew'
<1>1. faults \in Nat /\ BatchSize \in Nat
    BY JobsAssumption DEF TypeInv, TypeOK
<1>2. /\ faults * BatchSize \in Nat
      /\ (faults + 1) * BatchSize = faults * BatchSize + BatchSize
    BY <1>1
<1>3. AtMost(Stranded, faults * BatchSize) /\ AtMost(LostBy, faults)
    BY DEF StrandedFew
<1>4. AtMost(Stranded \cup S, faults * BatchSize + BatchSize)
    BY <1>1, <1>2, <1>3, BothAtMost
<1>5. AtMost(Stranded', faults * BatchSize + BatchSize)
    <2>1. Stranded' \subseteq Stranded \cup S
        OBVIOUS
    <2> QED
        BY <1>1, <1>2, <1>4, <2>1, FewerAtMost
<1>6. AtMost(LostBy', faults + 1)
    <2>1. LostBy' \subseteq LostBy \cup {w}
        BY DEF LostBy
    <2>2. AtMost(LostBy', Cardinality(LostBy) + 1)
        BY <1>3, <2>1, OneMore DEF AtMost
    <2>3. Cardinality(LostBy) \in Nat /\ Cardinality(LostBy) <= faults
        BY <1>3, FS_CardinalityType DEF AtMost
    <2> QED
        BY <1>1, <2>2, <2>3, FewerAtMost
<1> QED
    BY <1>2, <1>5, <1>6 DEF StrandedFew

(* A table write that claims nothing for anybody.                          *)
ClaimsNothing ==
    \A j \in Jobs :
        \/ jobs'[j].claim = NoWorker
        \/ /\ jobs'[j].claim = jobs[j].claim
           /\ jobs'[j].state = "absent" => jobs[j].state = "absent"

(* Steps that claim nothing and drop no batch keep the claim invariant.    *)
LEMMA ClaimFrame ==
    ASSUME TypeInv, ClaimInv, ClaimsNothing, UNCHANGED todo,
           mode' # "down" => mode # "down",
           \A w \in Workers : pc'[w] = "idle" => pc[w] = "idle",
           faults' \in { faults, faults + 1 }
    PROVE  ClaimInv'
<1>1. NoWorker \notin Workers
    BY DEF NoWorker, Workers
<1>2. \A j \in Stranded' : j \in Stranded /\ jobs'[j].claim = jobs[j].claim
    BY <1>1 DEF ClaimsNothing, Stranded
<1>3. StrandedFew'
    BY <1>2, NoneStranded DEF ClaimInv
<1>4. IdleEmpty' /\ BatchesSmall'
    BY DEF ClaimInv, IdleEmpty, BatchesSmall
<1>5. AbsentUnclaimed'
    BY DEF ClaimInv, AbsentUnclaimed, ClaimsNothing
<1> QED
    BY <1>3, <1>4, <1>5 DEF ClaimInv

(* A whole-row write clears the claim of the row it writes.                *)
LEMMA UpdateClaimsNothing ==
    ASSUME TypeInv, NEW j \in Jobs, NEW row \in Row,
           jobs' = UpdateJob(jobs, j, row)
    PROVE  ClaimsNothing
    BY UpdateRow DEF ClaimsNothing

(* The workers' loop, failures included.                                   *)
LEMMA ClaimLoop ==
    ASSUME TypeInv, ClaimInv, NEW w \in Workers, LoopStep(w) \/ LoopFault(w)
    PROVE  ClaimInv'
<1>1. /\ jobs \in [Jobs -> Row] /\ todo \in [Workers -> SUBSET Jobs]
      /\ pc \in [Workers -> Labels]
    BY DEF TypeInv, TypeOK
<1>2. /\ mode = "up" /\ mode' = mode /\ NoWorker \notin Workers
      /\ AtMost(todo[w], BatchSize) /\ BatchSize \in Nat \ {0}
    BY JobsAssumption
    DEF LoopStep, LoopFault, Claim, Fetch, FetchFails, Save, SaveFails, Release,
        ReleaseFails, Up, outside, NoWorker, Workers, ClaimInv, BatchesSmall
<1>3. ASSUME NEW rest, rest \subseteq todo[w], todo' = [todo EXCEPT ![w] = rest]
      PROVE  /\ BatchesSmall' /\ todo'[w] = rest
             /\ \A v \in Workers \ {w} : todo'[v] = todo[v]
    <2>1. todo'[w] = rest /\ \A v \in Workers \ {w} : todo'[v] = todo[v]
        BY <1>1, <1>3
    <2>2. AtMost(rest, BatchSize)
        BY <1>2, <1>3, FewerAtMost
    <2> QED
        BY <2>1, <2>2 DEF BatchesSmall, ClaimInv
<1>4. CASE Claim(w)
    <2> DEFINE batch == DueBatch(jobs, Handles(w))
    <2>1. /\ pc[w] = "idle" /\ todo[w] = {}
          /\ jobs' = ClaimJobs(jobs, w, batch)
          /\ todo' = [todo EXCEPT ![w] = batch]
          /\ pc' = [pc EXCEPT ![w] = "fetch"]
          /\ faults' = faults
        BY <1>4 DEF Claim, Up, Goto, ClaimInv, IdleEmpty
    <2>2. \A j \in batch : j \in Jobs /\ jobs[j].state # "absent"
        BY HandlesApart DEF DueBatch, DueJobs
    <2>3. AtMost(batch, BatchSize)
        <3> DEFINE due == DueJobs(jobs, Handles(w))
        <3>1. due \in SUBSET Nat
            BY JobsAssumption DEF DueJobs
        <3>2. batch = { j \in due : Cardinality({ k \in due : k < j }) < BatchSize }
            BY DEF DueBatch
        <3> HIDE DEF due, batch
        <3>3. AtMost({ j \in due : Cardinality({ k \in due : k < j }) < BatchSize },
                     BatchSize)
            BY <3>1, BatchBound
        <3> QED
            BY <3>2, <3>3
    <2> HIDE DEF batch
    <2>4. ASSUME NEW j \in Jobs
          PROVE  \/ j \in batch /\ jobs'[j].claim = w /\ jobs'[j].state # "absent"
                 \/ j \notin batch /\ jobs'[j] = jobs[j]
        <3>1. jobs[j] \in Row
            BY <1>1
        <3>2. jobs'[j] = IF j \in batch THEN [jobs[j] EXCEPT !.claim = w] ELSE jobs[j]
            BY <2>1 DEF ClaimJobs
        <3> QED
            BY <2>2, <3>1, <3>2 DEF Row
    <2>5. /\ \A v \in Workers \ {w} : todo'[v] = todo[v] /\ pc'[v] = pc[v]
          /\ todo'[w] = batch /\ pc'[w] = "fetch"
        BY <1>1, <2>1
    <2>6. \A j \in Stranded' : j \in Stranded /\ jobs'[j].claim = jobs[j].claim
        <3> SUFFICES ASSUME NEW j \in Jobs, NEW v \in Workers, jobs'[j].claim = v,
                            j \notin todo'[v]
                     PROVE  jobs[j].claim = v /\ j \notin todo[v]
            BY DEF Stranded
        <3> QED
            BY <2>1, <2>4, <2>5
    <2>7. StrandedFew'
        BY <1>2, <2>1, <2>6, NoneStranded DEF ClaimInv
    <2>8. IdleEmpty' /\ BatchesSmall'
        BY <2>3, <2>5 DEF ClaimInv, IdleEmpty, BatchesSmall
    <2>9. AbsentUnclaimed'
        BY <2>4 DEF ClaimInv, AbsentUnclaimed
    <2> QED
        BY <2>7, <2>8, <2>9 DEF ClaimInv
<1>5. CASE Fetch(w)
    <2> DEFINE found == { j \in todo[w] : Exists(jobs, j) }
    <2>1. /\ jobs' = jobs /\ faults' = faults
          /\ todo' = [todo EXCEPT ![w] = found]
          /\ pc' = [pc EXCEPT ![w] = IF found = {} THEN "idle" ELSE "work"]
        BY <1>5 DEF Fetch, Goto
    <2>2. /\ found \subseteq todo[w]
          /\ \A j \in todo[w] : j \notin found => jobs[j].claim = NoWorker
        BY <1>1 DEF Exists, ClaimInv, AbsentUnclaimed
    <2> HIDE DEF found
    <2>3. /\ BatchesSmall' /\ todo'[w] = found
          /\ \A v \in Workers \ {w} : todo'[v] = todo[v]
        BY <1>3, <2>1, <2>2
    <2>4. \A j \in Stranded' : j \in Stranded /\ jobs'[j].claim = jobs[j].claim
        <3> SUFFICES ASSUME NEW j \in Jobs, NEW v \in Workers, jobs[j].claim = v,
                            j \notin todo'[v]
                     PROVE  j \notin todo[v]
            BY <2>1 DEF Stranded
        <3> QED
            BY <1>2, <2>2, <2>3
    <2>5. StrandedFew'
        BY <1>2, <2>1, <2>4, NoneStranded DEF ClaimInv
    <2>6. IdleEmpty'
        BY <1>1, <2>1, <2>3 DEF ClaimInv, IdleEmpty
    <2> QED
        BY <2>1, <2>3, <2>5, <2>6 DEF ClaimInv, AbsentUnclaimed
<1>6. CASE FetchFails(w)
    <2>1. /\ UNCHANGED jobs /\ faults' = faults + 1 /\ Goto(w, "idle")
          /\ todo' = [todo EXCEPT ![w] = {}]
        BY <1>6 DEF FetchFails, Fault
    <2>2. /\ BatchesSmall' /\ todo'[w] = {}
          /\ \A v \in Workers \ {w} : todo'[v] = todo[v]
        <3> DEFINE none == {}
        <3>1. none \subseteq todo[w] /\ todo' = [todo EXCEPT ![w] = none]
            BY <2>1
        <3> HIDE DEF none
        <3>2. /\ BatchesSmall' /\ todo'[w] = none
              /\ \A v \in Workers \ {w} : todo'[v] = todo[v]
            BY <1>3, <3>1
        <3> QED
            BY <3>2 DEF none
    <2>3. \A j \in Stranded' :
              \/ j \in Stranded /\ jobs'[j].claim = jobs[j].claim
              \/ j \in todo[w] /\ jobs'[j].claim = w
        BY <2>1, <2>2 DEF Stranded
    <2>4. StrandedFew'
        BY <1>2, <2>1, <2>3, SomeStranded DEF ClaimInv
    <2>5. IdleEmpty'
        BY <2>1, <2>2, GotoFrame DEF ClaimInv, IdleEmpty
    <2> QED
        BY <2>1, <2>2, <2>4, <2>5 DEF ClaimInv, AbsentUnclaimed
<1>7. CASE Save(w) \/ SaveFails(w)
    <2>1. /\ pc[w] = "save" /\ UNCHANGED todo /\ Goto(w, "release")
          /\ jobs' = jobs \/ jobs' = UpdateJob(jobs, Job(w), Copy(w))
          /\ faults' \in { faults, faults + 1 }
        BY <1>7 DEF Save, SaveFails, Up, outside, Fault
    <2>2. jobs' = jobs => ClaimsNothing
        BY DEF ClaimsNothing
    <2>3. ClaimsNothing
        BY <2>1, <2>2, AtJob, UpdateClaimsNothing
    <2> QED
        BY <1>2, <2>1, <2>3, ClaimFrame, GotoFrame
<1>8. CASE Release(w) \/ ReleaseFails(w)
    <2> DEFINE job == Job(w)
               rest == todo[w] \ {job}
    <2>1. /\ pc[w] # "idle"
          /\ \/ jobs' = [jobs EXCEPT ![job].claim = NoWorker] /\ faults' = faults
             \/ jobs' = jobs /\ faults' = faults + 1
          /\ todo' = [todo EXCEPT ![w] = rest]
          /\ pc' = [pc EXCEPT ![w] = IF rest = {} THEN "idle" ELSE "work"]
        BY <1>8 DEF Release, ReleaseFails, NextJob, Up, Goto, ReleaseJobClaim, Fault
    <2>2. job \in Jobs /\ job \in todo[w]
        BY <2>1, AtJob
    <2> HIDE DEF job
    <2>3. \A j \in Jobs : \/ jobs'[j] = jobs[j]
                          \/ /\ j = job /\ jobs'[j].claim = NoWorker
                             /\ jobs'[j].state = jobs[j].state
        BY <1>1, <2>1, <2>2 DEF Row
    <2>4. /\ BatchesSmall' /\ todo'[w] = rest
          /\ \A v \in Workers \ {w} : todo'[v] = todo[v]
        BY <1>3, <2>1
    <2>5. IdleEmpty'
        BY <1>1, <2>1, <2>4 DEF ClaimInv, IdleEmpty
    <2>6. AbsentUnclaimed'
        BY <2>3 DEF ClaimInv, AbsentUnclaimed
    <2>7. StrandedFew'
        <3>1. \A j \in Stranded' :
                  \/ j \in Stranded /\ jobs'[j].claim = jobs[j].claim
                  \/ j = job /\ jobs'[j].claim = w
            BY <2>2, <2>3, <2>4 DEF Stranded, NoWorker, Workers
        <3>2. CASE jobs' = jobs /\ faults' = faults + 1
            <4>1. AtMost({job}, BatchSize)
                BY <1>2, <2>2, FewerAtMost
            <4> QED
                BY <1>2, <3>1, <3>2, <4>1, SomeStranded DEF ClaimInv
        <3>3. CASE /\ jobs' = [jobs EXCEPT ![job].claim = NoWorker]
                   /\ faults' = faults
            <4>1. job \notin Stranded'
                BY <1>1, <1>2, <2>2, <3>3 DEF Stranded, Row
            <4> QED
                BY <1>2, <3>1, <3>3, <4>1, NoneStranded DEF ClaimInv
        <3> QED
            BY <2>1, <3>2, <3>3
    <2> QED
        BY <2>4, <2>5, <2>6, <2>7 DEF ClaimInv
<1> QED
    BY <1>4, <1>5, <1>6, <1>7, <1>8 DEF LoopStep, LoopFault

(* Clients, the pruner and the clock claim nothing.                        *)
LEMMA ClaimClients ==
    ASSUME TypeInv, ClaimInv,
           ClientStep \/ \E j \in Jobs : Prune(j) \/ TimePasses(j)
    PROVE  ClaimInv'
<1>1. jobs \in [Jobs -> Row]
    BY DEF TypeInv, TypeOK
<1>2. UNCHANGED << mode, pc, todo >>
    BY DEF ClientStep, SavePayload, SubmitStep, RequestDies, FindDuplicate,
           FindNone, Insert, InsertRejected, QueueForSubmit, Submitted,
           DeleteWrite, DeleteRead, DeleteFrame, ApiFrame, Prune, TimePasses,
           outside
<1>10. faults' \in { faults, faults + 1 }
    BY MishapsCounted DEF Next
<1>3. ASSUME UNCHANGED jobs
      PROVE  ClaimsNothing
    BY <1>3 DEF ClaimsNothing
<1>4. ASSUME NEW j \in Jobs, Insert(j)
      PROVE  ClaimsNothing
    <2>1. Accepted(j).claim = NoWorker
        BY DEF Accepted, NoRow
    <2>2. jobs' = [jobs EXCEPT ![j] = Accepted(j)]
        BY <1>4 DEF Insert, CreateJob
    <2> QED
        BY <1>1, <2>1, <2>2 DEF ClaimsNothing
<1>5. ASSUME NEW j \in Jobs, QueueForSubmit(j)
      PROVE  ClaimsNothing
    <2> DEFINE row == [Accepted(j) EXCEPT !.run = "due", !.state = "submit_pending"]
    <2>1. row \in Row
        BY AcceptedRow
    <2>2. jobs' = UpdateJob(jobs, j, row)
        BY <1>5 DEF QueueForSubmit
    <2> HIDE DEF row
    <2> QED
        BY <2>1, <2>2, UpdateClaimsNothing
<1>6. ASSUME NEW d \in Deletes, DeleteWrite(d)
      PROVE  ClaimsNothing
    <2>1. djob[d] \in Jobs /\ drow[d] \in Row
        BY <1>6 DEF DeleteWrite, TypeInv, TypeOK, DeleteAtHand
    <2> QED
        BY <1>6, <2>1, RowTypes, UpdateClaimsNothing DEF DeleteWrite
<1>7. ASSUME NEW j \in Jobs, Prune(j)
      PROVE  ClaimsNothing
    BY <1>1, <1>7 DEF Prune, DeleteRow, NoRow, ClaimsNothing
<1>8. ASSUME NEW j \in Jobs, TimePasses(j)
      PROVE  ClaimsNothing
    BY <1>1, <1>8 DEF TimePasses, ClaimsNothing, Row
<1>9. ClaimsNothing
    BY <1>3, <1>4, <1>5, <1>6, <1>7, <1>8
    DEF ClientStep, SavePayload, SubmitStep, RequestDies, FindDuplicate,
        FindNone, InsertRejected, DeleteRead
<1> QED
    BY <1>2, <1>9, <1>10, ClaimFrame

(* A crash ends the batches and a restart the claims.                      *)
LEMMA ClaimStartup ==
    ASSUME TypeInv, ClaimInv, Crash \/ StartupStep
    PROVE  ClaimInv'
<1>1. /\ jobs \in [Jobs -> Row] /\ pending \in SUBSET Jobs
      /\ faults \in Nat /\ BatchSize \in Nat
    BY JobsAssumption DEF TypeInv, TypeOK
<1>2. CASE Crash
    <2>1. \A w \in Workers : AtMost({}, BatchSize)
        BY <1>1, FS_EmptySet DEF AtMost
    <2> QED
        BY <1>2, <2>1
        DEF Crash, ClaimInv, StrandedFew, BatchesSmall, IdleEmpty, AbsentUnclaimed
<1>3. CASE Restart
    <2>1. \A j \in Jobs : jobs'[j].claim = NoWorker
        BY <1>1, <1>3 DEF Restart, ReleaseAllClaims, Row
    <2>2. Stranded' = {} /\ LostBy' = {}
        BY <2>1 DEF Stranded, LostBy, NoWorker, Workers
    <2>3. faults * BatchSize \in Nat
        BY <1>1
    <2>4. AtMost({}, faults * BatchSize) /\ AtMost({}, faults)
        BY <1>1, <2>3, FS_EmptySet DEF AtMost
    <2> QED
        BY <1>3, <2>1, <2>2, <2>4
        DEF Restart, StartupFrame, ClaimInv, StrandedFew, BatchesSmall,
            IdleEmpty, AbsentUnclaimed
<1>4. faults' \in { faults, faults + 1 }
    BY MishapsCounted DEF Next
<1>5. CASE Reconcile
    <2>1. UNCHANGED << mode, pc, todo >>
        BY <1>5 DEF Reconcile, StartupFrame
    <2>2. ClaimsNothing
        <3>1. CASE UNCHANGED jobs
            BY <3>1 DEF ClaimsNothing
        <3>2. pending \subseteq Jobs
            BY <1>1
        <3> QED
            BY <1>5, <3>1, <3>2, ReconcileWrites, UpdateClaimsNothing
    <2> QED
        BY <1>4, <2>1, <2>2, ClaimFrame
<1>6. CASE Start
    <2>1. ClaimsNothing
        BY <1>6 DEF Start, ClaimsNothing
    <2> QED
        BY <1>4, <1>6, <2>1, ClaimFrame DEF Start, StartupFrame
<1> QED
    BY <1>2, <1>3, <1>5, <1>6 DEF StartupStep

(* Every step keeps the claim invariant.                                   *)
LEMMA ClaimStep ==
    ASSUME TypeInv, ClaimInv, [Next]_vars
    PROVE  ClaimInv'
<1>1. CASE \E w \in Workers : LoopStep(w) \/ LoopFault(w)
    BY <1>1, ClaimLoop
<1>2. CASE /\ \E w \in Workers : Working(w)
           /\ Next
    <2>1. PICK w \in Workers : Working(w)
        BY <1>2
    <2>2. ClaimsNothing
        BY <2>1 DEF Working, OwnRowOnly, ClaimsNothing
    <2> QED
        BY <1>2, <2>1, <2>2, ClaimFrame, MishapsCounted DEF Working, Apart
<1>3. CASE ClientStep \/ \E j \in Jobs : Prune(j) \/ TimePasses(j)
    BY <1>3, ClaimClients
<1>4. CASE Crash \/ StartupStep
    BY <1>4, ClaimStartup
<1>5. CASE UNCHANGED vars
    BY <1>5 DEF vars, ClaimInv, StrandedFew, Stranded, LostBy, BatchesSmall,
                IdleEmpty, AbsentUnclaimed
<1> QED
    BY <1>1, <1>2, <1>3, <1>4, <1>5, ProcessWorks
    DEF Next, WorkerStep, WorkerFault

LEMMA ClaimInvHolds == Spec => []ClaimInv
<1>1. Init => ClaimInv
    <2> SUFFICES ASSUME Init
                 PROVE  ClaimInv
        OBVIOUS
    <2>1. BatchSize \in Nat /\ faults = 0 /\ 0 * BatchSize = 0
        BY JobsAssumption DEF Init
    <2>2. AtMost({}, BatchSize) /\ AtMost({}, 0)
        BY <2>1, FS_EmptySet DEF AtMost
    <2>3. Stranded = {} /\ LostBy = {}
        BY DEF Init, Stranded, LostBy, NoRow, NoWorker, Workers
    <2> QED
        BY <2>1, <2>2, <2>3
        DEF Init, ClaimInv, StrandedFew, BatchesSmall, IdleEmpty,
            AbsentUnclaimed, NoRow
<1>2. TypeInv /\ ClaimInv /\ [Next]_vars => ClaimInv'
    BY ClaimStep
<1> QED
    BY <1>1, <1>2, TypeInvHolds, PTL DEF Spec

(* Jobs that are claimed by nobody, and so are lost to the queries of      *)
(* ClaimJobsDue until the next restart, are one batch of one worker at     *)
(* most for each statement that has failed, over any interleaving, crash and restart     *)
(* (GetJobsByIDs after the claim, releaseJobClaim).                        *)
THEOREM FewStranded == Spec => []StrandedBound
<1>1. ClaimInv => StrandedBound
    BY DEF ClaimInv, StrandedFew, AtMost, StrandedBound
<1> QED
    BY <1>1, ClaimInvHolds, PTL

(* Until a statement fails there is none: every claim in the table belongs *)
(* to a worker that still has the job in its batch.                        *)
THEOREM ClaimsHaveOwners == Spec => [](faults = 0 => ClaimsBacked)
<1>1. ClaimInv /\ faults = 0 => ClaimsBacked
    <2> SUFFICES ASSUME ClaimInv, faults = 0, mode # "down"
                 PROVE  \A j \in Jobs : \A w \in Workers :
                            jobs[j].claim = w => j \in todo[w]
        BY DEF ClaimsBacked
    <2>1. 0 * BatchSize = 0
        BY JobsAssumption
    <2>2. IsFiniteSet(Stranded) /\ Cardinality(Stranded) <= 0
        BY <2>1 DEF ClaimInv, StrandedFew, AtMost
    <2>3. Cardinality(Stranded) \in Nat
        BY <2>2, FS_CardinalityType
    <2>4. Stranded = {}
        BY <2>2, <2>3, FS_EmptySet
    <2> QED
        BY <2>4 DEF Stranded
<1> QED
    BY <1>1, ClaimInvHolds, PTL

(***************************************************************************)
(* What any step of a worker does, whatever clients delete.                *)
(***************************************************************************)
(* It moves the rows it holds, the remover to `removed' only, and takes up *)
(* only jobs in its own states.                                            *)
HoldStep(w) ==
    /\ mode = "up"
    /\ UNCHANGED << mode, pending, req, dreq, djob >>
    /\ \A v \in Workers \ {w} :
          todo'[v] = todo[v] /\ pc'[v] = pc[v] /\ snap'[v] = snap[v]
    /\ \A j \in Jobs :
          Holds(w, j)' =>
             \/ Holds(w, j)
             \/ jobs[j].state \in Handles(w) /\ jobs'[j].state = jobs[j].state
    /\ \A j \in Jobs :
          \/ jobs'[j].state = jobs[j].state
          \/ /\ Holds(w, j)
             /\ Holds(w, j)' => jobs'[j].state \in Handles(w)
             /\ w = "remover" => jobs'[j].state \in {"remove_pending", "removed"}
    /\ MidPoll' /\ MidRemove'

(* A step inside a process... function is one.                             *)
LEMMA WorkingMoves ==
    ASSUME TypeInv, MidPoll, MidRemove, NEW w \in Workers, Working(w)
    PROVE  HoldStep(w)
<1>1. Holds(w, Job(w))
    BY AtJob DEF Working, Holds
<1>2. \A j \in Jobs : \/ jobs'[j] = jobs[j]
                      \/ j = Job(w) /\ jobs'[j].state \in Handles(w)
    BY DEF Working, OwnRowOnly
<1>3. \A j \in Jobs : Holds(w, j)' => Holds(w, j)
    BY DEF Working, Apart, Holds
<1>4. w = "remover" => Handles(w) = {"remove_pending"}
    BY DEF Handles
<1> QED
    BY <1>1, <1>2, <1>3, <1>4 DEF HoldStep, Working, Apart

(* Nor does the loop around it do more.                                    *)
LEMMA LoopMoves ==
    ASSUME TypeInv, MidPoll, MidRemove, NEW w \in Workers, LoopStep(w) \/ LoopFault(w)
    PROVE  HoldStep(w)
<1>1. /\ jobs \in [Jobs -> Row] /\ todo \in [Workers -> SUBSET Jobs]
      /\ pc \in [Workers -> Labels] /\ snap \in [Workers -> [Jobs -> Row]]
    BY DEF TypeInv, TypeOK
<1>2. /\ mode = "up"
      /\ UNCHANGED << mode, pending, req, dreq, djob >>
    BY DEF LoopStep, LoopFault, Claim, Fetch, FetchFails, Save, SaveFails,
           Release, ReleaseFails, Up, outside
<1>3. \E label \in {"idle", "fetch", "work", "release"} : Goto(w, label)
    BY DEF LoopStep, LoopFault, Claim, Fetch, FetchFails, Save, SaveFails,
           Release, ReleaseFails, NextJob, Goto
<1>4. \/ UNCHANGED todo
      \/ \E batch \in SUBSET Jobs : todo' = [todo EXCEPT ![w] = batch]
    <2>1. \A tab, states : DueBatch(tab, states) \in SUBSET Jobs
        BY DEF DueBatch, DueJobs
    <2>2. /\ { j \in todo[w] : Exists(jobs, j) } \in SUBSET Jobs
          /\ todo[w] \ {Job(w)} \in SUBSET Jobs
        BY <1>1
    <2> QED
        BY <2>1, <2>2
        DEF LoopStep, LoopFault, Claim, Fetch, FetchFails, Save, SaveFails,
            Release, ReleaseFails, NextJob, outside
<1>5. \A v \in Workers \ {w} : snap'[v] = snap[v]
    BY <1>1
    DEF LoopStep, LoopFault, Claim, Fetch, FetchFails, Save, SaveFails,
        Release, ReleaseFails, NextJob
<1>6. /\ pc'[w] \in {"idle", "fetch", "work", "release"}
      /\ \A v \in Workers \ {w} :
            todo'[v] = todo[v] /\ pc'[v] = pc[v] /\ snap'[v] = snap[v]
    BY <1>1, <1>3, <1>4, <1>5, GotoFrame
<1>7. MidPoll' /\ MidRemove'
    <2>1. \A v \in Workers \ {w} : Copy(v)' = Copy(v)
        BY <1>6 DEF Copy, Job
    <2>2. "poller" \in Workers /\ "remover" \in Workers
        BY DEF Workers
    <2> QED
        BY <1>6, <2>1, <2>2 DEF MidPoll, MidRemove
<1>8. ASSUME \A j \in Jobs : jobs'[j].state = jobs[j].state,
             \A j \in Jobs : Holds(w, j)' =>
                 Holds(w, j) \/ jobs[j].state \in Handles(w)
      PROVE  HoldStep(w)
    BY <1>2, <1>6, <1>7, <1>8 DEF HoldStep
<1>9. CASE Claim(w)
    <2>1. jobs' = ClaimJobs(jobs, w, DueBatch(jobs, Handles(w)))
          /\ todo'[w] = DueBatch(jobs, Handles(w))
        BY <1>1, <1>9 DEF Claim
    <2>2. \A j \in DueBatch(jobs, Handles(w)) : jobs[j].state \in Handles(w)
        BY DEF DueBatch, DueJobs
    <2>3. \A j \in Jobs : jobs'[j].state = jobs[j].state
        BY <1>1, <2>1 DEF ClaimJobs, Row
    <2> QED
        BY <1>8, <2>1, <2>2, <2>3 DEF Holds
<1>10. CASE Fetch(w) \/ FetchFails(w)
    <2>1. pc[w] = "fetch" /\ jobs' = jobs /\ todo'[w] \subseteq todo[w]
        BY <1>1, <1>10 DEF Fetch, FetchFails, Up
    <2> QED
        BY <1>8, <2>1 DEF Holds
<1>11. CASE Save(w) \/ SaveFails(w)
    <2>1. /\ pc[w] = "save" /\ pc'[w] = "release" /\ todo' = todo
          /\ jobs' = jobs \/ jobs' = UpdateJob(jobs, Job(w), Copy(w))
        BY <1>11, GotoFrame DEF Save, SaveFails, Up, outside
    <2>2. Holds(w, Job(w)) /\ Copy(w) \in Row
        BY <2>1, AtJob DEF Holds
    <2>3. \A j \in Jobs : \/ jobs'[j] = jobs[j]
                          \/ j = Job(w) /\ jobs'[j].state = Copy(w).state
        BY <2>1, <2>2, UpdateFrame
    <2>4. \A j \in Jobs : Holds(w, j)' => Holds(w, j) /\ j # Job(w)
        BY <2>1 DEF Holds, Job
    <2>5. w = "remover" => Copy(w).state = "removed"
        BY <2>1 DEF MidRemove
    <2> QED
        BY <1>2, <1>6, <1>7, <2>2, <2>3, <2>4, <2>5 DEF HoldStep
<1>12. CASE Release(w) \/ ReleaseFails(w)
    <2>1. /\ pc[w] = "release" /\ todo'[w] = todo[w] \ {Job(w)}
          /\ jobs' = jobs \/ jobs' = [jobs EXCEPT ![Job(w)].claim = NoWorker]
        BY <1>1, <1>12 DEF Release, ReleaseFails, NextJob, Up, ReleaseJobClaim
    <2>2. \A j \in Jobs : jobs'[j].state = jobs[j].state
        <3>1. CASE jobs' = [jobs EXCEPT ![Job(w)].claim = NoWorker]
            BY <1>1, <3>1 DEF Row
        <3> QED
            BY <2>1, <3>1
    <2>3. \A j \in Jobs : Holds(w, j)' => Holds(w, j)
        BY <2>1 DEF Holds
    <2> QED
        BY <1>8, <2>2, <2>3
<1> QED
    BY <1>9, <1>10, <1>11, <1>12 DEF LoopStep, LoopFault

(* Whatever a worker does is such a step.                                  *)
LEMMA WorkersMove ==
    ASSUME TypeInv, MidPoll, MidRemove,
           (\E w \in Workers : WorkerStep(w)) \/ WorkerFault
    PROVE  \E w \in Workers : HoldStep(w)
<1>1. CASE \E w \in Workers : LoopStep(w) \/ LoopFault(w)
    BY <1>1, LoopMoves
<1>2. CASE \/ \E w \in Workers : ProcessStep(w)
           \/ PollerFault \/ DownloaderFault \/ FinalizerFault \/ RemoverFault
    BY <1>2, ProcessWorks, WorkingMoves
<1> QED
    BY <1>1, <1>2 DEF WorkerStep, WorkerFault

(***************************************************************************)
(* Ownership.  The hypothesis on DeleteWhen says that clients ask for a    *)
(* delete only when a job has ended.                                       *)
(***************************************************************************)
Ended == { "completed", "remote_failed", "failed" }

(* A worker moves only rows it holds, and only the remover rows that wait  *)
(* for removal.                                                            *)
RowsMoved(w) ==
    \A j \in Jobs :
        \/ jobs'[j].state = jobs[j].state
        \/ /\ Holds(w, j)
           /\ w = "remover" => jobs'[j].state \in {"remove_pending", "removed"}

(* A step of one worker: what it leaves of the others, and what it may     *)
(* still hold.                                                             *)
OwnStep(w) ==
    /\ mode = "up"
    /\ UNCHANGED << mode, pending, req, dreq, djob >>
    /\ \A v \in Workers \ {w} :
          todo'[v] = todo[v] /\ pc'[v] = pc[v] /\ snap'[v] = snap[v]
    /\ \A j \in Jobs : Holds(w, j)' => jobs'[j].state \in Handles(w)
    /\ RowsMoved(w)
    /\ MidPoll' /\ MidRemove'

(* Such a step keeps the ownership invariant.                              *)
LEMMA OwnFrame ==
    ASSUME TypeInv, OwnInv, DeleteWhen \subseteq Ended, NEW w \in Workers, OwnStep(w)
    PROVE  OwnInv'
<1>1. ASSUME NEW j \in Jobs, jobs'[j].state # jobs[j].state
      PROVE  /\ jobs[j].state \in Handles(w)
             /\ \A v \in Workers \ {w} : jobs[j].state \notin Handles(v)
    <2>1. jobs[j].state \in Handles(w)
        BY <1>1 DEF OwnStep, RowsMoved, OwnInv, Owned
    <2> QED
        BY <2>1, HandlesApart
<1>2. Owned'
    <2> SUFFICES ASSUME NEW v \in Workers, NEW j \in Jobs, Holds(v, j)'
                 PROVE  jobs'[j].state \in Handles(v)
        BY DEF Owned
    <2>1. CASE v = w
        BY <2>1 DEF OwnStep
    <2>2. CASE v # w
        <3>1. Holds(v, j)
            BY <2>2 DEF OwnStep, Holds, Job
        <3> QED
            BY <1>1, <2>2, <3>1 DEF OwnInv, Owned
    <2> QED
        BY <2>1, <2>2
<1>3. \A j \in Jobs : jobs'[j].state # jobs[j].state =>
          jobs[j].state \notin {"absent", "accepted"}
    BY <1>1, HandlesApart
<1>4. Requests'
    BY <1>3 DEF OwnStep, OwnInv, Requests
<1>5. DeleteTargets'
    <2> SUFFICES ASSUME NEW d \in Deletes, dreq'[d] = "read"
                 PROVE  req'[djob'[d]] = "done" /\ jobs'[djob'[d]].state \in Late
        BY DEF DeleteTargets, Late
    <2> DEFINE j == djob[d]
    <2>1. djob'[d] = j /\ req'[j] = "done" /\ j \in Jobs /\ jobs[j].state \in Late
        BY DEF OwnStep, OwnInv, DeleteTargets, TypeInv, DeleteAtHand
    <2> HIDE DEF j
    <2>2. CASE jobs'[j].state # jobs[j].state
        <3>1. jobs[j].state \in Handles(w)
            BY <1>1, <2>1, <2>2
        <3>2. jobs[j].state = "remove_pending"
            BY <2>1, <3>1, HandlesApart DEF Late, Ended
        <3>3. w = "remover"
            BY <3>1, <3>2, HandlesApart
        <3> QED
            BY <2>1, <2>2, <3>3 DEF OwnStep, RowsMoved, Late
    <2> QED
        BY <2>1, <2>2
<1>6. Quiet' /\ Unreconciled'
    BY DEF OwnStep, OwnInv, Quiet, Unreconciled
<1> QED
    BY <1>2, <1>4, <1>5, <1>6 DEF OwnInv, OwnStep

(* What a worker does when it has to itself what it holds.                 *)
LEMMA OwnMoves ==
    ASSUME OwnInv, NEW w \in Workers, HoldStep(w)
    PROVE  OwnStep(w)
<1>1. RowsMoved(w)
    BY DEF HoldStep, RowsMoved
<1>2. \A j \in Jobs : Holds(w, j)' => jobs'[j].state \in Handles(w)
    BY DEF HoldStep, OwnInv, Owned
<1> QED
    BY <1>1, <1>2 DEF HoldStep, OwnStep

LEMMA WorkingOwns ==
    ASSUME TypeInv, OwnInv, NEW w \in Workers, Working(w)
    PROVE  OwnStep(w)
    BY WorkingMoves, OwnMoves DEF OwnInv

LEMMA LoopOwns ==
    ASSUME TypeInv, OwnInv, NEW w \in Workers, LoopStep(w) \/ LoopFault(w)
    PROVE  OwnStep(w)
    BY LoopMoves, OwnMoves DEF OwnInv

LEMMA WorkersOwn ==
    ASSUME TypeInv, OwnInv, (\E w \in Workers : WorkerStep(w)) \/ WorkerFault
    PROVE  \E w \in Workers : OwnStep(w)
    BY WorkersMove, OwnMoves DEF OwnInv

(* Clients and the pruner move only rows nobody can hold, and a removed    *)
(* one no way but back to the remover or out of the table.                 *)
FreeMoves ==
    \A j \in Jobs :
        \/ jobs'[j].state = jobs[j].state
        \/ /\ \A w \in Workers : jobs[j].state \notin Handles(w)
           /\ jobs[j].state = "removed" =>
                 jobs'[j].state \in {"remove_pending", "absent"}

(* Handlers and pruner make free moves, and keep what is known of the      *)
(* requests in flight.                                                     *)
LEMMA ClientMoves ==
    ASSUME TypeInv, OwnInv, DeleteWhen \subseteq Ended,
           ClientStep \/ \E j \in Jobs : Prune(j) \/ TimePasses(j)
    PROVE  FreeMoves /\ Requests' /\ DeleteTargets'
<1>1. /\ jobs \in [Jobs -> Row] /\ req \in [Jobs -> ReqStates]
      /\ dreq \in [Deletes -> DeleteStates]
      /\ \A d \in Deletes : dreq[d] = "read" => djob[d] \in Jobs
    BY DEF TypeInv, TypeOK, DeleteAtHand
<1>2. Requests /\ DeleteTargets
    BY DEF OwnInv
<1>3. ASSUME UNCHANGED << dreq, djob >>, NEW j \in Jobs, NEW to \in ReqStates,
             req[j] # "done", req' = [req EXCEPT ![j] = to],
             \A k \in Jobs \ {j} : jobs'[k] = jobs[k]
      PROVE  DeleteTargets'
    <2> SUFFICES ASSUME NEW d \in Deletes, dreq'[d] = "read"
                 PROVE  req'[djob'[d]] = "done" /\ jobs'[djob'[d]].state \in Late
        BY DEF DeleteTargets, Late
    <2>1. djob[d] \in Jobs \ {j} /\ req[djob[d]] = "done" /\ jobs[djob[d]].state \in Late
        BY <1>1, <1>2, <1>3 DEF DeleteTargets
    <2> QED
        BY <1>1, <1>3, <2>1
<1>4. ASSUME NEW j \in Jobs,
             SavePayload(j) \/ FindDuplicate(j) \/ FindNone(j)
             \/ InsertRejected(j) \/ RequestDies(j)
      PROVE  FreeMoves /\ Requests' /\ DeleteTargets'
    <2>1. /\ UNCHANGED << jobs, dreq, djob >>
          /\ \/ req[j] \in {"none", "lookup"} /\ req' = [req EXCEPT ![j] = "lookup"]
             \/ req[j] \in {"none", "lookup"} /\ req' = [req EXCEPT ![j] = "insert"]
             \/ req[j] # "done" /\ req' = [req EXCEPT ![j] = "done"]
        BY <1>4 DEF SavePayload, FindDuplicate, FindNone, InsertRejected,
                    RequestDies, Step, Submitted
    <2>2. Requests'
        BY <1>1, <1>2, <2>1 DEF Requests
    <2>3. DeleteTargets'
        BY <1>3, <2>1 DEF ReqStates
    <2> QED
        BY <2>1, <2>2, <2>3 DEF FreeMoves
<1>5. ASSUME NEW j \in Jobs, Insert(j)
      PROVE  FreeMoves /\ Requests' /\ DeleteTargets'
    <2>1. /\ jobs' = [jobs EXCEPT ![j] = Accepted(j)]
          /\ jobs[j].state = "absent"
          /\ req[j] = "insert" /\ req' = [req EXCEPT ![j] = "queue"]
          /\ UNCHANGED << dreq, djob >>
        BY <1>5 DEF Insert, Step, CreateJob, CanInsert, Exists, Submitted
    <2>2. jobs'[j].state = "accepted" /\ \A k \in Jobs \ {j} : jobs'[k] = jobs[k]
        BY <1>1, <2>1, AcceptedRow
    <2>3. FreeMoves
        BY <2>1, <2>2, HandlesApart DEF FreeMoves
    <2>4. Requests'
        BY <1>1, <1>2, <2>1, <2>2 DEF Requests
    <2> QED
        BY <1>3, <2>1, <2>2, <2>3, <2>4 DEF ReqStates
<1>6. ASSUME NEW j \in Jobs, QueueForSubmit(j)
      PROVE  FreeMoves /\ Requests' /\ DeleteTargets'
    <2> DEFINE row == [Accepted(j) EXCEPT !.run = "due", !.state = "submit_pending"]
    <2>1. /\ jobs' = UpdateJob(jobs, j, row)
          /\ req[j] = "queue" /\ req' = [req EXCEPT ![j] = "done"]
          /\ UNCHANGED << dreq, djob >>
        BY <1>6 DEF QueueForSubmit, Step, Submitted
    <2>2. row \in Row
        BY AcceptedRow
    <2> HIDE DEF row
    <2>3. \A k \in Jobs \ {j} : jobs'[k] = jobs[k]
        BY <2>1, <2>2, UpdateRow
    <2>4. jobs[j].state = "accepted"
        BY <1>2, <2>1 DEF Requests
    <2>5. FreeMoves
        BY <2>3, <2>4, HandlesApart DEF FreeMoves
    <2>6. Requests'
        BY <1>1, <1>2, <2>1, <2>3 DEF Requests
    <2> QED
        BY <1>3, <2>1, <2>3, <2>5, <2>6 DEF ReqStates
<1>7. ASSUME NEW d \in Deletes, NEW j \in Jobs, DeleteRead(d, j)
      PROVE  FreeMoves /\ Requests' /\ DeleteTargets'
    <2>1. /\ UNCHANGED << jobs, req >>
          /\ dreq' = [dreq EXCEPT ![d] = "read"]
          /\ djob' = [djob EXCEPT ![d] = j]
          /\ jobs[j].state \in Ended /\ jobs[j].state \in Late
        BY <1>7 DEF DeleteRead, DeleteFrame, Late
    <2>2. req[j] = "done"
        BY <1>1, <1>2, <2>1 DEF Requests, Ended, ReqStates
    <2>3. djob \in [Deletes -> Jobs \cup {NoJob}]
        BY DEF TypeInv, TypeOK
    <2>4. DeleteTargets'
        BY <1>1, <1>2, <2>1, <2>2, <2>3 DEF DeleteTargets, Late
    <2> QED
        BY <1>2, <2>1, <2>4 DEF FreeMoves, Requests
<1>8. ASSUME NEW d \in Deletes, DeleteWrite(d)
      PROVE  FreeMoves /\ Requests' /\ DeleteTargets'
    <2> DEFINE j == djob[d]
               row == ToRemove(drow[d])
    <2>1. /\ jobs' = UpdateJob(jobs, j, row)
          /\ dreq[d] = "read" /\ dreq' = [dreq EXCEPT ![d] = "done"]
          /\ djob' = [djob EXCEPT ![d] = NoJob]
          /\ UNCHANGED req
        BY <1>8 DEF DeleteWrite, DeleteFrame
    <2>2. /\ j \in Jobs /\ drow[d] \in Row
          /\ req[j] = "done" /\ jobs[j].state \in Late
        BY <1>1, <1>2, <2>1 DEF DeleteTargets, TypeInv, TypeOK
    <2>3. row \in Row /\ row.state = "remove_pending"
        BY <2>2, RowTypes DEF ToRemove, Row
    <2> HIDE DEF j, row
    <2>4. /\ \A k \in Jobs \ {j} : jobs'[k] = jobs[k]
          /\ \/ jobs' = jobs
             \/ Exists(jobs, j) /\ jobs'[j].state = row.state
        BY <2>1, <2>2, <2>3, UpdateRow
    <2>5. \A k \in Jobs \ {j} : jobs'[k] = jobs[k]
        BY <2>4
    <2>6. \/ jobs'[j].state = jobs[j].state
          \/ jobs'[j].state = "remove_pending" /\ Exists(jobs, j)
        BY <2>3, <2>4
    <2>7. FreeMoves
        BY <2>2, <2>5, <2>6, HandlesApart DEF FreeMoves, Late, Ended
    <2>8. Requests'
        BY <1>2, <2>1, <2>2, <2>5, <2>6 DEF Requests, Exists
    <2>9. djob \in [Deletes -> Jobs \cup {NoJob}]
        BY DEF TypeInv, TypeOK
    <2>10. DeleteTargets'
        BY <1>1, <1>2, <2>1, <2>2, <2>5, <2>6, <2>9 DEF DeleteTargets, Late
    <2> QED
        BY <2>7, <2>8, <2>10
<1>9. ASSUME NEW j \in Jobs, Prune(j)
       PROVE  FreeMoves /\ Requests' /\ DeleteTargets'
    <2>1. /\ jobs' = [jobs EXCEPT ![j] = NoRow]
          /\ jobs[j].state = "removed"
          /\ UNCHANGED << req, dreq, djob >>
        BY <1>9 DEF Prune, DeleteRow, outside
    <2>2. jobs'[j].state = "absent" /\ \A k \in Jobs \ {j} : jobs'[k] = jobs[k]
        BY <1>1, <2>1 DEF NoRow
    <2>3. FreeMoves
        BY <2>1, <2>2, HandlesApart DEF FreeMoves
    <2>4. Requests'
        BY <1>2, <2>1, <2>2 DEF Requests
    <2>5. DeleteTargets'
        BY <1>1, <1>2, <2>1, <2>2 DEF DeleteTargets, Late
    <2> QED
        BY <2>3, <2>4, <2>5
<1>10. ASSUME NEW j \in Jobs, TimePasses(j)
       PROVE  FreeMoves /\ Requests' /\ DeleteTargets'
    <2>1. /\ UNCHANGED << req, dreq, djob >>
          /\ \A k \in Jobs : jobs'[k].state = jobs[k].state
        BY <1>1, <1>10 DEF TimePasses, outside, Row
    <2> QED
        BY <1>1, <1>2, <2>1 DEF FreeMoves, Requests, DeleteTargets, Late
<1> QED
    BY <1>4, <1>5, <1>6, <1>7, <1>8, <1>9, <1>10 DEF ClientStep, SubmitStep

(* So they keep the ownership invariant.                                   *)
LEMMA ClientOwns ==
    ASSUME TypeInv, OwnInv, DeleteWhen \subseteq Ended,
           ClientStep \/ \E j \in Jobs : Prune(j) \/ TimePasses(j)
    PROVE  OwnInv'
<1>1. mode = "up" /\ UNCHANGED << mode, pending, pc, todo, snap >>
    BY DEF ClientStep, SavePayload, SubmitStep, RequestDies, FindDuplicate,
           FindNone, Insert, InsertRejected, QueueForSubmit, Submitted, Step,
           DeleteWrite, DeleteRead, DeleteFrame, ApiFrame, Prune, TimePasses,
           outside
<1>2. FreeMoves /\ Requests' /\ DeleteTargets'
    BY ClientMoves
<1>3. Owned'
    BY <1>1, <1>2 DEF OwnInv, Owned, Holds, Job, FreeMoves
<1>4. MidPoll' /\ MidRemove'
    BY <1>1 DEF OwnInv, MidPoll, MidRemove, Copy, Job
<1>5. Quiet' /\ Unreconciled'
    BY <1>1 DEF OwnInv, Quiet, Unreconciled
<1> QED
    BY <1>2, <1>3, <1>4, <1>5 DEF OwnInv

(* The state reconcileStartup leaves each row in.                          *)
LEMMA ReconcileMoves ==
    ASSUME TypeInv, Reconcile
    PROVE  \E j \in pending :
              /\ pending' = pending \ {j}
              /\ \A k \in Jobs \ {j} : jobs'[k] = jobs[k]
              /\ jobs[j].state \in {"absent", "remove_pending"} =>
                    jobs'[j].state = jobs[j].state
<1>1. jobs \in [Jobs -> Row] /\ pending \in SUBSET Jobs
    BY DEF TypeInv, TypeOK
<1>2. PICK j \in pending :
              /\ pending' = pending \ {j}
              /\ Reconciled(j) \in Row
              /\ jobs' = jobs \/ jobs' = UpdateJob(jobs, j, Reconciled(j))
              /\ jobs[j].state = "remove_pending" =>
                    Reconciled(j).state = "remove_pending"
    BY ReconcileWrites
<1> DEFINE row == Reconciled(j)
<1>3. /\ j \in Jobs /\ row \in Row
      /\ jobs[j].state = "remove_pending" => row.state = "remove_pending"
    BY <1>1, <1>2
<1>4. jobs' = jobs \/ jobs' = UpdateJob(jobs, j, row)
    BY <1>2
<1> HIDE DEF row
<1>5. /\ \A k \in Jobs \ {j} : jobs'[k] = jobs[k]
      /\ \/ jobs' = jobs
         \/ Exists(jobs, j) /\ jobs'[j].state = row.state
    <2>1. CASE jobs' = UpdateJob(jobs, j, row)
        BY <1>3, <2>1, UpdateRow
    <2> QED
        BY <1>4, <2>1
<1>6. jobs[j].state \in {"absent", "remove_pending"} =>
          jobs'[j].state = jobs[j].state
    BY <1>3, <1>5 DEF Exists
<1> QED
    BY <1>2, <1>5, <1>6

(* Crash and startup: nothing is under way, and no row or request appears. *)
LEMMA StartupMoves ==
    ASSUME TypeInv, Quiet, Unreconciled, Crash \/ StartupStep
    PROVE  /\ Quiet' /\ Unreconciled' /\ MidPoll' /\ MidRemove'
           /\ \A w \in Workers : todo'[w] = {}
           /\ \A d \in Deletes : dreq'[d] # "read"
           /\ \A j \in Jobs :
                 /\ jobs[j].state = "absent" => jobs'[j].state = "absent"
                 /\ req'[j] \in {"none", "done"}
                 /\ req'[j] = "none" => req[j] = "none"
<1>1. /\ jobs \in [Jobs -> Row] /\ pending \in SUBSET Jobs
      /\ req \in [Jobs -> ReqStates]
    BY DEF TypeInv, TypeOK
<1>2. "poller" \in Workers /\ "remover" \in Workers
    BY DEF Workers
<1>3. CASE Crash
    <2>1. /\ \A w \in Workers : pc'[w] = "idle" /\ todo'[w] = {}
          /\ \A d \in Deletes : dreq'[d] # "read"
          /\ \A j \in Jobs :
                /\ jobs'[j] = jobs[j]
                /\ req'[j] \in {"none", "done"}
                /\ req'[j] = "none" => req[j] = "none"
        BY <1>3 DEF Crash
    <2>2. Quiet' /\ Unreconciled'
        BY <1>3, <2>1 DEF Crash, Quiet, Unreconciled
    <2> QED
        BY <1>2, <2>1, <2>2 DEF MidPoll, MidRemove
<1>4. ASSUME mode # "up", StartupFrame
      PROVE  /\ Quiet' /\ MidPoll' /\ MidRemove'
             /\ \A w \in Workers : todo'[w] = {}
             /\ \A d \in Deletes : dreq'[d] # "read"
             /\ \A j \in Jobs : req'[j] = req[j] /\ req[j] \in {"none", "done"}
    BY <1>2, <1>4 DEF StartupFrame, Quiet, MidPoll, MidRemove
<1>5. CASE Restart
    <2>1. \A j \in Jobs : jobs'[j].state = jobs[j].state
        BY <1>1, <1>5 DEF Restart, ReleaseAllClaims, Row
    <2>2. Unreconciled'
        BY <1>5, <2>1 DEF Restart, ListOpenJobs, Unreconciled
    <2> QED
        BY <1>4, <1>5, <2>1, <2>2 DEF Restart
<1>6. CASE Reconcile
    <2>1. mode = "recovering" /\ mode' = mode /\ StartupFrame
        BY <1>6 DEF Reconcile
    <2>2. PICK j \in pending :
              /\ pending' = pending \ {j}
              /\ \A k \in Jobs \ {j} : jobs'[k] = jobs[k]
              /\ jobs[j].state \in {"absent", "remove_pending"} =>
                    jobs'[j].state = jobs[j].state
        BY <1>6, ReconcileMoves
    <2>3. Unreconciled'
        BY <1>1, <2>1, <2>2 DEF Unreconciled
    <2> QED
        BY <1>4, <2>1, <2>2, <2>3
<1>7. CASE Start
    <2>1. Unreconciled'
        BY <1>7 DEF Start, Unreconciled
    <2> QED
        BY <1>4, <1>7, <2>1 DEF Start
<1> QED
    BY <1>3, <1>5, <1>6, <1>7 DEF StartupStep

(* So they keep the ownership invariant.                                   *)
LEMMA StartupOwns ==
    ASSUME TypeInv, OwnInv, Crash \/ StartupStep
    PROVE  OwnInv'
<1>1. /\ Quiet' /\ Unreconciled' /\ MidPoll' /\ MidRemove'
      /\ \A w \in Workers : todo'[w] = {}
      /\ \A d \in Deletes : dreq'[d] # "read"
      /\ \A j \in Jobs :
            /\ jobs[j].state = "absent" => jobs'[j].state = "absent"
            /\ req'[j] \in {"none", "done"}
            /\ req'[j] = "none" => req[j] = "none"
    BY StartupMoves DEF OwnInv
<1>2. Owned' /\ DeleteTargets'
    BY <1>1 DEF Owned, Holds, DeleteTargets
<1>3. Requests'
    BY <1>1 DEF OwnInv, Requests
<1> QED
    BY <1>1, <1>2, <1>3 DEF OwnInv

(* Every step keeps the ownership invariant.                               *)
LEMMA OwnInvHolds ==
    ASSUME DeleteWhen \subseteq Ended
    PROVE  Spec => []OwnInv
<1>1. Init => OwnInv
    <2> SUFFICES ASSUME Init PROVE OwnInv
        OBVIOUS
    <2>1. Owned /\ MidPoll /\ MidRemove
        BY DEF Init, Owned, Holds, MidPoll, MidRemove, Workers
    <2>2. Requests /\ DeleteTargets /\ Quiet /\ Unreconciled
        BY DEF Init, Requests, DeleteTargets, Quiet, Unreconciled, NoRow
    <2> QED
        BY <2>1, <2>2 DEF OwnInv
<1>2. TypeInv /\ OwnInv /\ [Next]_vars => OwnInv'
    <2> SUFFICES ASSUME TypeInv, OwnInv, [Next]_vars
                 PROVE  OwnInv'
        OBVIOUS
    <2>1. CASE (\E w \in Workers : WorkerStep(w)) \/ WorkerFault
        BY <2>1, WorkersOwn, OwnFrame
    <2>2. CASE ClientStep \/ \E j \in Jobs : Prune(j) \/ TimePasses(j)
        BY <2>2, ClientOwns
    <2>3. CASE Crash \/ StartupStep
        BY <2>3, StartupOwns
    <2>4. CASE UNCHANGED vars
        <3>1. UNCHANGED << jobs, mode, pending, pc, todo, snap, req, dreq, djob >>
            BY <2>4 DEF vars
        <3>2. Owned' /\ MidPoll' /\ MidRemove'
            BY <3>1 DEF OwnInv, Owned, Holds, MidPoll, MidRemove, Copy, Job
        <3>3. Requests' /\ DeleteTargets' /\ Quiet' /\ Unreconciled'
            BY <3>1 DEF OwnInv, Requests, DeleteTargets, Late, Quiet, Unreconciled
        <3> QED
            BY <3>2, <3>3 DEF OwnInv
    <2> QED
        BY <2>1, <2>2, <2>3, <2>4 DEF Next
<1> QED
    BY <1>1, <1>2, TypeInvHolds, PTL DEF Spec

(* ClaimJobsDue does prevent concurrent processing, whatever statements    *)
(* fail, answers are lost and crashes happen, as long as clients delete    *)
(* only jobs that have ended.  A delete of a job that is being worked on   *)
(* breaks it (run TwoOwners), hence the assumption.                        *)
THEOREM OneOwner ==
    ASSUME DeleteWhen \subseteq Ended
    PROVE  Spec => []SingleOwner
<1>1. OwnInv => SingleOwner
    <2> SUFFICES ASSUME OwnInv, NEW j \in Jobs, NEW v \in Workers, NEW w \in Workers,
                        Holds(v, j), Holds(w, j)
                 PROVE  v = w
        BY DEF SingleOwner
    <2>1. jobs[j].state \in Handles(v) \cap Handles(w)
        BY DEF OwnInv, Owned
    <2> QED
        BY <2>1, HandlesApart
<1> QED
    BY <1>1, OwnInvHolds, PTL

(***************************************************************************)
(* Deletes at any time.  A delete may find the job in a worker's hands, and *)
(* that worker's next write undoes it.  What still holds then is weaker:   *)
(* the row is in one of the holder's states, or deleted.  It is enough to  *)
(* keep submitter, poller, downloader and finalizer apart, and to know who *)
(* undoes a delete.                                                        *)
(***************************************************************************)
Deleted == { "remove_pending", "removed", "absent" }

HeldOrDeleted ==
    \A w \in PipelineWorkers : \A j \in Jobs :
        Holds(w, j) => jobs[j].state \in Handles(w) \cup Deleted

(* A job whose request is under way is not in the pipeline yet, deleted or *)
(* not.                                                                    *)
Entering ==
    \A j \in Jobs :
        /\ req[j] \in {"none", "lookup", "insert"} =>
              jobs[j].state = "absent" /\ \A w \in Workers : ~ Holds(w, j)
        /\ req[j] = "queue" =>
              /\ jobs[j].state \in {"accepted"} \cup Deleted
              /\ \A w \in PipelineWorkers : ~ Holds(w, j)

HoldInv ==
    /\ HeldOrDeleted /\ PipelineOwner /\ Entering
    /\ MidPoll /\ MidRemove /\ Quiet /\ Unreconciled

(* None of the pipeline's queries selects a job that is deleted, or not    *)
(* queued yet.                                                             *)
LEMMA DeletedApart ==
    ASSUME NEW w \in Workers
    PROVE  /\ w # "remover" => Handles(w) \cap Deleted = {}
           /\ {"accepted", "absent"} \cap Handles(w) = {}
    BY HandlesApart DEF Deleted

(* A worker's step keeps the weaker invariant: what another worker of the  *)
(* pipeline holds it leaves, or removes.                                   *)
LEMMA HoldFrame ==
    ASSUME TypeInv, HoldInv, NEW w \in Workers, HoldStep(w)
    PROVE  HoldInv'
<1>1. ASSUME NEW v \in Workers \ {w}, NEW j \in Jobs
      PROVE  Holds(v, j)' <=> Holds(v, j)
    BY DEF HoldStep, Holds, Job
<1>2. ASSUME NEW v \in PipelineWorkers \ {w}, NEW j \in Jobs, Holds(v, j)
      PROVE  jobs'[j].state = jobs[j].state \/ jobs'[j].state \in Deleted
    BY <1>2 DEF HoldStep, HoldInv, PipelineOwner, PipelineWorkers, Deleted
<1>3. HeldOrDeleted'
    <2> SUFFICES ASSUME NEW v \in PipelineWorkers, NEW j \in Jobs, Holds(v, j)'
                 PROVE  jobs'[j].state \in Handles(v) \cup Deleted
        BY DEF HeldOrDeleted
    <2>1. CASE v = w
        BY <2>1 DEF HoldStep, HoldInv, HeldOrDeleted
    <2>2. CASE v # w
        <3>1. Holds(v, j)
            BY <1>1, <2>2 DEF PipelineWorkers
        <3> QED
            BY <1>2, <2>2, <3>1 DEF HoldInv, HeldOrDeleted
    <2> QED
        BY <2>1, <2>2
<1>4. ASSUME NEW j \in Jobs, Holds(w, j)', ~ Holds(w, j), w # "remover",
             NEW v \in PipelineWorkers \ {w}
      PROVE  ~ Holds(v, j)
    <2>1. jobs[j].state \in Handles(w)
        BY <1>4 DEF HoldStep
    <2>2. jobs[j].state \notin Handles(v) \cup Deleted
        BY <1>4, <2>1, HandlesApart, DeletedApart DEF PipelineWorkers
    <2> QED
        BY <2>2 DEF HoldInv, HeldOrDeleted
<1>5. PipelineOwner'
    BY <1>1, <1>4 DEF PipelineOwner, PipelineWorkers, HoldInv
<1>6. Entering'
    <2> SUFFICES ASSUME NEW j \in Jobs
                 PROVE  /\ req[j] \in {"none", "lookup", "insert"} =>
                              /\ jobs'[j].state = "absent"
                              /\ \A v \in Workers : ~ Holds(v, j)'
                        /\ req[j] = "queue" =>
                              /\ jobs'[j].state \in {"accepted"} \cup Deleted
                              /\ \A v \in PipelineWorkers : ~ Holds(v, j)'
        BY DEF HoldStep, Entering
    <2>1. ASSUME req[j] \in {"none", "lookup", "insert"}
          PROVE  jobs'[j].state = "absent" /\ \A v \in Workers : ~ Holds(v, j)'
        <3>1. jobs[j].state = "absent" /\ \A v \in Workers : ~ Holds(v, j)
            BY <2>1 DEF HoldInv, Entering
        <3>2. jobs[j].state \notin Handles(w)
            BY <3>1, DeletedApart
        <3> QED
            BY <1>1, <3>1, <3>2 DEF HoldStep
    <2>2. ASSUME req[j] = "queue"
          PROVE  /\ jobs'[j].state \in {"accepted"} \cup Deleted
                 /\ \A v \in PipelineWorkers : ~ Holds(v, j)'
        <3>1. /\ jobs[j].state \in {"accepted"} \cup Deleted
              /\ \A v \in PipelineWorkers : ~ Holds(v, j)
            BY <2>2 DEF HoldInv, Entering
        <3>2. w # "remover" => jobs[j].state \notin Handles(w)
            BY <3>1, DeletedApart
        <3>3. jobs'[j].state \in {"accepted"} \cup Deleted
            BY <3>1 DEF HoldStep, PipelineWorkers, Deleted
        <3> QED
            BY <1>1, <3>1, <3>2, <3>3 DEF HoldStep, PipelineWorkers
    <2> QED
        BY <2>1, <2>2
<1>7. Quiet' /\ Unreconciled'
    BY DEF HoldStep, HoldInv, Quiet, Unreconciled
<1> QED
    BY <1>3, <1>5, <1>6, <1>7 DEF HoldInv, HoldStep

(* Clients and the pruner: a job enters, is queued by the handler that has *)
(* it at hand, is deleted, or leaves the table once it is removed.         *)
ClientMove ==
    \A j \in Jobs :
        \/ jobs'[j].state = jobs[j].state
        \/ req[j] = "insert" /\ jobs'[j].state = "accepted" /\ req'[j] = "queue"
        \/ req[j] = "queue" /\ req'[j] = "done"
        \/ /\ jobs[j].state # "absent" /\ jobs'[j].state \in Deleted /\ req'[j] = req[j]
           /\ jobs[j].state = "remove_pending" => jobs'[j].state = "remove_pending"

(* A request only moves on.                                                *)
RequestMoves ==
    \A j \in Jobs :
        \/ req'[j] \in { req[j], "done" }
        \/ /\ req[j] \in {"none", "lookup"} /\ req'[j] \in {"lookup", "insert"}
           /\ jobs'[j].state = jobs[j].state
        \/ req[j] = "insert" /\ req'[j] = "queue" /\ jobs'[j].state = "accepted"

LEMMA ClientsMove ==
    ASSUME TypeInv, ClientStep \/ \E j \in Jobs : Prune(j) \/ TimePasses(j)
    PROVE  ClientMove /\ RequestMoves
<1>1. /\ jobs \in [Jobs -> Row] /\ req \in [Jobs -> ReqStates]
      /\ drow \in [Deletes -> Row]
      /\ \A d \in Deletes : dreq[d] = "read" => djob[d] \in Jobs
    BY DEF TypeInv, TypeOK, DeleteAtHand
<1>2. ASSUME NEW j \in Jobs,
             SavePayload(j) \/ FindDuplicate(j) \/ FindNone(j)
             \/ InsertRejected(j) \/ RequestDies(j)
      PROVE  ClientMove /\ RequestMoves
    <2>1. /\ UNCHANGED jobs
          /\ \/ req[j] \in {"none", "lookup"} /\ req' = [req EXCEPT ![j] = "lookup"]
             \/ req[j] \in {"none", "lookup"} /\ req' = [req EXCEPT ![j] = "insert"]
             \/ req' = [req EXCEPT ![j] = "done"]
        BY <1>2 DEF SavePayload, FindDuplicate, FindNone, InsertRejected,
                    RequestDies, Step
    <2> QED
        BY <1>1, <2>1 DEF ClientMove, RequestMoves
<1>3. ASSUME NEW j \in Jobs, Insert(j)
      PROVE  ClientMove /\ RequestMoves
    <2>1. /\ jobs' = [jobs EXCEPT ![j] = Accepted(j)]
          /\ req[j] = "insert" /\ req' = [req EXCEPT ![j] = "queue"]
        BY <1>3 DEF Insert, Step, CreateJob, CanInsert
    <2>2. jobs'[j].state = "accepted" /\ \A k \in Jobs \ {j} : jobs'[k] = jobs[k]
        BY <1>1, <2>1, AcceptedRow
    <2>3. req'[j] = "queue" /\ \A k \in Jobs \ {j} : req'[k] = req[k]
        BY <1>1, <2>1
    <2> QED
        BY <2>1, <2>2, <2>3 DEF ClientMove, RequestMoves
<1>4. ASSUME NEW j \in Jobs, QueueForSubmit(j)
      PROVE  ClientMove /\ RequestMoves
    <2> DEFINE row == [Accepted(j) EXCEPT !.run = "due", !.state = "submit_pending"]
    <2>1. /\ jobs' = UpdateJob(jobs, j, row)
          /\ req[j] = "queue" /\ req' = [req EXCEPT ![j] = "done"]
        BY <1>4 DEF QueueForSubmit, Step
    <2>2. row \in Row
        BY AcceptedRow
    <2> HIDE DEF row
    <2>3. \A k \in Jobs \ {j} : jobs'[k] = jobs[k]
        BY <2>1, <2>2, UpdateRow
    <2>4. req'[j] = "done" /\ \A k \in Jobs \ {j} : req'[k] = req[k]
        BY <1>1, <2>1
    <2> QED
        BY <2>1, <2>3, <2>4 DEF ClientMove, RequestMoves
<1>5. ASSUME NEW d \in Deletes, NEW j \in Jobs, DeleteRead(d, j)
      PROVE  ClientMove /\ RequestMoves
    BY <1>5 DEF DeleteRead, DeleteFrame, ClientMove, RequestMoves
<1>6. ASSUME NEW d \in Deletes, DeleteWrite(d)
      PROVE  ClientMove /\ RequestMoves
    <2> DEFINE j == djob[d]
               row == ToRemove(drow[d])
    <2>1. jobs' = UpdateJob(jobs, j, row) /\ UNCHANGED req
        BY <1>6 DEF DeleteWrite, DeleteFrame
    <2>2. j \in Jobs /\ drow[d] \in Row
        BY <1>1, <1>6 DEF DeleteWrite
    <2>3. row \in Row /\ row.state = "remove_pending"
        BY <2>2, RowTypes DEF ToRemove, Row
    <2> HIDE DEF j, row
    <2>4. /\ \A k \in Jobs \ {j} : jobs'[k] = jobs[k]
          /\ \/ jobs' = jobs
             \/ jobs[j].state # "absent" /\ jobs'[j].state = "remove_pending"
        BY <2>1, <2>2, <2>3, UpdateRow DEF Exists
    <2> QED
        BY <2>1, <2>4 DEF ClientMove, RequestMoves, Deleted
<1>7. ASSUME NEW j \in Jobs, Prune(j)
      PROVE  ClientMove /\ RequestMoves
    <2>1. /\ jobs' = [jobs EXCEPT ![j] = NoRow]
          /\ jobs[j].state = "removed" /\ UNCHANGED req
        BY <1>7 DEF Prune, DeleteRow, outside
    <2>2. jobs'[j].state = "absent" /\ \A k \in Jobs \ {j} : jobs'[k] = jobs[k]
        BY <1>1, <2>1 DEF NoRow
    <2> QED
        BY <2>1, <2>2 DEF ClientMove, RequestMoves, Deleted
<1>8. ASSUME NEW j \in Jobs, TimePasses(j)
      PROVE  ClientMove /\ RequestMoves
    <2>1. UNCHANGED req /\ \A k \in Jobs : jobs'[k].state = jobs[k].state
        BY <1>1, <1>8 DEF TimePasses, outside, Row
    <2> QED
        BY <2>1 DEF ClientMove, RequestMoves
<1> QED
    BY <1>2, <1>3, <1>4, <1>5, <1>6, <1>7, <1>8 DEF ClientStep, SubmitStep

(* So they keep the weaker invariant, too.                                 *)
LEMMA ClientHolds ==
    ASSUME TypeInv, HoldInv,
           ClientStep \/ \E j \in Jobs : Prune(j) \/ TimePasses(j)
    PROVE  HoldInv'
<1>1. mode = "up" /\ UNCHANGED << mode, pending, pc, todo, snap >>
    BY DEF ClientStep, SavePayload, SubmitStep, RequestDies, FindDuplicate,
           FindNone, Insert, InsertRejected, QueueForSubmit, Submitted, Step,
           DeleteWrite, DeleteRead, DeleteFrame, ApiFrame, Prune, TimePasses,
           outside
<1>2. ClientMove /\ RequestMoves
    BY ClientsMove
<1>3. \A w \in Workers : \A j \in Jobs : Holds(w, j)' <=> Holds(w, j)
    BY <1>1 DEF Holds, Job
<1>4. HeldOrDeleted'
    <2> SUFFICES ASSUME NEW w \in PipelineWorkers, NEW j \in Jobs, Holds(w, j)
                 PROVE  jobs'[j].state \in Handles(w) \cup Deleted
        BY <1>3 DEF HeldOrDeleted, PipelineWorkers
    <2>1. req[j] \notin {"insert", "queue"}
        BY DEF HoldInv, Entering, PipelineWorkers
    <2> QED
        BY <1>2, <2>1 DEF ClientMove, HoldInv, HeldOrDeleted
<1>5. PipelineOwner'
    BY <1>3 DEF HoldInv, PipelineOwner, PipelineWorkers
<1>6. Entering'
    <2> SUFFICES ASSUME NEW j \in Jobs
                 PROVE  /\ req'[j] \in {"none", "lookup", "insert"} =>
                              /\ jobs'[j].state = "absent"
                              /\ \A w \in Workers : ~ Holds(w, j)
                        /\ req'[j] = "queue" =>
                              /\ jobs'[j].state \in {"accepted"} \cup Deleted
                              /\ \A w \in PipelineWorkers : ~ Holds(w, j)
        BY <1>3 DEF Entering, PipelineWorkers
    <2>1. /\ req[j] \in {"none", "lookup", "insert"} =>
                jobs[j].state = "absent" /\ \A w \in Workers : ~ Holds(w, j)
          /\ req[j] = "queue" =>
                /\ jobs[j].state \in {"accepted"} \cup Deleted
                /\ \A w \in PipelineWorkers : ~ Holds(w, j)
        BY DEF HoldInv, Entering
    <2> QED
        BY <1>2, <2>1 DEF ClientMove, RequestMoves, PipelineWorkers
<1>7. MidPoll' /\ MidRemove' /\ Quiet' /\ Unreconciled'
    <2>1. MidPoll' /\ MidRemove'
        BY <1>1 DEF HoldInv, MidPoll, MidRemove, Copy, Job
    <2>2. Unreconciled'
        BY <1>1 DEF HoldInv, Quiet, Unreconciled
    <2> QED
        BY <1>1, <2>1, <2>2 DEF Quiet
<1> QED
    BY <1>4, <1>5, <1>6, <1>7 DEF HoldInv

(* Every step keeps the weaker invariant.                                  *)
LEMMA HoldInvHolds == Spec => []HoldInv
<1>1. Init => HoldInv
    <2> SUFFICES ASSUME Init PROVE HoldInv
        OBVIOUS
    <2>1. HeldOrDeleted /\ PipelineOwner /\ MidPoll /\ MidRemove
        BY DEF Init, HeldOrDeleted, PipelineOwner, PipelineWorkers, Holds, MidPoll,
               MidRemove, Workers
    <2>2. Entering /\ Quiet /\ Unreconciled
        BY DEF Init, Entering, PipelineWorkers, Holds, Quiet, Unreconciled, NoRow
    <2> QED
        BY <2>1, <2>2 DEF HoldInv
<1>2. TypeInv /\ HoldInv /\ [Next]_vars => HoldInv'
    <2> SUFFICES ASSUME TypeInv, HoldInv, [Next]_vars
                 PROVE  HoldInv'
        OBVIOUS
    <2>1. CASE (\E w \in Workers : WorkerStep(w)) \/ WorkerFault
        BY <2>1, WorkersMove, HoldFrame DEF HoldInv
    <2>2. CASE ClientStep \/ \E j \in Jobs : Prune(j) \/ TimePasses(j)
        BY <2>2, ClientHolds
    <2>3. CASE Crash \/ StartupStep
        <3>1. /\ Quiet' /\ Unreconciled' /\ MidPoll' /\ MidRemove'
              /\ \A w \in Workers : todo'[w] = {}
              /\ \A j \in Jobs :
                    /\ jobs[j].state = "absent" => jobs'[j].state = "absent"
                    /\ req'[j] \in {"none", "done"}
                    /\ req'[j] = "none" => req[j] = "none"
            BY <2>3, StartupMoves DEF HoldInv
        <3>2. HeldOrDeleted' /\ PipelineOwner'
            BY <3>1 DEF HeldOrDeleted, PipelineOwner, PipelineWorkers, Holds
        <3>3. Entering'
            BY <3>1 DEF HoldInv, Entering, PipelineWorkers, Holds
        <3> QED
            BY <3>1, <3>2, <3>3 DEF HoldInv
    <2>4. CASE UNCHANGED vars
        <3>1. UNCHANGED << jobs, mode, pending, pc, todo, snap, req, dreq >>
            BY <2>4 DEF vars
        <3>2. HeldOrDeleted' /\ PipelineOwner' /\ Entering'
            BY <3>1 DEF HoldInv, HeldOrDeleted, PipelineOwner, Entering, Holds, Job
        <3>3. MidPoll' /\ MidRemove' /\ Quiet' /\ Unreconciled'
            BY <3>1 DEF HoldInv, MidPoll, MidRemove, Quiet, Unreconciled, Copy, Job
        <3> QED
            BY <3>2, <3>3 DEF HoldInv
    <2> QED
        BY <2>1, <2>2, <2>3, <2>4 DEF Next
<1> QED
    BY <1>1, <1>2, TypeInvHolds, PTL DEF Spec

(* ClaimJobsDue keeps submitter, poller, downloader and finalizer apart    *)
(* although every UpdateJob, a delete among them, clears the claim of the  *)
(* worker that holds the job: whenever clients delete, whatever fails.     *)
THEOREM OnePipelineOwner == Spec => []PipelineOwner
<1>1. HoldInv => PipelineOwner
    BY DEF HoldInv
<1> QED
    BY <1>1, HoldInvHolds, PTL

(* A recorded delete (markRemovePending), of a job in any state, is undone *)
(* only by one who had the job at hand when it was recorded: the submit    *)
(* handler or the one worker of the pipeline, with its next UpdateJob.     *)
THEOREM DeletesKept == Spec => DeleteKept
<1>1. TypeInv /\ HoldInv /\ [Next]_vars => [DeleteStepKept]_vars
    <2> SUFFICES ASSUME TypeInv, HoldInv, Next, NEW j \in Jobs, ~ InOtherHands(j)
                 PROVE  DeleteStands(j)
        BY DEF DeleteStepKept
    <2>1. CASE (\E w \in Workers : WorkerStep(w)) \/ WorkerFault
        <3>1. PICK w \in Workers : HoldStep(w)
            BY <2>1, WorkersMove DEF HoldInv
        <3>2. CASE w # "remover"
            BY <3>1, <3>2 DEF HoldStep, InOtherHands, PipelineWorkers, DeleteStands
        <3>3. CASE w = "remover"
            BY <3>1, <3>3 DEF HoldStep, DeleteStands
        <3> QED
            BY <3>2, <3>3
    <2>2. CASE ClientStep \/ \E k \in Jobs : Prune(k) \/ TimePasses(k)
        <3>1. ClientMove
            BY <2>2, ClientsMove
        <3>2. req[j] # "queue" /\ (req[j] = "insert" => jobs[j].state = "absent")
            BY DEF InOtherHands, HoldInv, Entering
        <3> QED
            BY <3>1, <3>2 DEF ClientMove, DeleteStands, Deleted
    <2>3. CASE Reconcile
        <3>1. PICK k \in pending :
                  /\ \A i \in Jobs \ {k} : jobs'[i] = jobs[i]
                  /\ jobs[k].state \in {"absent", "remove_pending"} =>
                        jobs'[k].state = jobs[k].state
            BY <2>3, ReconcileMoves
        <3>2. jobs[k].state # "removed"
            BY DEF HoldInv, Unreconciled, ClosedStates
        <3> QED
            BY <3>1, <3>2 DEF DeleteStands
    <2>4. CASE Crash \/ Restart \/ Start
        <3>1. jobs \in [Jobs -> Row]
            BY DEF TypeInv, TypeOK
        <3>2. jobs'[j].state = jobs[j].state
            BY <2>4, <3>1 DEF Crash, Restart, Start, ReleaseAllClaims, Row
        <3> QED
            BY <3>2 DEF DeleteStands
    <2> QED
        BY <2>1, <2>2, <2>3, <2>4 DEF Next, StartupStep
<1> QED
    BY <1>1, HoldInvHolds, TypeInvHolds, PTL DEF Spec, DeleteKept

(* Where deletes come only when a job has ended, nobody has it at hand, so *)
(* that the delete stands.                                                 *)
COROLLARY DeletesStick ==
    ASSUME DeleteWhen \subseteq Ended
    PROVE  Spec => DeleteSticks
<1>1. OwnInv /\ [DeleteStepKept]_vars => [DeleteStepSticks]_vars
    <2> SUFFICES ASSUME OwnInv, DeleteStepKept, NEW j \in Jobs
                 PROVE  DeleteStands(j)
        BY DEF DeleteStepSticks
    <2>1. ASSUME jobs[j].state \in {"remove_pending", "removed"}
          PROVE  ~ InOtherHands(j)
        <3>1. req[j] # "queue"
            BY <2>1 DEF OwnInv, Requests
        <3>2. \A w \in PipelineWorkers : jobs[j].state \notin Handles(w)
            BY <2>1, HandlesApart DEF PipelineWorkers
        <3> QED
            BY <3>1, <3>2 DEF InOtherHands, PipelineWorkers, OwnInv, Owned
    <2> QED
        BY <2>1 DEF DeleteStepKept, DeleteStands
<1> QED
    BY <1>1, DeletesKept, OwnInvHolds, PTL DEF DeleteKept, DeleteSticks

(***************************************************************************)
(* At most one active job per submission key, for any number of jobs and   *)
(* whatever fails.  The lookup of enqueueSubmission has no part in it: it  *)
(* is the unique index that rejects the second row of a key, at an insert  *)
(* and at every write of a stale copy.                                     *)
(***************************************************************************)

(* Two active jobs of one key are the same job.                            *)
KeyInv ==
    \A j, k \in Jobs :
        /\ KeyOf[j] = KeyOf[k]
        /\ jobs[j].state \in ActiveStates
        /\ jobs[k].state \in ActiveStates
        => j = k

(* A step brings a row into an active state, if any, past the index, and   *)
(* then it writes no other row.                                            *)
PastIndex ==
    \/ \A j \in Jobs :
          jobs'[j].state = jobs[j].state \/ jobs'[j].state \notin ActiveStates
    \/ \E j \in Jobs :
          /\ \A k \in Jobs \ {j} : jobs'[k] = jobs[k]
          /\ IndexAllows(jobs, j, jobs'[j])

(* Such a step keeps the keys apart.                                       *)
LEMMA KeysApart ==
    ASSUME KeyInv, PastIndex
    PROVE  KeyInv'
<1>1. CASE \A j \in Jobs :
              jobs'[j].state = jobs[j].state \/ jobs'[j].state \notin ActiveStates
    BY <1>1 DEF KeyInv
<1>2. CASE \E j \in Jobs : /\ \A k \in Jobs \ {j} : jobs'[k] = jobs[k]
                           /\ IndexAllows(jobs, j, jobs'[j])
    <2>1. PICK j \in Jobs : /\ \A k \in Jobs \ {j} : jobs'[k] = jobs[k]
                            /\ IndexAllows(jobs, j, jobs'[j])
        BY <1>2
    <2>2. jobs'[j].state \in ActiveStates =>
             \A k \in Jobs : KeyOf[k] = KeyOf[j] /\ jobs[k].state \in ActiveStates
                                => k = j
        BY <2>1 DEF IndexAllows, KeyFree, FindActiveBySubmissionKey
    <2> QED
        BY <2>1, <2>2 DEF KeyInv
<1> QED
    BY <1>1, <1>2 DEF PastIndex

(* A write of a whole row goes past the index.                             *)
LEMMA UpdatePastIndex ==
    ASSUME TypeInv, NEW j \in Jobs, NEW row \in Row,
           jobs' = UpdateJob(jobs, j, row)
    PROVE  PastIndex
    BY UpdateRow DEF PastIndex

(* The worker's loop, with its failures.                                   *)
LEMMA LoopKeys ==
    ASSUME TypeInv, NEW w \in Workers, LoopStep(w) \/ LoopFault(w)
    PROVE  PastIndex
<1>1. jobs \in [Jobs -> Row]
    BY DEF TypeInv, TypeOK
<1>2. CASE Claim(w)
    BY <1>1, <1>2 DEF Claim, ClaimJobs, PastIndex, Row
<1>3. CASE Save(w)
    <2>1. Job(w) \in Jobs /\ Copy(w) \in Row
        BY <1>3, AtJob DEF Save, Up
    <2> QED
        BY <1>3, <2>1, UpdatePastIndex DEF Save
<1>4. CASE Release(w)
    BY <1>1, <1>4 DEF Release, ReleaseJobClaim, PastIndex, Row
<1>5. CASE Fetch(w) \/ LoopFault(w)
    BY <1>5 DEF Fetch, LoopFault, FetchFails, SaveFails, ReleaseFails, PastIndex
<1> QED
    BY <1>2, <1>3, <1>4, <1>5 DEF LoopStep

(* Clients, the pruner and the clock.                                      *)
LEMMA ClientKeys ==
    ASSUME TypeInv, ClientStep \/ \E j \in Jobs : Prune(j) \/ TimePasses(j)
    PROVE  PastIndex
<1>1. jobs \in [Jobs -> Row]
    BY DEF TypeInv, TypeOK
<1>2. ASSUME UNCHANGED jobs
      PROVE  PastIndex
    BY <1>2 DEF PastIndex
<1>3. ASSUME NEW j \in Jobs, Insert(j)
      PROVE  PastIndex
    <2>1. /\ jobs' = [jobs EXCEPT ![j] = Accepted(j)]
          /\ IndexAllows(jobs, j, Accepted(j))
        BY <1>3 DEF Insert, CreateJob, CanInsert
    <2> QED
        BY <1>1, <2>1 DEF PastIndex
<1>4. ASSUME NEW j \in Jobs, QueueForSubmit(j)
      PROVE  PastIndex
    <2> DEFINE row == [Accepted(j) EXCEPT !.run = "due", !.state = "submit_pending"]
    <2>1. row \in Row
        BY AcceptedRow
    <2>2. jobs' = UpdateJob(jobs, j, row)
        BY <1>4 DEF QueueForSubmit
    <2> HIDE DEF row
    <2> QED
        BY <2>1, <2>2, UpdatePastIndex
<1>5. ASSUME NEW d \in Deletes, DeleteWrite(d)
      PROVE  PastIndex
    <2>1. djob[d] \in Jobs /\ ToRemove(drow[d]) \in Row
        BY <1>5, RowTypes DEF DeleteWrite, TypeInv, TypeOK, DeleteAtHand
    <2> QED
        BY <1>5, <2>1, UpdatePastIndex DEF DeleteWrite
<1>6. ASSUME NEW j \in Jobs, Prune(j)
      PROVE  PastIndex
    <2>1. NoRow.state \notin ActiveStates
        BY DEF NoRow, ActiveStates, JobStates
    <2> QED
        BY <1>1, <1>6, <2>1 DEF Prune, DeleteRow, PastIndex
<1>7. ASSUME NEW j \in Jobs, TimePasses(j)
      PROVE  PastIndex
    BY <1>1, <1>7 DEF TimePasses, PastIndex, Row
<1> QED
    BY <1>2, <1>3, <1>4, <1>5, <1>6, <1>7
    DEF ClientStep, SubmitStep, SavePayload, FindDuplicate, FindNone,
        InsertRejected, RequestDies, DeleteRead

(* Every step brings rows into an active state past the index only.        *)
LEMMA StepKeys ==
    ASSUME TypeInv, [Next]_vars
    PROVE  PastIndex
<1>1. jobs \in [Jobs -> Row] /\ pending \in SUBSET Jobs
    BY DEF TypeInv, TypeOK
<1>2. CASE \E w \in Workers : LoopStep(w) \/ LoopFault(w)
    BY <1>2, LoopKeys
<1>3. CASE \E w \in Workers : Working(w)
    <2>1. PICK w \in Workers : Working(w)
        BY <1>3
    <2>2. Job(w) \in Jobs
        BY <2>1, AtJob DEF Working
    <2>3. CASE jobs'[Job(w)] = jobs[Job(w)]
        BY <2>1, <2>3 DEF Working, OwnRowOnly, PastIndex
    <2> QED
        BY <2>1, <2>2, <2>3 DEF Working, OwnRowOnly, PastIndex
<1>4. CASE ClientStep \/ \E j \in Jobs : Prune(j) \/ TimePasses(j)
    BY <1>4, ClientKeys
<1>5. CASE Reconcile
    <2>1. CASE jobs' = jobs
        BY <2>1 DEF PastIndex
    <2> QED
        BY <1>1, <1>5, <2>1, ReconcileWrites, UpdatePastIndex
<1>6. CASE Restart
    BY <1>1, <1>6 DEF Restart, ReleaseAllClaims, PastIndex, Row
<1>7. CASE Crash \/ Start \/ UNCHANGED vars
    BY <1>7 DEF Crash, Start, vars, PastIndex
<1> QED
    BY <1>2, <1>3, <1>4, <1>5, <1>6, <1>7, ProcessWorks
    DEF Next, WorkerStep, WorkerFault, StartupStep

(* The keys stay apart.                                                    *)
LEMMA KeyInvHolds == Spec => []KeyInv
<1>1. Init => KeyInv
    BY DEF Init, KeyInv, NoRow, ActiveStates, JobStates
<1>2. TypeInv /\ KeyInv /\ [Next]_vars => KeyInv'
    BY StepKeys, KeysApart
<1> QED
    BY <1>1, <1>2, TypeInvHolds, PTL DEF Spec
=============================================================================
