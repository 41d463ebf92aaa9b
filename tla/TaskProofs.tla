------------------------------ MODULE TaskProofs ----------------------------
(***************************************************************************)
(* How many remote tasks a job may get.  createtask is not idempotent, so  *)
(* what bounds the tasks of a job is that its row leaves the submitter's   *)
(* states after one answer, and never comes back to them.                  *)
(***************************************************************************)
EXTENDS LifecycleProofs

(***************************************************************************)
(* The invariant.                                                          *)
(***************************************************************************)
trouble == crashes + hiccups + faults

(* The submitter has an answer for j that it is about to write.            *)
Launched(j) ==
    /\ pc["submitter"] = "save"
    /\ j = Job("submitter")
    /\ Copy("submitter").state \notin Handles("submitter")

(* The row says, and will go on saying, that j has still to be submitted.  *)
Unsubmitted(j) ==
    /\ req[j] # "done" \/ jobs[j].state \in Handles("submitter")
    /\ ~ Launched(j)

TaskInv ==
    \A j \in Jobs :
        /\ tasks[j] <= 1 + trouble
        /\ Unsubmitted(j) => tasks[j] <= trouble

(***************************************************************************)
(* Steps that submit nothing.                                              *)
(***************************************************************************)
(* What a step makes of the counters.                                      *)
Counting ==
    /\ crashes' \in {crashes, crashes + 1}
    /\ hiccups' \in {hiccups, hiccups + 1}
    /\ faults' \in {faults, faults + 1}

(* No job is put back before its submission.                               *)
NoneBack == \A j \in Jobs : Unsubmitted(j)' => Unsubmitted(j)

(* The arithmetic of three counters of which each stays or grows by one.   *)
LEMMA Sums ==
    ASSUME NEW c \in Nat, NEW h \in Nat, NEW f \in Nat,
           NEW d \in {c, c + 1}, NEW i \in {h, h + 1}, NEW g \in {f, f + 1}
    PROVE  /\ c + h + f \in Nat /\ d + i + g \in Nat
           /\ d + i + g >= c + h + f
           /\ i = h + 1 => d + i + g >= c + h + f + 1
           /\ g = f + 1 => d + i + g >= c + h + f + 1
           /\ d = c + 1 => d + i + g >= c + h + f + 1
    OBVIOUS

(* Trouble only grows.                                                     *)
LEMMA MoreTrouble ==
    ASSUME TypeInv, Counting
    PROVE  /\ trouble \in Nat /\ trouble' \in Nat /\ trouble' >= trouble
           /\ hiccups' = hiccups + 1 => trouble' >= trouble + 1
           /\ faults' = faults + 1 => trouble' >= trouble + 1
           /\ crashes' = crashes + 1 => trouble' >= trouble + 1
<1>1. crashes \in Nat /\ hiccups \in Nat /\ faults \in Nat
    BY DEF TypeInv, TypeOK
<1>2. /\ crashes' \in {crashes, crashes + 1}
      /\ hiccups' \in {hiccups, hiccups + 1}
      /\ faults' \in {faults, faults + 1}
    BY DEF Counting
<1>3. PICK d, i, g : d = crashes' /\ i = hiccups' /\ g = faults'
    OBVIOUS
<1>4. d \in {crashes, crashes + 1} /\ i \in {hiccups, hiccups + 1}
      /\ g \in {faults, faults + 1}
    BY <1>2, <1>3
<1>5. trouble = crashes + hiccups + faults /\ trouble' = d + i + g
    BY <1>3 DEF trouble
<1>6. /\ crashes + hiccups + faults \in Nat /\ d + i + g \in Nat
      /\ d + i + g >= crashes + hiccups + faults
      /\ i = hiccups + 1 => d + i + g >= crashes + hiccups + faults + 1
      /\ g = faults + 1 => d + i + g >= crashes + hiccups + faults + 1
      /\ d = crashes + 1 => d + i + g >= crashes + hiccups + faults + 1
    BY <1>1, <1>4, Sums
<1> QED
    BY <1>3, <1>5, <1>6

(* Such a step keeps the bound.                                            *)
LEMMA NothingSubmitted ==
    ASSUME TypeInv, TaskInv, Counting, UNCHANGED tasks, NoneBack
    PROVE  TaskInv'
<1>1. trouble \in Nat /\ trouble' \in Nat /\ trouble' >= trouble
    BY MoreTrouble
<1>2. \A j \in Jobs : tasks'[j] = tasks[j] /\ tasks[j] \in Nat
    BY DEF TypeInv, TypeOK
<1> HIDE DEF trouble
<1> QED
    BY <1>1, <1>2 DEF TaskInv, NoneBack

(* A step that puts no job back, because requests do not start again and   *)
(* no state becomes one of the submitter's.                                *)
LEMMA StillOut ==
    ASSUME \A j \in Jobs : req[j] = "done" => req'[j] = "done",
           \A j \in Jobs : jobs'[j].state \in Handles("submitter") =>
                              \/ req[j] # "done"
                              \/ jobs[j].state \in Handles("submitter"),
           \A j \in Jobs : Launched(j) => Launched(j)'
    PROVE  NoneBack
    BY DEF NoneBack, Unsubmitted

(* The other workers count no task.                                        *)
LEMMA OthersCount ==
    ASSUME \/ PollerStep \/ PollerFault \/ DownloaderStep \/ DownloaderFault
           \/ FinalizerStep \/ FinalizerFault \/ RemoverStep \/ RemoverFault
    PROVE  Counting /\ UNCHANGED tasks
<1>1. CASE PollerStep \/ PollerFault
    BY <1>1
    DEF PollerStep, PollerFault, PollActive, PollQueued, PollMidWrite,
        PollMidWriteRejected, PollMidWriteFails, PollFind, PollRecover,
        PollApplyReady, PollApplyFailed, PollApplyRunning, PollAgain,
        RemoteFailed, Turn, FoundActive, PollerFrame, world, outside,
        Hiccup, Fault, Counting
<1>2. CASE DownloaderStep
    BY <1>2
    DEF DownloaderStep, Prepare, LinksError, NoAssets, GetDownloadLinks,
        Register, RegisterDone, RegisterRejected, RequestOk,
        RequestBeyondEnd, Request404, Request5xx, RequestError, MarkSkipped,
        Mark, MarkRejected, StreamEnd, StreamShort, StreamBroken, Recorded,
        Commit, CommitShort, CommitRejected, Finish, Leave, Abandon, MarkError, DownloaderFrame,
        outside, Hiccup, Fault, Counting
<1>3. CASE DownloaderFault
    BY <1>3
    DEF DownloaderFault, PrepareFails, RegisterFails, MarkFails, CommitFails,
        FinishFails, Abandon, MarkError, DownloaderFrame, outside, Fault,
        Counting
<1>4. CASE FinalizerStep \/ FinalizerFault
    BY <1>4
    DEF FinalizerStep, FinalizerFault, Verify, VerifyFails, PromoteOk,
        PromoteFails, PromoteFault, PromoteError, world, outside, Fault,
        Counting
<1>5. CASE RemoverStep \/ RemoverFault
    BY <1>5
    DEF RemoverStep, RemoverFault, RemoveCompletedPath, RemoveStagingPath,
        RemovePayload, RemoveFails, RemoverFrame, world, outside, Fault,
        Counting
<1> QED
    BY <1>1, <1>2, <1>3, <1>4, <1>5

(* Nor do they put a job back: they leave it in a state of their own.      *)
LEMMA OthersSubmitNothing ==
    ASSUME TypeInv, OwnInv, NEW w \in Workers \ {"submitter"}, Working(w)
    PROVE  NoneBack
<1>1. /\ UNCHANGED << todo, req >>
      /\ pc'["submitter"] = pc["submitter"]
      /\ snap'["submitter"] = snap["submitter"]
    BY DEF Working, Apart, Workers
<1>2. \A j \in Jobs : Launched(j) => Launched(j)'
    BY <1>1 DEF Launched, Copy, Job
<1>3. \A j \in Jobs : jobs'[j] = jobs[j] \/ jobs'[j].state \in Handles(w)
    BY DEF Working, OwnRowOnly, OwnInv
<1>4. Handles(w) \cap Handles("submitter") = {}
    BY HandlesApart DEF Workers
<1> QED
    BY <1>1, <1>2, <1>3, <1>4, StillOut

(***************************************************************************)
(* The submitter.                                                          *)
(***************************************************************************)
(* An answer may leave a task behind.  If another attempt follows, it was  *)
(* a hiccup; if none does, the answer is about to be written.              *)
LEMMA SubmitterSubmits ==
    ASSUME TypeInv, OwnInv, TaskInv, SubmitterStep,
           NEW j \in Jobs, j = Job("submitter")
    PROVE  TaskInv'
<1> DEFINE w == "submitter"
           c == Copy(w)
<1>1. Working(w) /\ w \in Workers /\ pc[w] = "work"
    BY SubmitterWorks
    DEF SubmitterStep, SubmitActive, SubmitQueued, SubmitRetryable,
        SubmitPermanent, Submitting, Up, Workers
<1>2. j \in Jobs /\ c \in Row /\ jobs[j].state \in Handles(w)
    <2>1. j \in todo[w] /\ j \in Jobs /\ c \in Row
        BY <1>1, AtJob
    <2> QED
        BY <1>1, <2>1 DEF OwnInv, Owned, Holds
<1>3. UNCHANGED << jobs, req, crashes, faults >> /\ Job(w)' = j
    BY DEF SubmitterStep, SubmitActive, SubmitQueued, SubmitRetryable,
           SubmitPermanent, Answered, outside, Job
<1>4. Unsubmitted(j)
    BY <1>1, <1>2 DEF Unsubmitted, Launched
<1>5. /\ trouble \in Nat /\ tasks[j] \in Nat /\ tasks[j] <= trouble
      /\ tasks \in [Jobs -> Nat]
    BY <1>2, <1>4, MoreTrouble DEF TypeInv, TypeOK, TaskInv, trouble
<1>6. tasks' = tasks \/ tasks' = [tasks EXCEPT ![j] = @ + 1]
    BY DEF SubmitterStep, SubmitActive, SubmitQueued, SubmitRetryable,
           SubmitPermanent, TaskCreated
<1>7. \/ hiccups' = hiccups + 1
      \/ /\ hiccups' = hiccups
         /\ Launched(j)'
    <2>1. ASSUME NEW row, Answered(row), row.state \notin Handles(w)
          PROVE  Launched(j)'
        <3>1. SetCopy(w, row) /\ Goto(w, "save") /\ UNCHANGED todo
            BY <2>1 DEF Answered, WriteBack
        <3>2. Copy(w)' = row /\ pc'[w] = "save"
            BY <1>1, <3>1, CopyAfter, GotoFrame
        <3> QED
            BY <1>3, <2>1, <3>2 DEF Launched
    <2>2. /\ \A q \in BOOLEAN :
                /\ [Created(c) EXCEPT !.queued = q].state = "remote_active"
                /\ Queued(c, q).state = "remote_queued"
          /\ Rejected(c).state = "remote_failed"
        BY <1>2 DEF Created, Queued, Rejected, Row
    <2> HIDE DEF c
    <2>3. CASE SubmitRetryable
        BY <2>3 DEF SubmitRetryable, Hiccup
    <2>4. CASE SubmitActive
        <3>1. PICK q \in BOOLEAN : Answered([Created(c) EXCEPT !.queued = q])
            BY <2>4 DEF SubmitActive, c
        <3>2. [Created(c) EXCEPT !.queued = q].state \notin Handles(w)
            BY <2>2 DEF Handles
        <3>3. Launched(j)'
            BY <2>1, <3>1, <3>2
        <3> QED
            BY <2>4, <3>3 DEF SubmitActive
    <2>5. CASE SubmitQueued
        <3>1. PICK q \in BOOLEAN : Answered(Queued(c, q))
            BY <2>5 DEF SubmitQueued, c
        <3>2. Queued(c, q).state \notin Handles(w)
            BY <2>2 DEF Handles
        <3>3. Launched(j)'
            BY <2>1, <3>1, <3>2
        <3> QED
            BY <2>5, <3>3 DEF SubmitQueued
    <2>6. CASE SubmitPermanent
        BY <2>1, <2>2, <2>6 DEF SubmitPermanent, Handles, c
    <2> QED
        BY <2>3, <2>4, <2>5, <2>6 DEF SubmitterStep
<1>8. /\ trouble' \in Nat /\ trouble' >= trouble
      /\ hiccups' = hiccups + 1 => trouble' >= trouble + 1
    BY <1>3, <1>7, MoreTrouble DEF Counting
<1>9. tasks'[j] <= trouble + 1 /\ \A k \in Jobs \ {j} : tasks'[k] = tasks[k]
    BY <1>2, <1>5, <1>6
<1>10. \A k \in Jobs \ {j} : Unsubmitted(k)' => Unsubmitted(k)
    BY <1>1, <1>3 DEF Unsubmitted, Launched
<1>11. /\ tasks'[j] \in Nat
       /\ tasks'[j] <= 1 + trouble'
       /\ Unsubmitted(j)' => tasks'[j] <= trouble'
    <2>1. tasks'[j] \in Nat
        BY <1>2, <1>5, <1>6
    <2>2. Unsubmitted(j)' => hiccups' = hiccups + 1
        BY <1>7 DEF Unsubmitted
    <2> HIDE DEF trouble
    <2> QED
        BY <1>5, <1>8, <1>9, <2>1, <2>2
<1>12. ASSUME NEW k \in Jobs \ {j}
       PROVE  /\ tasks'[k] <= 1 + trouble'
              /\ Unsubmitted(k)' => tasks'[k] <= trouble'
    <2>1. /\ tasks'[k] = tasks[k] /\ tasks[k] \in Nat
          /\ tasks[k] <= 1 + trouble
          /\ Unsubmitted(k) => tasks[k] <= trouble
        BY <1>5, <1>9 DEF TaskInv
    <2> HIDE DEF trouble
    <2> QED
        BY <1>5, <1>8, <1>10, <2>1
<1> QED
    BY <1>11, <1>12 DEF TaskInv

(***************************************************************************)
(* The loop.                                                               *)
(***************************************************************************)
(* The submitter's row is the only active one of its key, and it is there: *)
(* its write is not rejected.                                              *)
LEMMA SubmitterSaves ==
    ASSUME TypeInv, OwnInv, KeyInv, Save("submitter")
    PROVE  jobs'[Job("submitter")].state = Copy("submitter").state
<1> DEFINE w == "submitter"
           j == Job(w)
<1>1. w \in Workers /\ pc[w] = "save"
    BY DEF Save, Up, Workers
<1>2. j \in Jobs /\ Copy(w) \in Row /\ jobs[j].state \in Handles(w)
    <2>1. j \in todo[w] /\ j \in Jobs /\ Copy(w) \in Row
        BY <1>1, AtJob
    <2> QED
        BY <1>1, <2>1 DEF OwnInv, Owned, Holds
<1>3. jobs[j].state \in ActiveStates /\ Exists(jobs, j)
    BY <1>2 DEF Handles, ActiveStates, JobStates, ClosedStates, Exists
<1>4. KeyFree(jobs, j)
    BY <1>2, <1>3 DEF KeyInv, KeyFree, FindActiveBySubmissionKey
<1>5. jobs' = [jobs EXCEPT ![j] = [Copy(w) EXCEPT !.claim = NoWorker]]
    BY <1>3, <1>4 DEF Save, UpdateJob, CanUpdate, IndexAllows
<1> QED
    BY <1>2, <1>5 DEF Row, TypeInv, TypeOK

(* A write that fails is counted; any other step of the loop puts no job   *)
(* back.                                                                   *)
LEMMA LoopSubmits ==
    ASSUME TypeInv, OwnInv, CopyInv, KeyInv, TaskInv,
           NEW w \in Workers, LoopStep(w) \/ LoopFault(w)
    PROVE  TaskInv'
<1>1. UNCHANGED << tasks, req >> /\ Counting
    BY DEF LoopStep, LoopFault, Claim, Fetch, Save, Release, FetchFails,
           SaveFails, ReleaseFails, Fault, Counting, world, outside
<1>2. /\ trouble \in Nat /\ trouble' \in Nat /\ trouble' >= trouble
      /\ faults' = faults + 1 => trouble' >= trouble + 1
    BY <1>1, MoreTrouble
<1>3. jobs \in [Jobs -> Row] /\ pc \in [Workers -> Labels] /\ tasks \in [Jobs -> Nat]
      /\ todo \in [Workers -> SUBSET Jobs] /\ "submitter" \in Workers
    BY DEF TypeInv, TypeOK, Workers
<1>4. CASE SaveFails(w)
    <2>1. faults' = faults + 1
        BY <1>4 DEF SaveFails, Fault
    <2> HIDE DEF trouble
    <2> QED
        BY <1>1, <1>2, <1>3, <2>1 DEF TaskInv
<1>5. ASSUME \A j \in Jobs : jobs'[j].state = jobs[j].state,
             pc[w] # "save"
      PROVE  NoneBack
    <2>1. w # "submitter" => /\ pc'["submitter"] = pc["submitter"]
                             /\ todo'["submitter"] = todo["submitter"]
                             /\ snap'["submitter"] = snap["submitter"]
        BY <1>3 DEF LoopStep, LoopFault, Claim, Fetch, Save, Release,
                    FetchFails, SaveFails, ReleaseFails, NextJob, Goto,
                    TypeInv, TypeOK
    <2>2. \A j \in Jobs : Launched(j) => Launched(j)'
        BY <1>5, <2>1 DEF Launched, Copy, Job
    <2> QED
        BY <1>1, <1>5, <2>2, StillOut
<1>6. CASE Claim(w) \/ Fetch(w) \/ Release(w) \/ FetchFails(w) \/ ReleaseFails(w)
    <2>1. pc[w] # "save"
        BY <1>6 DEF Claim, Fetch, Release, FetchFails, ReleaseFails, Up
    <2>2. \A j \in Jobs : jobs'[j].state = jobs[j].state
        BY <1>3, <1>6 DEF Claim, ClaimJobs, Fetch, Release, FetchFails,
                          ReleaseFails, ReleaseJobClaim, Row
    <2> QED
        BY <1>1, <1>5, <2>1, <2>2, NothingSubmitted
<1>7. CASE Save(w)
    <2> DEFINE j == Job(w)
               s == jobs[j].state
               t == Copy(w).state
    <2>1. /\ j \in Jobs /\ s \in Handles(w)
          /\ s = t \/ << s, t >> \in Lifecycle!Edges
          /\ \A k \in Jobs \ {j} : jobs'[k] = jobs[k]
          /\ jobs'[j].state = s \/ jobs'[j].state = t
        <3>1. pc[w] = "save"
            BY <1>7 DEF Save, Up
        <3>2. j \in todo[w] /\ j \in Jobs /\ Copy(w) \in Row
            BY <3>1, AtJob
        <3>3. s \in Handles(w)
            BY <3>1, <3>2 DEF OwnInv, Owned, Holds
        <3>4. s = t \/ << s, t >> \in Lifecycle!Edges
            BY <3>1 DEF CopyInv, AtHand, Follows
        <3> QED
            BY <1>7, <3>2, <3>3, <3>4, UpdateRow DEF Save
    <2>2. pc' = [pc EXCEPT ![w] = "release"] /\ UNCHANGED << todo, snap >>
        BY <1>7 DEF Save, Goto
    <2>3. t \in Handles("submitter") => s \in Handles("submitter")
        BY <2>1, HandlesApart DEF Handles, Workers, Lifecycle!Edges
    <2>4. CASE w # "submitter"
        <3>1. \A k \in Jobs : Launched(k) => Launched(k)'
            BY <1>3, <2>2, <2>4 DEF Launched, Copy, Job
        <3>2. \A k \in Jobs : jobs'[k].state \in Handles("submitter") =>
                                  jobs[k].state \in Handles("submitter")
            BY <2>1, <2>3
        <3> QED
            BY <1>1, <3>1, <3>2, StillOut, NothingSubmitted
    <2>5. CASE w = "submitter"
        <3>1. jobs'[j].state = t
            BY <1>7, <2>5, SubmitterSaves
        <3>2. ASSUME NEW k \in Jobs, Unsubmitted(k)'
              PROVE  Unsubmitted(k)
            <4>1. CASE k # j
                BY <1>1, <2>1, <2>5, <3>2, <4>1 DEF Unsubmitted, Launched
            <4>2. CASE k = j
                <5>1. s \notin {"absent", "accepted"} /\ req[j] = "done"
                    <6>1. s \notin {"absent", "accepted"}
                        BY <2>1, <2>5 DEF Handles
                    <6> QED
                        BY <2>1, <6>1 DEF OwnInv, Requests, ReqStates, TypeInv, TypeOK
                <5>2. t \in Handles("submitter")
                    BY <1>1, <3>1, <3>2, <4>2, <5>1 DEF Unsubmitted
                <5> QED
                    BY <2>1, <2>5, <4>2, <5>2 DEF Unsubmitted, Launched
            <4> QED
                BY <4>1, <4>2
        <3> QED
            BY <1>1, <3>2, NothingSubmitted DEF NoneBack
    <2> QED
        BY <2>4, <2>5
<1> QED
    BY <1>4, <1>6, <1>7 DEF LoopStep, LoopFault

(***************************************************************************)
(* Clients, crashes and startup.                                           *)
(***************************************************************************)
(* Only the request of a job that was not submitted yet puts it up for     *)
(* submission.                                                             *)
LEMMA ClientsSubmitNothing ==
    ASSUME TypeInv, OwnInv, TaskInv,
           ClientStep \/ \E j \in Jobs : Prune(j) \/ TimePasses(j)
    PROVE  TaskInv'
<1>1. UNCHANGED << tasks, pc, todo, snap >> /\ Counting
    BY DEF ClientStep, SubmitStep, SavePayload, FindDuplicate, FindNone,
           Insert, InsertRejected, QueueForSubmit, RequestDies, Submitted,
           ApiFrame, DeleteRead, DeleteWrite, DeleteFrame, Prune, TimePasses,
           world, outside, Fault, Counting
<1>2. \A j \in Jobs : Launched(j) => Launched(j)'
    BY <1>1 DEF Launched, Copy, Job
<1>3. jobs \in [Jobs -> Row] /\ req \in [Jobs -> ReqStates]
    BY DEF TypeInv, TypeOK
<1>4. \A j \in Jobs : req[j] = "done" => req'[j] = "done"
    BY <1>3 DEF ClientStep, SubmitStep, SavePayload, FindDuplicate, FindNone,
                Insert, InsertRejected, QueueForSubmit, RequestDies, Step,
                Submitted, DeleteRead, DeleteWrite, DeleteFrame, Prune,
                TimePasses, outside
<1>5. ASSUME \A j \in Jobs :
                jobs'[j].state \in Handles("submitter") =>
                    req[j] # "done" \/ jobs[j].state \in Handles("submitter")
      PROVE  TaskInv'
    BY <1>1, <1>2, <1>4, <1>5, StillOut, NothingSubmitted
<1>6. CASE UNCHANGED jobs
    BY <1>5, <1>6
<1>7. ASSUME NEW j \in Jobs, Insert(j) \/ QueueForSubmit(j)
      PROVE  TaskInv'
    <2>1. req[j] # "done" /\ \A k \in Jobs \ {j} : jobs'[k] = jobs[k]
        BY <1>3, <1>7 DEF Insert, QueueForSubmit, Step, CreateJob, UpdateJob
    <2> QED
        BY <1>5, <2>1
<1>8. ASSUME NEW d \in Deletes, DeleteWrite(d)
      PROVE  TaskInv'
    <2>1. djob[d] \in Jobs /\ ToRemove(drow[d]) \in Row
        BY <1>8, RowTypes DEF DeleteWrite, TypeInv, TypeOK, DeleteAtHand
    <2>2. ToRemove(drow[d]).state = "remove_pending"
        BY <1>8 DEF ToRemove, TypeInv, TypeOK, Row
    <2>3. jobs' = UpdateJob(jobs, djob[d], ToRemove(drow[d]))
        BY <1>8 DEF DeleteWrite
    <2>4. \A j \in Jobs : jobs'[j].state \in {jobs[j].state, "remove_pending"}
        BY <2>1, <2>2, <2>3, UpdateRow
    <2> QED
        BY <1>5, <2>4 DEF Handles
<1>9. ASSUME NEW j \in Jobs, Prune(j) \/ TimePasses(j)
      PROVE  TaskInv'
    <2>1. \A k \in Jobs : jobs'[k].state \in {jobs[k].state, "absent"}
        BY <1>3, <1>9 DEF Prune, DeleteRow, NoRow, TimePasses, Row
    <2> QED
        BY <1>5, <2>1 DEF Handles
<1> QED
    BY <1>6, <1>7, <1>8, <1>9
    DEF ClientStep, SubmitStep, SavePayload, FindDuplicate, FindNone,
        InsertRejected, RequestDies, DeleteRead

(* A crash may lose an answer, and is counted; startup takes no job back   *)
(* into the submitter's states.                                            *)
LEMMA StartupSubmitsNothing ==
    ASSUME TypeInv, OwnInv, CopyInv, TaskInv, Crash \/ StartupStep
    PROVE  TaskInv'
<1>1. UNCHANGED tasks /\ Counting
    BY DEF Crash, StartupStep, Restart, Reconcile, Start, StartupFrame, world,
           Fault, Counting
<1>2. /\ trouble \in Nat /\ trouble' \in Nat /\ trouble' >= trouble
      /\ crashes' = crashes + 1 => trouble' >= trouble + 1
      /\ tasks \in [Jobs -> Nat] /\ jobs \in [Jobs -> Row]
    BY <1>1, MoreTrouble DEF TypeInv, TypeOK
<1>3. CASE Crash
    <2>1. crashes' = crashes + 1
        BY <1>3 DEF Crash
    <2> QED
        BY <1>1, <1>2, <2>1 DEF TaskInv
<1>4. CASE StartupStep
    <2>1. UNCHANGED << req, pc, todo, snap >>
        BY <1>4 DEF StartupStep, Restart, Reconcile, Start, StartupFrame
    <2>2. \A j \in Jobs : Launched(j) => Launched(j)'
        BY <2>1 DEF Launched, Copy, Job
    <2>3. \A j \in Jobs : jobs'[j].state \in Handles("submitter") =>
                              jobs[j].state \in Handles("submitter")
        <3>1. CASE Restart
            BY <1>2, <3>1 DEF Restart, ReleaseAllClaims, Row
        <3>2. CASE Start
            BY <3>2 DEF Start
        <3>3. CASE Reconcile
            <4>1. PICK j \in pending :
                     /\ Reconciled(j) \in Row
                     /\ jobs' = jobs \/ jobs' = UpdateJob(jobs, j, Reconciled(j))
                BY <3>3, ReconcileWrites
            <4>2. j \in Jobs /\ jobs[j] \in Row
                BY <1>2 DEF TypeInv, TypeOK
            <4>3. \A row \in Row :
                     /\ [row EXCEPT !.staging = TRUE] \in Row
                     /\ [row EXCEPT !.staging = TRUE].state = row.state
                     /\ [row EXCEPT !.state = "completed"].state = "completed"
                     /\ [row EXCEPT !.run = "due", !.state = "local_verify"].state =
                           "local_verify"
                     /\ [row EXCEPT !.run = "due"].state = row.state
                BY DEF Row
            <4>4. Reconciled(j).state \in {jobs[j].state, "completed", "local_verify"}
                BY <4>2, <4>3 DEF Reconciled
            <4> QED
                BY <4>1, <4>2, <4>4, UpdateRow DEF Handles
        <3> QED
            BY <1>4, <3>1, <3>2, <3>3 DEF StartupStep
    <2> QED
        BY <1>1, <2>1, <2>2, <2>3, StillOut, NothingSubmitted
<1> QED
    BY <1>3, <1>4

(***************************************************************************)
(* The theorem.                                                            *)
(***************************************************************************)
(* Every step keeps the bound.                                             *)
LEMMA TaskInvStep ==
    ASSUME TypeInv, OwnInv, CopyInv, KeyInv, TaskInv, [Next]_vars
    PROVE  TaskInv'
<1>1. CASE SubmitterStep
    <2>1. Job("submitter") \in Jobs
        <3>1. "submitter" \in Workers /\ pc["submitter"] = "work"
            BY <1>1 DEF SubmitterStep, SubmitActive, SubmitQueued,
                        SubmitRetryable, SubmitPermanent, Submitting, Up, Workers
        <3> QED
            BY <3>1, AtJob
    <2> QED
        BY <1>1, <2>1, SubmitterSubmits
<1>2. ASSUME \/ PollerStep \/ PollerFault \/ DownloaderStep \/ DownloaderFault
             \/ FinalizerStep \/ FinalizerFault \/ RemoverStep \/ RemoverFault
      PROVE  TaskInv'
    <2>1. \/ Working("poller") \/ Working("downloader")
          \/ Working("finalizer") \/ Working("remover")
        BY <1>2, PollerWorks, DownloaderWorks, FinalizerWorks, RemoverWorks
    <2>2. NoneBack
        BY <2>1, OthersSubmitNothing DEF Workers
    <2> QED
        BY <1>2, <2>2, OthersCount, NothingSubmitted
<1>3. CASE \E w \in Workers : LoopStep(w) \/ LoopFault(w)
    BY <1>3, LoopSubmits
<1>4. CASE ClientStep \/ \E j \in Jobs : Prune(j) \/ TimePasses(j)
    BY <1>4, ClientsSubmitNothing
<1>5. CASE Crash \/ StartupStep
    BY <1>5, StartupSubmitsNothing
<1>6. CASE UNCHANGED vars
    BY <1>6 DEF vars, TaskInv, trouble, Unsubmitted, Launched, Copy, Job
<1> QED
    BY <1>1, <1>2, <1>3, <1>4, <1>5, <1>6
    DEF Next, WorkerStep, WorkerFault, ProcessStep

(* A job gets one remote task, and one more for each crash, transient      *)
(* answer or failed statement at most, for any numbers of jobs, files,     *)
(* requests and failures: createtask is not repeated in the ordinary       *)
(* course of events (submit.go, processSubmitJob).                         *)
THEOREM TasksBounded ==
    ASSUME DeleteWhen \subseteq Ended
    PROVE  Spec => []RemoteTaskBound
<1>1. Init => TaskInv
    <2> SUFFICES ASSUME Init, NEW j \in Jobs
                 PROVE  tasks[j] <= 1 + trouble /\ tasks[j] <= trouble
        BY DEF TaskInv
    <2> QED
        BY DEF Init, trouble
<1>2. TypeInv /\ OwnInv /\ CopyInv /\ KeyInv /\ TaskInv /\ [Next]_vars => TaskInv'
    BY TaskInvStep
<1>3. TypeInv /\ TaskInv => RemoteTaskBound
    <2> SUFFICES ASSUME TypeInv, TaskInv, NEW j \in Jobs
                 PROVE  tasks[j] <= 1 + crashes + hiccups + faults
        BY DEF RemoteTaskBound
    <2>1. crashes \in Nat /\ hiccups \in Nat /\ faults \in Nat /\ tasks[j] \in Nat
        BY DEF TypeInv, TypeOK
    <2>2. tasks[j] <= 1 + (crashes + hiccups + faults)
        BY DEF TaskInv, trouble
    <2> QED
        BY <2>1, <2>2
<1> QED
    BY <1>1, <1>2, <1>3, TypeInvHolds, OwnInvHolds, CopyInvHolds, KeyInvHolds, PTL
    DEF Spec
=============================================================================
