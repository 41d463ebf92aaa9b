--------------------------- MODULE PipelineProofs ---------------------------
(***************************************************************************)
(* Theorems about Pipeline for any sets of jobs, assets and delete         *)
(* requests and any bounds.                                                *)
(***************************************************************************)
EXTENDS Pipeline, WellFoundedInduction, TLAPS

(***************************************************************************)
(* Lemmas about the operators of JobStore and WorkerLoop.                  *)
(***************************************************************************)

(* First picks the least: batches and parts are worked through in order.   *)
LEMMA FirstElement ==
    ASSUME NEW S \in SUBSET Nat, S # {}
    PROVE  First(S) \in S /\ \A n \in S : First(S) <= n
<1> DEFINE R == OpToRel(<, Nat)
<1>1. IsWellFoundedOn(R, Nat)
    BY NatLessThanWellFounded
<1>2. \A x, y \in Nat : x < y => << x, y >> \in R
    BY DEF OpToRel
<1> HIDE DEF R
<1>3. PICK n \in S : \A m \in S : ~ (<< m, n >> \in R)
    BY <1>1, WFMin
<1>4. ASSUME NEW m \in S
      PROVE  n <= m
    <2>1. m \in Nat /\ n \in Nat
        OBVIOUS
    <2>2. ~ (m < n)
        BY <1>2, <1>3, <2>1, Zenon
    <2> QED
        BY <2>1, <2>2
<1> QED
    BY <1>3, <1>4 DEF First

(* UpdateJob replaces one row, or none, and leaves its claim empty.        *)
LEMMA UpdateJobType ==
    ASSUME NEW tab \in [Jobs -> Row], NEW j \in Jobs, NEW row \in Row
    PROVE  /\ UpdateJob(tab, j, row) \in [Jobs -> Row]
           /\ \A k \in Jobs \ {j} : UpdateJob(tab, j, row)[k] = tab[k]
           /\ \/ UpdateJob(tab, j, row) = tab
              \/ /\ Exists(tab, j)
                 /\ UpdateJob(tab, j, row)[j] = [row EXCEPT !.claim = NoWorker]
<1>1. [row EXCEPT !.claim = NoWorker] \in Row
    BY DEF Row, NoWorker
<1> QED
    BY <1>1 DEF UpdateJob, CanUpdate

(* The row of a job that is not in the table.                              *)
LEMMA NoRowType == NoRow \in Row
    BY DEF NoRow, Row, RunAt, NoWorker

(* Claiming or releasing a row leaves a row.                               *)
LEMMA ClaimType ==
    ASSUME NEW row \in Row, NEW c \in Workers \cup {NoWorker}
    PROVE  [row EXCEPT !.claim = c] \in Row
    BY DEF Row

(* What the workers and handlers make of a row is a row.                   *)
LEMMA RowTypes ==
    ASSUME NEW row \in Row
    PROVE  /\ \A q \in BOOLEAN :
                 /\ [Created(row) EXCEPT !.queued = q] \in Row
                 /\ Queued(row, q) \in Row
           /\ Retried(row) \in Row
           /\ Rejected(row) \in Row
           /\ Later(row) \in Row
           /\ Ready(row) \in Row
           /\ TryAgain(row) \in Row
           /\ ToRemove(row) \in Row
           /\ \A r \in Nat : [row EXCEPT !.retry = r] \in Row
           /\ \A r \in RunAt : [row EXCEPT !.run = r] \in Row
           /\ [row EXCEPT !.staging = TRUE] \in Row
           /\ \A st \in JobStates : [row EXCEPT !.state = st] \in Row
           /\ \A st \in JobStates, r \in RunAt :
                 [row EXCEPT !.run = r, !.state = st] \in Row
<1> USE DEF Row, RunAt
<1>7. \A r \in Nat : [row EXCEPT !.retry = r] \in Row
    OBVIOUS
<1>10. \A r \in RunAt : [row EXCEPT !.run = r] \in Row
    OBVIOUS
<1>11. [row EXCEPT !.staging = TRUE] \in Row
    OBVIOUS
<1>8. \A st \in JobStates : [row EXCEPT !.state = st] \in Row
    OBVIOUS
<1>9. \A st \in JobStates, r \in RunAt : [row EXCEPT !.run = r, !.state = st] \in Row
    OBVIOUS
<1> USE DEF JobStates
<1>1. \A q \in BOOLEAN : [Created(row) EXCEPT !.queued = q] \in Row
    BY DEF Created
<1>2. \A q \in BOOLEAN : Queued(row, q) \in Row
    BY DEF Queued
<1>3. Retried(row) \in Row
    <2>1. row.retry + 1 \in Nat
        OBVIOUS
    <2> QED
        BY <2>1 DEF Retried
<1>4. Rejected(row) \in Row /\ Later(row) \in Row /\ Ready(row) \in Row
    BY DEF Rejected, Later, Ready
<1>5. TryAgain(row) \in Row
    BY DEF TryAgain, Later
<1>6. ToRemove(row) \in Row
    BY DEF ToRemove
<1> HIDE DEF Row, RunAt, JobStates
<1> QED
    BY <1>1, <1>2, <1>3, <1>4, <1>5, <1>6, <1>7, <1>8, <1>9,
       <1>10, <1>11

(* What they make of a job's files are a job's files.                      *)
LEMMA FilesTypes ==
    ASSUME NEW d \in Files
    PROVE  /\ RemoveStaging(d) \in Files
           /\ Promoted(d) \in Files
           /\ [d EXCEPT !.staging = TRUE] \in Files
           /\ \A p \in BOOLEAN : [d EXCEPT !.payload = p] \in Files
           /\ \A row \in Row : RemoveFinal(d, row) \in Files
           /\ \A a \in Assets : Opened(d, a) \in Files /\ Filled(d, a) \in Files
<1> USE DEF Files, FileStates
<1>1. RemoveStaging(d) \in Files
    BY DEF RemoveStaging, NoFile
<1>2. Promoted(d) \in Files
    BY <1>1 DEF Promoted
<1>3. \A p \in BOOLEAN : [d EXCEPT !.payload = p] \in Files
    OBVIOUS
<1>4. \A row \in Row : RemoveFinal(d, row) \in Files
    BY DEF RemoveFinal
<1>5. [d EXCEPT !.staging = TRUE] \in Files
    OBVIOUS
<1>6. ASSUME NEW a \in Assets
      PROVE  Opened(d, a) \in Files /\ Filled(d, a) \in Files
    <2>1. \A f \in FileStates : [d.file EXCEPT ![a] = f] \in [Assets -> FileStates]
        OBVIOUS
    <2>2. \A g \in [Assets -> FileStates] :
             /\ [d EXCEPT !.file = g] \in Files
             /\ [d EXCEPT !.staging = TRUE, !.file = g] \in Files
        OBVIOUS
    <2>3. /\ Opened(d, a) =
                [d EXCEPT !.staging = TRUE, !.file = [d.file EXCEPT ![a] = "partial"]]
          /\ [d EXCEPT !.file[a] = "full"] =
                [d EXCEPT !.file = [d.file EXCEPT ![a] = "full"]]
        BY DEF Opened
    <2> QED
        BY <2>1, <2>2, <2>3 DEF Filled
<1> QED
    BY <1>1, <1>2, <1>3, <1>4, <1>5, <1>6

(***************************************************************************)
(* Type correctness.  TypeOK is not inductive alone: a worker that is not  *)
(* idle must have a job to be at, the downloader's inner labels a part,    *)
(* and a delete request that has read a row its job.                       *)
(***************************************************************************)
Busy == \A w \in Workers : pc[w] # "idle" => todo[w] # {}

PartAtHand ==
    pc["downloader"] \in {"mark", "stream", "last", "commit"} => left # {}

DeleteAtHand == \A d \in Deletes : dreq[d] = "read" => djob[d] \in Jobs

TypeInv == TypeOK /\ Busy /\ PartAtHand /\ DeleteAtHand

(* The job a worker is at is one of its batch, and its copy is a row.      *)
LEMMA AtJob ==
    ASSUME TypeInv, NEW w \in Workers, pc[w] # "idle"
    PROVE  Job(w) \in todo[w] /\ Job(w) \in Jobs /\ Copy(w) \in Row
<1>1. todo[w] \in SUBSET Nat /\ todo[w] # {} /\ todo[w] \subseteq Jobs
    BY JobsAssumption DEF TypeInv, TypeOK, Busy
<1>2. Job(w) \in todo[w]
    BY <1>1, FirstElement DEF Job
<1> QED
    BY <1>1, <1>2 DEF Copy, TypeInv, TypeOK

(* The part the downloader's loop is at is one of those it has left.       *)
LEMMA AtPart ==
    ASSUME TypeInv, left # {}
    PROVE  Part \in left /\ Part \in Assets
<1>1. left \in SUBSET Nat
    BY LoopAssumption DEF TypeInv, TypeOK
<1> QED
    BY <1>1, FirstElement DEF Part, TypeInv, TypeOK

(* The two ways a worker moves on without touching a table.                *)
LEMMA WriteBackType ==
    ASSUME TypeInv, NEW w \in Workers, pc[w] # "idle", NEW row \in Row,
           WriteBack(w, row)
    PROVE  /\ snap' \in [Workers -> [Jobs -> Row]]
           /\ pc' \in [Workers -> Labels]
           /\ \A v \in Workers : pc'[v] # "idle" => pc[v] # "idle"
           /\ pc'[w] = "save"
           /\ \A v \in Workers \ {w} : pc'[v] = pc[v]
<1>1. Job(w) \in Jobs
    BY AtJob
<1> QED
    BY <1>1 DEF WriteBack, SetCopy, Goto, TypeInv, TypeOK, Labels

(* A worker that moves on is at a label, and the others stay.              *)
LEMMA GotoType ==
    ASSUME TypeInv, NEW w \in Workers, NEW label \in Labels, Goto(w, label)
    PROVE  /\ pc' \in [Workers -> Labels]
           /\ pc'[w] = label
           /\ \A v \in Workers \ {w} : pc'[v] = pc[v]
    BY DEF Goto, TypeInv, TypeOK

(* A worker that changes its copy leaves copies that are rows.             *)
LEMMA SetCopyType ==
    ASSUME TypeInv, NEW w \in Workers, pc[w] # "idle", NEW row \in Row,
           SetCopy(w, row)
    PROVE  snap' \in [Workers -> [Jobs -> Row]]
<1>1. Job(w) \in Jobs
    BY AtJob
<1> QED
    BY <1>1 DEF SetCopy, TypeInv, TypeOK

(* A step of a busy worker that keeps its batch: what is left to show.     *)
LEMMA WorkType ==
    ASSUME TypeInv, NEW w \in Workers, pc[w] # "idle",
           UNCHANGED << outside, todo >>,
           jobs' \in [Jobs -> Row],
           parts' \in [Jobs -> [Assets -> PartStates]],
           disk' \in [Jobs -> Files],
           tasks' \in [Jobs -> Nat],
           snap' \in [Workers -> [Jobs -> Row]],
           left' \in SUBSET Assets,
           Hiccup \/ UNCHANGED hiccups,
           Fault \/ UNCHANGED faults,
           pc' \in [Workers -> Labels],
           \A v \in Workers \ {w} : pc'[v] = pc[v],
           PartAtHand'
    PROVE  TypeInv'
<1>1. hiccups' \in Nat /\ faults' \in Nat
    BY DEF Hiccup, Fault, TypeInv, TypeOK
<1>2. TypeOK'
    BY <1>1 DEF outside, TypeInv, TypeOK
<1>3. Busy'
    BY DEF outside, TypeInv, Busy
<1>4. DeleteAtHand'
    BY DEF outside, TypeInv, DeleteAtHand
<1> QED
    BY <1>2, <1>3, <1>4 DEF TypeInv

(* The loop every worker shares.                                           *)
LEMMA LoopType ==
    ASSUME TypeInv, NEW w \in Workers, LoopStep(w) \/ LoopFault(w)
    PROVE  TypeInv'
<1> USE DEF world, outside
<1>1. CASE Claim(w)
    <2> DEFINE batch == DueBatch(jobs, Handles(w))
    <2>1. batch \in SUBSET Jobs /\ batch # {}
        BY <1>1 DEF Claim, DueBatch, DueJobs
    <2> HIDE DEF batch
    <2>2. jobs' \in [Jobs -> Row]
        <3>1. \A j \in Jobs : [jobs[j] EXCEPT !.claim = w] \in Row
            BY ClaimType DEF TypeInv, TypeOK
        <3> QED
            BY <1>1, <3>1 DEF Claim, ClaimJobs, TypeInv, TypeOK, batch
    <2>3. todo' = [todo EXCEPT ![w] = batch] /\ Goto(w, "fetch")
        BY <1>1 DEF Claim, batch
    <2>4. pc' = [pc EXCEPT ![w] = "fetch"] /\ "fetch" \in Labels
        BY <2>3 DEF Goto, Labels
    <2> QED
        BY <1>1, <2>1, <2>2, <2>3, <2>4
        DEF Claim, TypeInv, TypeOK, Busy, PartAtHand, DeleteAtHand
<1>2. CASE Fetch(w)
    <2> DEFINE found == { j \in todo[w] : Exists(jobs, j) }
    <2>1. found \in SUBSET Jobs
        BY DEF TypeInv, TypeOK
    <2>2. \A j \in Jobs : [jobs[j] EXCEPT !.claim = NoWorker] \in Row
        BY ClaimType DEF TypeInv, TypeOK
    <2> HIDE DEF found
    <2>3. snap' \in [Workers -> [Jobs -> Row]]
        BY <1>2, <2>1, <2>2, NoRowType DEF Fetch, TypeInv, TypeOK, found
    <2>4. /\ todo' = [todo EXCEPT ![w] = found]
          /\ pc' = [pc EXCEPT ![w] = IF found = {} THEN "idle" ELSE "work"]
        BY <1>2 DEF Fetch, Goto, found
    <2>5. {"idle", "work"} \subseteq Labels
        BY DEF Labels
    <2>6. UNCHANGED << jobs, parts, disk, tasks, mode, pending, req, dreq,
                       djob, drow, crashes, left, hiccups, faults >>
        BY <1>2 DEF Fetch
    <2> QED
        BY <2>1, <2>3, <2>4, <2>5, <2>6
        DEF TypeInv, TypeOK, Busy, PartAtHand, DeleteAtHand
<1>3. CASE FetchFails(w)
    BY <1>3 DEF FetchFails, Goto, Labels, Fault, TypeInv, TypeOK, Busy,
                PartAtHand, DeleteAtHand
<1>4. CASE Save(w)
    <2>1. pc[w] # "idle"
        BY <1>4 DEF Save, Up
    <2>2. jobs' \in [Jobs -> Row]
        BY <1>4, <2>1, AtJob, UpdateJobType DEF Save, TypeInv, TypeOK
    <2> QED
        BY <1>4, <2>1, <2>2
        DEF Save, Goto, Labels, TypeInv, TypeOK, Busy, PartAtHand, DeleteAtHand
<1>5. CASE SaveFails(w)
    BY <1>5 DEF SaveFails, Up, Goto, Labels, Fault, TypeInv, TypeOK, Busy,
                PartAtHand, DeleteAtHand
<1>6. ASSUME pc[w] # "idle", NextJob(w)
      PROVE  /\ todo' \in [Workers -> SUBSET Jobs]
             /\ snap' \in [Workers -> [Jobs -> Row]]
             /\ left' \in SUBSET Assets
             /\ pc' \in [Workers -> Labels]
             /\ Busy' /\ PartAtHand'
    <2>1. Job(w) \in Jobs
        BY <1>6, AtJob
    <2>2. {"idle", "work"} \subseteq Labels
        BY DEF Labels
    <2> QED
        BY <1>6, <2>1, <2>2, NoRowType
        DEF NextJob, Goto, TypeInv, TypeOK, Busy, PartAtHand
<1>7. CASE Release(w)
    <2>1. pc[w] # "idle" /\ NextJob(w)
        BY <1>7 DEF Release, Up
    <2>2. jobs' \in [Jobs -> Row]
        <3>1. \A j \in Jobs : [jobs[j] EXCEPT !.claim = NoWorker] \in Row
            BY ClaimType DEF TypeInv, TypeOK
        <3> QED
            BY <1>7, <2>1, <3>1, AtJob
            DEF Release, ReleaseJobClaim, TypeInv, TypeOK
    <2> QED
        BY <1>6, <1>7, <2>1, <2>2 DEF Release, TypeInv, TypeOK, DeleteAtHand
<1>8. CASE ReleaseFails(w)
    <2>1. pc[w] # "idle" /\ NextJob(w)
        BY <1>8 DEF ReleaseFails, Up
    <2> QED
        BY <1>6, <1>8, <2>1 DEF ReleaseFails, Fault, TypeInv, TypeOK, DeleteAtHand
<1> QED
    BY <1>1, <1>2, <1>3, <1>4, <1>5, <1>7, <1>8 DEF LoopStep, LoopFault

(* The submitter.                                                          *)
LEMMA SubmitterType ==
    ASSUME TypeInv, SubmitterStep
    PROVE  TypeInv'
<1> DEFINE w == "submitter"
<1>1. w \in Workers /\ pc[w] = "work"
    BY DEF SubmitterStep, SubmitActive, SubmitQueued, SubmitRetryable,
           SubmitPermanent, Submitting, Up, Workers
<1>2. Job(w) \in Jobs /\ Copy(w) \in Row
    BY <1>1, AtJob
<1>3. /\ \E row \in Row : Answered(row)
      /\ TaskCreated \/ UNCHANGED tasks
      /\ Hiccup \/ UNCHANGED hiccups
    BY <1>2, RowTypes
    DEF SubmitterStep, SubmitActive, SubmitQueued, SubmitRetryable,
        SubmitPermanent
<1>4. tasks' \in [Jobs -> Nat]
    <2>1. tasks \in [Jobs -> Nat]
        BY DEF TypeInv, TypeOK
    <2>2. tasks' = tasks \/ tasks' = [tasks EXCEPT ![Job(w)] = @ + 1]
        BY <1>3 DEF TaskCreated
    <2> HIDE DEF w
    <2> QED
        BY <1>2, <2>1, <2>2
<1>5. PICK row \in Row : Answered(row)
    BY <1>3
<1>6. /\ snap' \in [Workers -> [Jobs -> Row]]
      /\ pc' \in [Workers -> Labels]
      /\ \A v \in Workers \ {w} : pc'[v] = pc[v]
    BY <1>1, <1>5, WriteBackType DEF Answered
<1>7. /\ UNCHANGED << outside, todo, faults, left >>
      /\ jobs' \in [Jobs -> Row]
      /\ parts' \in [Jobs -> [Assets -> PartStates]]
      /\ disk' \in [Jobs -> Files]
      /\ left' \in SUBSET Assets
    BY <1>5 DEF Answered, TypeInv, TypeOK
<1>8. PartAtHand'
    BY <1>6, <1>7 DEF TypeInv, PartAtHand, Workers
<1> QED
    BY <1>1, <1>3, <1>4, <1>6, <1>7, <1>8, WorkType

(* The poller.                                                             *)
LEMMA PollerType ==
    ASSUME TypeInv, PollerStep \/ PollerFault
    PROVE  TypeInv'
<1> DEFINE w == "poller"
<1>1. w \in Workers /\ pc[w] # "idle"
    BY DEF PollerStep, PollerFault, PollActive, PollQueued, PollMidWrite,
           PollMidWriteRejected, PollMidWriteFails, PollFind, PollRecover,
           PollApplyReady, PollApplyFailed, PollApplyRunning, Polling, Up,
           Workers
<1>2. Job(w) \in Jobs /\ Copy(w) \in Row /\ PolledJob = Copy(w)
    BY <1>1, AtJob DEF PolledJob
<1>0. ASSUME PollerFrame, \A v \in Workers \ {w} : pc'[v] = pc[v]
      PROVE  /\ UNCHANGED << outside, todo >>
             /\ parts' \in [Jobs -> [Assets -> PartStates]]
             /\ disk' \in [Jobs -> Files]
             /\ tasks' \in [Jobs -> Nat]
             /\ left' \in SUBSET Assets
             /\ PartAtHand'
    <2>1. pc'["downloader"] = pc["downloader"]
        BY <1>0 DEF Workers
    <2> QED
        BY <1>0, <2>1 DEF PollerFrame, world, TypeInv, TypeOK, PartAtHand
<1>3. ASSUME NEW row \in Row, WriteBack(w, row), PollerFrame, UNCHANGED faults,
             UNCHANGED jobs, Hiccup \/ UNCHANGED hiccups
      PROVE  TypeInv'
    <2>1. /\ snap' \in [Workers -> [Jobs -> Row]]
          /\ pc' \in [Workers -> Labels]
          /\ \A v \in Workers \ {w} : pc'[v] = pc[v]
        BY <1>1, <1>3, WriteBackType
    <2>2. jobs' \in [Jobs -> Row]
        BY <1>3 DEF TypeInv, TypeOK
    <2> QED
        BY <1>0, <1>1, <1>3, <2>1, <2>2, WorkType
<1>4. ASSUME NEW label \in Labels, Goto(w, label), PollerFrame,
             snap' \in [Workers -> [Jobs -> Row]], jobs' \in [Jobs -> Row],
             Fault \/ UNCHANGED faults, Hiccup \/ UNCHANGED hiccups
      PROVE  TypeInv'
    <2>1. /\ pc' \in [Workers -> Labels]
          /\ \A v \in Workers \ {w} : pc'[v] = pc[v]
        BY <1>1, <1>4, GotoType
    <2> QED
        BY <1>0, <1>1, <1>4, <2>1, WorkType
<1>5. snap \in [Workers -> [Jobs -> Row]] /\ jobs \in [Jobs -> Row]
    BY DEF TypeInv, TypeOK
<1>6. CASE PollAgain
    BY <1>2, <1>3, <1>6, RowTypes DEF PollAgain
<1>7. CASE RemoteFailed
    <2>1. [PolledJob EXCEPT !.run = "nil", !.state = "remote_failed"] \in Row
        BY <1>2, RowTypes DEF Rejected
    <2> QED
        BY <1>3, <1>7, <2>1 DEF RemoteFailed
<1>8. CASE \E label \in {"apply", "recover"} : Turn(label)
    BY <1>4, <1>5, <1>8 DEF Turn, Labels
<1>9. CASE \E label \in {"promote", "apply", "adopt"} : FoundActive(label)
    <2>1. [PolledJob EXCEPT !.remote = TRUE, !.state = "remote_active"] \in Row
        BY <1>2 DEF Row, JobStates
    <2>2. snap' \in [Workers -> [Jobs -> Row]]
        BY <1>1, <1>9, <2>1, SetCopyType DEF FoundActive
    <2> QED
        BY <1>4, <1>5, <1>9, <2>2 DEF FoundActive, Labels
<1>10. UpdateJob(jobs, Job(w), PolledJob) \in [Jobs -> Row]
    BY <1>2, <1>5, UpdateJobType
<1>11. CASE PollMidWrite
    BY <1>4, <1>5, <1>10, <1>11 DEF PollMidWrite, Labels
<1>12. CASE PollMidWriteRejected \/ PollMidWriteFails
    BY <1>4, <1>5, <1>10, <1>12
    DEF PollMidWriteRejected, PollMidWriteFails, GiveUp, Labels
<1>13. CASE PollApplyReady
    BY <1>2, <1>3, <1>13, RowTypes DEF PollApplyReady
<1>14. CASE PollFind
    BY <1>4, <1>5, <1>6, <1>8, <1>14 DEF PollFind, GiveUp, Labels
<1> QED
    BY <1>6, <1>7, <1>8, <1>9, <1>11, <1>12, <1>13, <1>14
    DEF PollerStep, PollerFault, PollActive, PollQueued, PollRecover,
        PollApplyFailed, PollApplyRunning

(* The finalizer.                                                          *)
LEMMA FinalizerType ==
    ASSUME TypeInv, FinalizerStep \/ FinalizerFault
    PROVE  TypeInv'
<1> DEFINE w == "finalizer"
<1>1. w \in Workers /\ pc[w] # "idle"
    BY DEF FinalizerStep, FinalizerFault, Verify, VerifyFails, PromoteOk,
           PromoteFails, PromoteFault, Finalizing, Up, Workers
<1>2. Job(w) \in Jobs /\ Copy(w) \in Row
    BY <1>1, AtJob
<1> DEFINE Frame == UNCHANGED << jobs, parts, tasks, outside, todo, left, hiccups >>
<1>3. ASSUME Frame, disk' \in [Jobs -> Files], Fault \/ UNCHANGED faults,
             \/ \E row \in Row : WriteBack(w, row)
             \/ UNCHANGED snap /\ \E label \in {"rename", "release"} : Goto(w, label)
      PROVE  TypeInv'
    <2>1. /\ snap' \in [Workers -> [Jobs -> Row]]
          /\ pc' \in [Workers -> Labels]
          /\ \A v \in Workers \ {w} : pc'[v] = pc[v]
        <3>1. CASE \E row \in Row : WriteBack(w, row)
            BY <1>1, <3>1, WriteBackType
        <3>2. CASE UNCHANGED snap /\ \E label \in {"rename", "release"} : Goto(w, label)
            BY <1>1, <3>2, GotoType DEF Labels, TypeInv, TypeOK
        <3> QED
            BY <1>3, <3>1, <3>2
    <2>2. pc'["downloader"] = pc["downloader"]
        BY <2>1 DEF Workers
    <2>3. /\ jobs' \in [Jobs -> Row]
          /\ parts' \in [Jobs -> [Assets -> PartStates]]
          /\ tasks' \in [Jobs -> Nat]
          /\ left' \in SUBSET Assets
          /\ PartAtHand'
        BY <1>3, <2>2 DEF TypeInv, TypeOK, PartAtHand
    <2> QED
        BY <1>1, <1>3, <2>1, <2>3, WorkType
<1>4. disk \in [Jobs -> Files]
    BY DEF TypeInv, TypeOK
<1>5. CASE Verify
    <2>1. /\ [Copy(w) EXCEPT !.state = "failed"] \in Row
          /\ [Copy(w) EXCEPT !.run = "later", !.state = "local_downloading"] \in Row
        BY <1>2, RowTypes DEF JobStates, RunAt
    <2>2. Frame /\ UNCHANGED << disk, faults >>
        BY <1>5 DEF Verify, world
    <2>3. \/ \E row \in Row : WriteBack(w, row)
          \/ UNCHANGED snap /\ Goto(w, "rename")
        BY <1>5, <2>1 DEF Verify
    <2> QED
        BY <1>3, <1>4, <2>2, <2>3
<1>6. CASE VerifyFails
    BY <1>3, <1>4, <1>6 DEF VerifyFails, GiveUp, world
<1>7. CASE PromoteOk
    <2>1. [Copy(w) EXCEPT !.completed = TRUE, !.run = "nil",
                          !.state = "completed"] \in Row
        BY <1>2 DEF Row, RunAt, JobStates
    <2>2. disk' \in [Jobs -> Files]
        BY <1>2, <1>4, <1>7, FilesTypes DEF PromoteOk
    <2>3. Frame /\ UNCHANGED faults /\ \E row \in Row : WriteBack(w, row)
        BY <1>7, <2>1 DEF PromoteOk
    <2> QED
        BY <1>3, <2>2, <2>3
<1>8. CASE PromoteFails \/ PromoteFault
    <2>1. [Copy(w) EXCEPT !.state = "failed"] \in Row
        BY <1>2, RowTypes DEF JobStates
    <2>2. /\ Frame /\ UNCHANGED disk
          /\ \E row \in Row : WriteBack(w, row)
          /\ Fault \/ UNCHANGED faults
        BY <1>8, <2>1 DEF PromoteFails, PromoteFault, PromoteError, world
    <2> QED
        BY <1>3, <1>4, <2>2
<1> QED
    BY <1>5, <1>6, <1>7, <1>8 DEF FinalizerStep, FinalizerFault

(* The remover.                                                            *)
LEMMA RemoverType ==
    ASSUME TypeInv, RemoverStep \/ RemoverFault
    PROVE  TypeInv'
<1> DEFINE w == "remover"
<1>1. w \in Workers /\ pc[w] # "idle"
    BY DEF RemoverStep, RemoverFault, RemoveCompletedPath, RemoveStagingPath,
           RemovePayload, RemoveFails, Removing, Up, Workers
<1>2. Job(w) \in Jobs /\ Copy(w) \in Row
    BY <1>1, AtJob
<1>3. /\ jobs \in [Jobs -> Row]
      /\ disk \in [Jobs -> Files]
      /\ snap \in [Workers -> [Jobs -> Row]]
    BY DEF TypeInv, TypeOK
<1>4. ASSUME UNCHANGED << jobs, parts, tasks, outside, todo, left, hiccups >>,
             disk' \in [Jobs -> Files], Fault \/ UNCHANGED faults,
             snap' \in [Workers -> [Jobs -> Row]],
             \E label \in {"rmstaging", "rmpayload", "save", "release"} :
                Goto(w, label)
      PROVE  TypeInv'
    <2>1. /\ pc' \in [Workers -> Labels]
          /\ \A v \in Workers \ {w} : pc'[v] = pc[v]
        BY <1>1, <1>4, GotoType DEF Labels
    <2>2. pc'["downloader"] = pc["downloader"]
        BY <2>1 DEF Workers
    <2>3. /\ jobs' \in [Jobs -> Row]
          /\ parts' \in [Jobs -> [Assets -> PartStates]]
          /\ tasks' \in [Jobs -> Nat]
          /\ left' \in SUBSET Assets
          /\ PartAtHand'
        BY <1>4, <2>2 DEF TypeInv, TypeOK, PartAtHand
    <2> QED
        BY <1>1, <1>4, <2>1, <2>3, WorkType
<1>5. CASE RemoveCompletedPath
    <2>1. [Copy(w) EXCEPT !.completed = FALSE] \in Row
        BY <1>2 DEF Row
    <2>2. snap' \in [Workers -> [Jobs -> Row]]
        BY <1>1, <1>5, <2>1, SetCopyType DEF RemoveCompletedPath
    <2>3. disk' \in [Jobs -> Files]
        BY <1>2, <1>3, <1>5, FilesTypes DEF RemoveCompletedPath
    <2> QED
        BY <1>4, <1>5, <2>2, <2>3 DEF RemoveCompletedPath, RemoverFrame
<1>6. CASE RemoveStagingPath
    <2>1. [Copy(w) EXCEPT !.staging = FALSE] \in Row
        BY <1>2 DEF Row
    <2>2. snap' \in [Workers -> [Jobs -> Row]]
        BY <1>1, <1>6, <2>1, SetCopyType DEF RemoveStagingPath
    <2>3. disk' \in [Jobs -> Files]
        BY <1>2, <1>3, <1>6, FilesTypes DEF RemoveStagingPath
    <2> QED
        BY <1>4, <1>6, <2>2, <2>3 DEF RemoveStagingPath, RemoverFrame
<1>7. CASE RemovePayload
    <2>1. [Copy(w) EXCEPT !.payload = FALSE, !.run = "nil",
                          !.state = "removed"] \in Row
        BY <1>2 DEF Row, RunAt, JobStates
    <2>2. snap' \in [Workers -> [Jobs -> Row]] /\ Goto(w, "save")
        BY <1>1, <1>7, <2>1, SetCopyType DEF RemovePayload, WriteBack
    <2>3. disk' \in [Jobs -> Files]
        <3>1. disk' = [disk EXCEPT ![Job(w)] =
                 [disk[Job(w)] EXCEPT !.payload =
                    disk[Job(w)].payload /\ ~ Copy(w).payload]]
            BY <1>7 DEF RemovePayload
        <3>2. (disk[Job(w)].payload /\ ~ Copy(w).payload) \in BOOLEAN
            OBVIOUS
        <3> QED
            BY <1>2, <1>3, <3>1, <3>2, FilesTypes
    <2> QED
        BY <1>4, <1>7, <2>2, <2>3 DEF RemovePayload, RemoverFrame
<1>8. CASE RemoveFails
    BY <1>3, <1>4, <1>8 DEF RemoveFails, GiveUp, world
<1> QED
    BY <1>5, <1>6, <1>7, <1>8 DEF RemoverStep, RemoverFault

(* The downloader.  Its exits are Leave and Abandon; the steps that stay    *)
(* in the loop go to another label.                                        *)
LEMMA DownloaderType ==
    ASSUME TypeInv, DownloaderStep \/ DownloaderFault
    PROVE  TypeInv'
<1> DEFINE w == "downloader"
<1>1. w \in Workers /\ pc[w] # "idle"
    BY DEF DownloaderStep, DownloaderFault, Prepare, PrepareFails, LinksError,
           NoAssets, GetDownloadLinks, Register, RegisterDone,
           RegisterRejected, RegisterFails, RequestOk, RequestBeyondEnd,
           Request404, Request5xx, RequestError, MarkSkipped, Mark,
           MarkRejected, MarkFails, StreamEnd, StreamShort, StreamBroken,
           Recorded, Commit, CommitShort, CommitRejected, CommitFails,
           Finish, FinishFails, Marking, Fetching, Downloading, Up, Workers
<1>2. DlJob \in Jobs /\ DlCopy \in Row /\ DlJob = Job(w) /\ DlCopy = Copy(w)
    BY <1>1, AtJob DEF DlJob, DlCopy
<1>3. /\ jobs \in [Jobs -> Row]
      /\ parts \in [Jobs -> [Assets -> PartStates]]
      /\ disk \in [Jobs -> Files]
      /\ snap \in [Workers -> [Jobs -> Row]]
      /\ left \in SUBSET Assets
    BY DEF TypeInv, TypeOK
<1>4. left # {} => Part \in Assets
    BY AtPart
<1>5. ASSUME DownloaderFrame,
             jobs' \in [Jobs -> Row],
             parts' \in [Jobs -> [Assets -> PartStates]],
             disk' \in [Jobs -> Files],
             snap' \in [Workers -> [Jobs -> Row]],
             left' \in SUBSET Assets,
             Hiccup \/ UNCHANGED hiccups, Fault \/ UNCHANGED faults,
             NEW label \in Labels, Goto(w, label),
             label \in {"mark", "stream", "last", "commit"} => left' # {}
      PROVE  TypeInv'
    <2>1. /\ pc' \in [Workers -> Labels]
          /\ pc'[w] = label
          /\ \A v \in Workers \ {w} : pc'[v] = pc[v]
        BY <1>1, <1>5, GotoType
    <2>2. tasks' \in [Jobs -> Nat] /\ UNCHANGED << outside, todo >>
        BY <1>5 DEF DownloaderFrame, TypeInv, TypeOK
    <2>3. PartAtHand'
        BY <1>5, <2>1 DEF PartAtHand
    <2> QED
        BY <1>1, <1>5, <2>1, <2>2, <2>3, WorkType
<1>6. /\ {"links", "register", "loop", "mark", "stream", "last", "commit",
          "save", "release"} \subseteq Labels
      /\ {"save", "release", "loop", "links", "register"}
            \cap {"mark", "stream", "last", "commit"} = {}
      /\ AfterMark \in {"stream", "commit"}
    BY DEF Labels, AfterMark
<1>7. ASSUME NEW row \in Row, Leave(row), Hiccup \/ UNCHANGED hiccups
      PROVE  TypeInv'
    <2>1. snap' \in [Workers -> [Jobs -> Row]] /\ Goto(w, "save")
        BY <1>1, <1>7, SetCopyType DEF Leave, WriteBack
    <2> QED
        BY <1>3, <1>5, <1>6, <1>7, <2>1 DEF Leave
<1>8. ASSUME Abandon, disk' \in [Jobs -> Files], Fault \/ UNCHANGED faults
      PROVE  TypeInv'
    BY <1>3, <1>5, <1>6, <1>8 DEF Abandon, GiveUp
<1>9. /\ \A st \in JobStates : [DlCopy EXCEPT !.state = st] \in Row
      /\ TryAgain(DlCopy) \in Row
      /\ [DlCopy EXCEPT !.retry = 0] \in Row
      /\ TryAgain([DlCopy EXCEPT !.retry = 0]) \in Row
      /\ [DlCopy EXCEPT !.staging = TRUE] \in Row
    <2>1. [DlCopy EXCEPT !.retry = 0] \in Row
        BY <1>2, RowTypes
    <2>2. [DlCopy EXCEPT !.staging = TRUE] \in Row
        BY <1>2 DEF Row
    <2> QED
        BY <1>2, <2>1, <2>2, RowTypes
<1>10. disk' = [disk EXCEPT ![DlJob].staging = TRUE] => disk' \in [Jobs -> Files]
    BY <1>2, <1>3, FilesTypes
<1>11. CASE Prepare
    <2>1. snap' \in [Workers -> [Jobs -> Row]]
        BY <1>1, <1>9, <1>11, SetCopyType DEF Prepare
    <2>2. left' \in SUBSET Assets
        BY <1>11 DEF Prepare, Incomplete
    <2>3. disk' \in [Jobs -> Files]
        BY <1>10, <1>11 DEF Prepare
    <2> QED
        BY <1>3, <1>5, <1>6, <1>11, <2>1, <2>2, <2>3 DEF Prepare
<1>12. CASE PrepareFails
    BY <1>3, <1>8, <1>10, <1>12 DEF PrepareFails
<1>13. CASE LinksError
    BY <1>7, <1>9, <1>13 DEF LinksError
<1>14. CASE NoAssets
    BY <1>7, <1>9, <1>14 DEF NoAssets, JobStates
<1>15. CASE GetDownloadLinks
    BY <1>3, <1>5, <1>6, <1>15 DEF GetDownloadLinks
<1>16. CASE Register
    <2> DEFINE a == First(Unregistered(DlJob))
    <2>1. Unregistered(DlJob) \in SUBSET Nat /\ Unregistered(DlJob) # {}
        BY <1>16, LoopAssumption DEF Register, Unregistered
    <2>2. a \in Assets
        BY <2>1, FirstElement DEF Unregistered
    <2>3. parts' = [parts EXCEPT ![DlJob][a] = "registered"]
        BY <1>16 DEF Register
    <2> HIDE DEF a
    <2>4. parts' \in [Jobs -> [Assets -> PartStates]]
        BY <1>2, <1>3, <2>2, <2>3 DEF PartStates
    <2>5. UNCHANGED << jobs, disk, pc, snap, left, hiccups, faults, tasks,
                       outside, todo >>
        BY <1>16 DEF Register, DownloaderFrame
    <2>6. PartAtHand'
        BY <2>5 DEF TypeInv, PartAtHand
    <2>7. tasks' \in [Jobs -> Nat] /\ pc' \in [Workers -> Labels]
        BY <2>5 DEF TypeInv, TypeOK
    <2> QED
        BY <1>1, <1>3, <2>4, <2>5, <2>6, <2>7, WorkType
<1>17. CASE RegisterDone
    <2>1. left' \in SUBSET Assets
        BY <1>17 DEF RegisterDone, Incomplete
    <2> QED
        BY <1>3, <1>5, <1>6, <1>17, <2>1 DEF RegisterDone
<1>18. CASE RegisterRejected \/ RegisterFails \/ CommitRejected
            \/ CommitFails \/ FinishFails
    BY <1>3, <1>8, <1>18
    DEF RegisterRejected, RegisterFails, CommitRejected, CommitFails, FinishFails
<1>19. CASE RequestOk
    <2>1. left # {} /\ Part \in Assets
        BY <1>4, <1>19 DEF RequestOk, Fetching
    <2>2. disk' \in [Jobs -> Files]
        BY <1>2, <1>3, <1>19, <2>1, FilesTypes DEF RequestOk
    <2>3. \A r \in {DlCopy.retry, 0} : [DlCopy EXCEPT !.retry = r] \in Row
        <3>1. DlCopy.retry \in Nat
            BY <1>2 DEF Row
        <3> QED
            BY <1>2, <3>1, RowTypes
    <2>4. snap' \in [Workers -> [Jobs -> Row]]
        BY <1>1, <1>19, <2>3, SetCopyType DEF RequestOk
    <2> QED
        BY <1>3, <1>5, <1>6, <1>19, <2>1, <2>2, <2>4 DEF RequestOk
<1>20. CASE RequestBeyondEnd
    <2>1. left # {} /\ Part \in Assets
        BY <1>4, <1>20 DEF RequestBeyondEnd, Fetching
    <2>2. disk' \in [Jobs -> Files]
        <3>1. disk' \in { disk, [disk EXCEPT ![DlJob] = Filled(@, Part)] }
            BY <1>20 DEF RequestBeyondEnd
        <3>2. Filled(disk[DlJob], Part) \in Files
            BY <1>2, <1>3, <2>1, FilesTypes
        <3> QED
            BY <1>2, <1>3, <3>1, <3>2
    <2> QED
        BY <1>3, <1>5, <1>6, <1>20, <2>1, <2>2 DEF RequestBeyondEnd, Fetching
<1>21. CASE Request404
    <2>1. [DlCopy EXCEPT !.retry = 0, !.run = "nil", !.state = "failed"] \in Row
        BY <1>2 DEF Row, RunAt, JobStates
    <2> QED
        BY <1>7, <1>9, <1>21, <2>1 DEF Request404
<1>22. CASE Request5xx
    <2> DEFINE row == [DlCopy EXCEPT !.retry = @ + 1]
    <2>1. row \in Row
        <3>1. DlCopy.retry + 1 \in Nat
            BY <1>2 DEF Row
        <3> QED
            BY <1>2, <3>1, RowTypes
    <2>2. /\ Hiccup
          /\ \/ Leave([row EXCEPT !.run = "nil", !.state = "failed"])
             \/ Leave(TryAgain(row))
        BY <1>22 DEF Request5xx
    <2> HIDE DEF row
    <2>3. [row EXCEPT !.run = "nil", !.state = "failed"] \in Row
          /\ TryAgain(row) \in Row
        BY <2>1, RowTypes DEF RunAt, JobStates
    <2> QED
        BY <1>7, <2>2, <2>3
<1>23. CASE RequestError \/ StreamBroken
    BY <1>7, <1>9, <1>23 DEF RequestError, StreamBroken
<1>24. CASE MarkSkipped
    <2>1. left # {}
        BY <1>24 DEF MarkSkipped, Marking, Downloading, Up, TypeInv,
                     PartAtHand
    <2> QED
        BY <1>3, <1>5, <1>6, <1>24, <2>1 DEF MarkSkipped
<1>25. Marked(DlCopy) \in Row /\ [Marked(DlCopy) EXCEPT !.retry = 0] \in Row
    BY <1>9, RowTypes DEF Marked
<1>26. UpdateJob(jobs, DlJob, Marked(DlCopy)) \in [Jobs -> Row]
    BY <1>2, <1>3, <1>25, UpdateJobType
<1>27. CASE Mark
    <2>1. snap' \in [Workers -> [Jobs -> Row]]
        BY <1>1, <1>25, <1>27, SetCopyType DEF Mark
    <2>2. left # {}
        BY <1>27 DEF Mark, Marking, Downloading, Up, TypeInv, PartAtHand
    <2> QED
        BY <1>3, <1>5, <1>6, <1>26, <1>27, <2>1, <2>2 DEF Mark
<1>28. CASE MarkRejected \/ MarkFails
    <2>1. MarkError /\ (Fault \/ UNCHANGED faults) /\ jobs' \in [Jobs -> Row]
        BY <1>3, <1>26, <1>28 DEF MarkRejected, MarkFails
    <2>2. snap' \in [Workers -> [Jobs -> Row]] /\ Goto(w, "save")
        BY <1>1, <1>25, <2>1, SetCopyType DEF MarkError, WriteBack
    <2> QED
        BY <1>3, <1>5, <1>6, <2>1, <2>2 DEF MarkError
<1>29. CASE StreamEnd
    <2>1. left # {} /\ Part \in Assets
        BY <1>4, <1>29 DEF StreamEnd, Downloading, Up, TypeInv, PartAtHand
    <2>2. disk' \in [Jobs -> Files]
        BY <1>2, <1>3, <1>29, <2>1, FilesTypes DEF StreamEnd
    <2> QED
        BY <1>3, <1>5, <1>6, <1>29, <2>1, <2>2 DEF StreamEnd
<1>30. CASE StreamShort
    <2>1. left # {}
        BY <1>30 DEF StreamShort, Downloading, Up, TypeInv, PartAtHand
    <2> QED
        BY <1>3, <1>5, <1>6, <1>30, <2>1 DEF StreamShort
<1>31. CASE Commit \/ CommitShort
    <2>1. Part \in Assets
        BY <1>4, <1>31 DEF Commit, CommitShort, Downloading, Up, TypeInv,
                           PartAtHand
    <2>2. PICK completed \in BOOLEAN : Recorded(completed)
        BY <1>31 DEF Commit, CommitShort
    <2>3. parts' \in [Jobs -> [Assets -> PartStates]]
        BY <1>2, <1>3, <2>1, <2>2 DEF Recorded, PartStates
    <2>4. snap' \in [Workers -> [Jobs -> Row]]
        BY <1>1, <1>9, <2>2, SetCopyType DEF Recorded
    <2> QED
        BY <1>3, <1>5, <1>6, <2>2, <2>3, <2>4 DEF Recorded
<1>32. CASE Finish
    <2>1. [DlCopy EXCEPT !.run = "due", !.state = "local_verify"] \in Row
        BY <1>2, RowTypes DEF RunAt, JobStates
    <2> QED
        BY <1>7, <1>9, <1>32, <2>1 DEF Finish
<1> QED
    BY <1>11, <1>12, <1>13, <1>14, <1>15, <1>16, <1>17, <1>18, <1>19, <1>20,
       <1>21, <1>22, <1>23, <1>24, <1>27, <1>28, <1>29, <1>30, <1>31, <1>32
    DEF DownloaderStep, DownloaderFault

(* Clients, the pruner and the clock.                                      *)
LEMMA ClientType ==
    ASSUME TypeInv, ClientStep \/ \E j \in Jobs : Prune(j) \/ TimePasses(j)
    PROVE  TypeInv'
<1>1. /\ jobs \in [Jobs -> Row]
      /\ disk \in [Jobs -> Files]
      /\ req \in [Jobs -> ReqStates]
      /\ dreq \in [Deletes -> DeleteStates]
      /\ djob \in [Deletes -> Jobs \cup {NoJob}]
      /\ drow \in [Deletes -> Row]
      /\ parts \in [Jobs -> [Assets -> PartStates]]
    BY DEF TypeInv, TypeOK
<1>2. ASSUME jobs' \in [Jobs -> Row],
             disk' \in [Jobs -> Files],
             req' \in [Jobs -> ReqStates],
             UNCHANGED << dreq, djob, drow >>, Fault \/ UNCHANGED faults, ApiFrame
      PROVE  TypeInv'
    <2>1. faults' \in Nat
        BY <1>2 DEF Fault, TypeInv, TypeOK
    <2> QED
        BY <1>2, <2>1
        DEF ApiFrame, TypeInv, TypeOK, Busy, PartAtHand, DeleteAtHand
<1>3. \A j \in Jobs : Accepted(j) \in Row
    <2>1. ASSUME NEW p \in BOOLEAN
          PROVE  [NoRow EXCEPT !.state = "accepted", !.staging = TRUE,
                               !.payload = p] \in Row
        BY NoRowType DEF Row, JobStates
    <2>2. \A j \in Jobs : (j \in Uploads) \in BOOLEAN
        OBVIOUS
    <2> QED
        BY <2>1, <2>2, Zenon DEF Accepted
<1>4. \A j \in Jobs : [Accepted(j) EXCEPT !.run = "due",
                                        !.state = "submit_pending"] \in Row
    BY <1>3, RowTypes DEF RunAt, JobStates
<1>5. ASSUME NEW j \in Jobs, NEW to \in ReqStates,
             \E from \in ReqStates : Step(j, from, to)
      PROVE  req' \in [Jobs -> ReqStates]
    BY <1>1, <1>5 DEF Step
<1>6. {"none", "lookup", "insert", "queue", "done"} \subseteq ReqStates
    BY DEF ReqStates
<1>7. ASSUME NEW j \in Jobs, SavePayload(j) \/ SubmitStep(j) \/ RequestDies(j)
      PROVE  TypeInv'
    <2>1. req' \in [Jobs -> ReqStates]
        BY <1>5, <1>6, <1>7
        DEF SavePayload, SubmitStep, FindDuplicate, FindNone, Insert,
            InsertRejected, QueueForSubmit, RequestDies
    <2>2. \A p \in BOOLEAN : [disk EXCEPT ![j].payload = p] \in [Jobs -> Files]
        BY <1>1, FilesTypes
    <2>8. ASSUME SavePayload(j)
          PROVE  disk' \in [Jobs -> Files]
        <3>1. (j \in Uploads) \in BOOLEAN
            OBVIOUS
        <3>2. disk' = [disk EXCEPT ![j].payload = j \in Uploads]
            BY <2>8 DEF SavePayload
        <3> QED
            BY <2>2, <3>1, <3>2, Zenon
    <2>3. disk' \in [Jobs -> Files]
        BY <1>1, <1>7, <2>2, <2>8
        DEF SubmitStep, FindDuplicate, FindNone, Insert,
            InsertRejected, QueueForSubmit, RequestDies
    <2>4. CreateJob(jobs, j, Accepted(j)) \in [Jobs -> Row]
        BY <1>1, <1>3 DEF CreateJob
    <2>5. UpdateJob(jobs, j, [Accepted(j) EXCEPT !.run = "due",
                                 !.state = "submit_pending"]) \in [Jobs -> Row]
        BY <1>1, <1>4, UpdateJobType
    <2>6. jobs' \in [Jobs -> Row]
        BY <1>1, <1>7, <2>4, <2>5
        DEF SavePayload, SubmitStep, FindDuplicate, FindNone, Insert,
            InsertRejected, QueueForSubmit, RequestDies
    <2>7. Submitted(j) /\ (Fault \/ UNCHANGED faults)
        BY <1>7
        DEF SavePayload, SubmitStep, FindDuplicate, FindNone, Insert,
            InsertRejected, QueueForSubmit, RequestDies
    <2> QED
        BY <1>2, <2>1, <2>3, <2>6, <2>7 DEF Submitted
<1>8. ASSUME NEW d \in Deletes, NEW j \in Jobs, DeleteRead(d, j)
      PROVE  TypeInv'
    <2>1. [jobs[j] EXCEPT !.claim = NoWorker] \in Row
        BY <1>1, ClaimType
    <2>2. /\ drow' \in [Deletes -> Row]
          /\ djob' \in [Deletes -> Jobs \cup {NoJob}]
          /\ dreq' \in [Deletes -> DeleteStates]
        BY <1>1, <1>8, <2>1 DEF DeleteRead, DeleteStates
    <2>3. DeleteAtHand'
        BY <1>1, <1>8 DEF DeleteRead, TypeInv, DeleteAtHand
    <2> QED
        BY <1>8, <2>2, <2>3
        DEF DeleteRead, DeleteFrame, ApiFrame, TypeInv, TypeOK, Busy, PartAtHand
<1>9. ASSUME NEW d \in Deletes, DeleteWrite(d)
      PROVE  TypeInv'
    <2>1. djob[d] \in Jobs
        BY <1>9 DEF DeleteWrite, TypeInv, DeleteAtHand
    <2>2. ToRemove(drow[d]) \in Row
        BY <1>1, RowTypes
    <2>3. jobs' \in [Jobs -> Row]
        BY <1>1, <1>9, <2>1, <2>2, UpdateJobType DEF DeleteWrite
    <2>4. /\ drow' \in [Deletes -> Row]
          /\ djob' \in [Deletes -> Jobs \cup {NoJob}]
          /\ dreq' \in [Deletes -> DeleteStates]
        BY <1>1, <1>9, NoRowType DEF DeleteWrite, DeleteStates
    <2>5. DeleteAtHand'
        BY <1>1, <1>9 DEF DeleteWrite, TypeInv, DeleteAtHand
    <2> QED
        BY <1>9, <2>3, <2>4, <2>5
        DEF DeleteWrite, DeleteFrame, ApiFrame, TypeInv, TypeOK, Busy, PartAtHand
<1>10. ASSUME NEW j \in Jobs, Prune(j)
       PROVE  TypeInv'
    <2>1. jobs' \in [Jobs -> Row]
        BY <1>1, <1>10, NoRowType DEF Prune, DeleteRow
    <2>2. parts' \in [Jobs -> [Assets -> PartStates]]
        BY <1>1, <1>10 DEF Prune, NoParts, PartStates
    <2> QED
        BY <1>10, <2>1, <2>2
        DEF Prune, outside, TypeInv, TypeOK, Busy, PartAtHand, DeleteAtHand
<1>11. ASSUME NEW j \in Jobs, TimePasses(j)
       PROVE  TypeInv'
    <2>1. [jobs[j] EXCEPT !.run = "due"] \in Row
        BY <1>1, RowTypes DEF RunAt
    <2>2. jobs' \in [Jobs -> Row]
        BY <1>1, <1>11, <2>1 DEF TimePasses
    <2> QED
        BY <1>11, <2>2
        DEF TimePasses, world, outside, TypeInv, TypeOK, Busy, PartAtHand,
            DeleteAtHand
<1> QED
    BY <1>7, <1>8, <1>9, <1>10, <1>11 DEF ClientStep

(* Crash and startup.                                                      *)
LEMMA StartupType ==
    ASSUME TypeInv, Crash \/ StartupStep
    PROVE  TypeInv'
<1>1. jobs \in [Jobs -> Row] /\ disk \in [Jobs -> Files] /\ pending \in SUBSET Jobs
    BY DEF TypeInv, TypeOK
<1>2. CASE Crash
    <2>1. /\ req' \in [Jobs -> ReqStates]
          /\ dreq' \in [Deletes -> DeleteStates]
          /\ djob' \in [Deletes -> Jobs \cup {NoJob}]
          /\ drow' \in [Deletes -> Row]
        BY <1>2, NoRowType DEF Crash, ReqStates, DeleteStates
    <2>2. /\ pc' \in [Workers -> Labels]
          /\ todo' \in [Workers -> SUBSET Jobs]
          /\ snap' \in [Workers -> [Jobs -> Row]]
          /\ left' \in SUBSET Assets
        BY <1>2, NoRowType DEF Crash, Labels
    <2>3. mode' \in {"up", "down", "recovering"} /\ crashes' \in Nat /\ pending' \in SUBSET Jobs
        BY <1>2 DEF Crash, TypeInv, TypeOK
    <2>4. Busy' /\ PartAtHand' /\ DeleteAtHand'
        BY <1>2 DEF Crash, Busy, PartAtHand, DeleteAtHand, Workers
    <2> QED
        BY <1>2, <2>1, <2>2, <2>3, <2>4 DEF Crash, world, TypeInv, TypeOK
<1>3. ASSUME StartupFrame, jobs' \in [Jobs -> Row], disk' \in [Jobs -> Files],
             pending' \in SUBSET Jobs, mode' \in {"up", "down", "recovering"},
             UNCHANGED crashes, Fault \/ UNCHANGED faults
      PROVE  TypeInv'
    <2>1. faults' \in Nat
        BY <1>3 DEF Fault, TypeInv, TypeOK
    <2> QED
        BY <1>3, <2>1
        DEF StartupFrame, TypeInv, TypeOK, Busy, PartAtHand, DeleteAtHand
<1>4. CASE Restart
    <2>1. \A j \in Jobs : [jobs[j] EXCEPT !.claim = NoWorker] \in Row
        BY <1>1, ClaimType
    <2>2. jobs' \in [Jobs -> Row] /\ pending' \in SUBSET Jobs
        BY <1>4, <2>1 DEF Restart, ReleaseAllClaims, ListOpenJobs
    <2> QED
        BY <1>1, <1>3, <1>4, <2>2 DEF Restart
<1>5. CASE Reconcile
    <2> DEFINE j == First(pending)
    <2>1. j \in Jobs /\ pending' \in SUBSET Jobs
        BY <1>1, <1>5, JobsAssumption, FirstElement DEF Reconcile
    <2>2. Reconciled(j) \in Row
        <3> HIDE DEF j
        <3> DEFINE row == [jobs[j] EXCEPT !.staging = TRUE]
        <3>1. row \in Row /\ jobs[j] \in Row
            BY <1>1, <2>1, RowTypes
        <3> HIDE DEF row
        <3>2. /\ [row EXCEPT !.state = "completed"] \in Row
              /\ [row EXCEPT !.run = "due", !.state = "local_verify"] \in Row
              /\ [row EXCEPT !.run = "due"] \in Row
            BY <3>1, RowTypes DEF RunAt, JobStates
        <3> QED
            BY <3>1, <3>2 DEF Reconciled, row
    <2>3. jobs' = UpdateJob(jobs, j, Reconciled(j)) \/ UNCHANGED jobs
        BY <1>5 DEF Reconcile
    <2>4. jobs' \in [Jobs -> Row]
        <3> HIDE DEF j
        <3>1. UpdateJob(jobs, j, Reconciled(j)) \in [Jobs -> Row]
            BY <1>1, <2>1, <2>2, UpdateJobType
        <3>2. CASE UNCHANGED jobs
            BY <1>1, <3>2
        <3> QED
            BY <2>3, <3>1, <3>2, Zenon
    <2> QED
        BY <1>1, <1>3, <1>5, <2>1, <2>4 DEF Reconcile
<1>6. CASE Start
    <2>1. disk' \in [Jobs -> Files]
        BY <1>1, <1>6, FilesTypes DEF Start, WithoutOrphans
    <2> QED
        BY <1>1, <1>3, <1>6, <2>1 DEF Start
<1> QED
    BY <1>2, <1>4, <1>5, <1>6 DEF StartupStep

(* The first state has the types.                                          *)
LEMMA TypeInvInit == Init => TypeInv
<1> SUFFICES ASSUME Init PROVE TypeInv
    OBVIOUS
<1>1. NoFiles \in Files
    BY DEF NoFiles, NoFile, Files, FileStates
<1>2. NoParts \in [Assets -> PartStates]
    BY DEF NoParts, PartStates
<1>3. "idle" \in Labels /\ "none" \in ReqStates /\ "none" \in DeleteStates
    BY DEF Labels, ReqStates, DeleteStates
<1>4. TypeOK
    BY <1>1, <1>2, <1>3, NoRowType DEF Init, TypeOK
<1>5. Busy /\ PartAtHand /\ DeleteAtHand
    BY DEF Init, Busy, PartAtHand, DeleteAtHand, Workers
<1> QED
    BY <1>4, <1>5 DEF TypeInv

(* Every step keeps the types, and what the workers have at hand.          *)
LEMMA TypeInvStep == TypeInv /\ [Next]_vars => TypeInv'
<1> SUFFICES ASSUME TypeInv, [Next]_vars
             PROVE  TypeInv'
    OBVIOUS
<1>1. CASE \E w \in Workers : LoopStep(w) \/ LoopFault(w)
    BY <1>1, LoopType
<1>2. CASE SubmitterStep
    BY <1>2, SubmitterType
<1>3. CASE PollerStep \/ PollerFault
    BY <1>3, PollerType
<1>4. CASE DownloaderStep \/ DownloaderFault
    BY <1>4, DownloaderType
<1>5. CASE FinalizerStep \/ FinalizerFault
    BY <1>5, FinalizerType
<1>6. CASE RemoverStep \/ RemoverFault
    BY <1>6, RemoverType
<1>7. CASE ClientStep \/ \E j \in Jobs : Prune(j) \/ TimePasses(j)
    BY <1>7, ClientType
<1>8. CASE Crash \/ StartupStep
    BY <1>8, StartupType
<1>9. CASE UNCHANGED vars
    BY <1>9 DEF vars, TypeInv, TypeOK, Busy, PartAtHand, DeleteAtHand
<1> QED
    BY <1>1, <1>2, <1>3, <1>4, <1>5, <1>6, <1>7, <1>8, <1>9
    DEF Next, WorkerStep, ProcessStep, WorkerFault

(* The type invariant with its strengthening holds in every state.         *)
LEMMA TypeInvHolds == Spec => []TypeInv
    BY TypeInvInit, TypeInvStep, PTL DEF Spec

(* Rows, copies, parts and files stay well formed, whatever the workers,   *)
(* handlers and crashes do and in whatever order.                          *)
THEOREM Typing == Spec => []TypeOK
<1>1. TypeInv => TypeOK
    BY DEF TypeInv
<1> QED
    BY <1>1, TypeInvHolds, PTL

=============================================================================
