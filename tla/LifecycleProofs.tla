--------------------------- MODULE LifecycleProofs --------------------------
(***************************************************************************)
(* What the workers write, for any number of jobs, files and failures:     *)
(* Pipeline implements JobLifecycle.  It rests on how far a worker's copy  *)
(* of a row may be away from the row: in the same state while the worker   *)
(* is at it, and one edge of the life cycle ahead when it is about to be   *)
(* written.                                                                *)
(***************************************************************************)
EXTENDS OwnershipProofs

(***************************************************************************)
(* The invariant.                                                          *)
(***************************************************************************)
(* A row names a completed path only once its job is completed.            *)
Placed == { "completed", "remove_pending", "removed" }

Named(row) == row.completed => row.state \in Placed

(* A row in state s and the copy at hand in state t, by where the worker   *)
(* is.                                                                     *)
Follows(label, s, t) ==
    CASE label = "save" -> s = t \/ << s, t >> \in Lifecycle!Edges
      [] label \in {"promote", "adopt"} -> t = "remote_active"
      [] label \in {"find", "apply"} -> s = "remote_active" /\ t = s
      [] OTHER -> s = t

AtHand(w) ==
    pc[w] \notin {"idle", "fetch", "release"} =>
        /\ Named(Copy(w))
        /\ Follows(pc[w], jobs[Job(w)].state, Copy(w).state)

(* The copies of the jobs whose turn has not come.                         *)
Waiting(w) ==
    pc[w] \notin {"idle", "fetch"} =>
        \A j \in todo[w] \ {Job(w)} :
            Named(snap[w][j]) /\ snap[w][j].state = jobs[j].state

RowsNamed == \A j \in Jobs : Named(jobs[j])

CopyInv == RowsNamed /\ \A w \in Workers : AtHand(w) /\ Waiting(w)

(***************************************************************************)
(* Lemmas on single steps.                                                 *)
(***************************************************************************)

(* A write of a whole row leaves rows that are named right.                *)
LEMMA WriteNamed ==
    ASSUME TypeInv, RowsNamed, NEW j \in Jobs, NEW row \in Row, Named(row),
           jobs' = UpdateJob(jobs, j, row)
    PROVE  RowsNamed'
<1>1. jobs \in [Jobs -> Row]
    BY DEF TypeInv, TypeOK
<1>2. /\ \A k \in Jobs \ {j} : jobs'[k] = jobs[k]
      /\ jobs' = jobs \/ jobs'[j] = [row EXCEPT !.claim = NoWorker]
    BY <1>1, UpdateJobType
<1>3. Named([row EXCEPT !.claim = NoWorker])
    BY DEF Named, Row
<1> QED
    BY <1>2, <1>3 DEF RowsNamed

(* Where a worker is after it has moved on within its batch.               *)
LEMMA NowAtHand ==
    ASSUME TypeInv, NEW w \in Workers, pc[w] # "idle", UNCHANGED todo,
           NEW label, Goto(w, label), NEW row,
           SetCopy(w, row) \/ (UNCHANGED snap /\ row = Copy(w)),
           \/ label = "release"
           \/ Named(row) /\ Follows(label, jobs'[Job(w)].state, row.state)
    PROVE  AtHand(w)'
<1>1. pc'[w] = label
    BY GotoFrame
<1>2. Copy(w)' = row
    BY CopyAfter DEF Copy, Job
<1>3. Job(w)' = Job(w)
    BY DEF Job
<1> QED
    BY <1>1, <1>2, <1>3 DEF AtHand

(* The copies in waiting stay as they are.                                 *)
LEMMA StillWaiting ==
    ASSUME TypeInv, CopyInv, NEW w \in Workers, Working(w), pc[w] # "fetch",
           UNCHANGED snap \/ \E row : SetCopy(w, row)
    PROVE  Waiting(w)'
<1>1. pc[w] \notin {"idle", "fetch"} /\ todo' = todo /\ Job(w)' = Job(w)
    BY DEF Working, Apart, Job
<1>2. Job(w) \in Jobs /\ todo \in [Workers -> SUBSET Jobs]
    BY <1>1, AtJob DEF TypeInv, TypeOK
<1>3. ASSUME NEW j \in todo[w] \ {Job(w)}
      PROVE  snap'[w][j] = snap[w][j] /\ jobs'[j] = jobs[j]
    <2>1. j \in Jobs
        BY <1>2
    <2>2. jobs'[j] = jobs[j]
        BY <2>1 DEF Working, OwnRowOnly
    <2>3. snap'[w][j] = snap[w][j]
        BY <1>2, <2>1 DEF SetCopy, TypeInv, TypeOK
    <2> QED
        BY <2>2, <2>3
<1> QED
    BY <1>1, <1>3 DEF CopyInv, Waiting

(* What each worker's lemma below says of a step inside process...: the    *)
(* copy keeps up with the row.                                             *)
KeepsUp(w) ==
    /\ pc[w] # "fetch"
    /\ UNCHANGED snap \/ \E row : SetCopy(w, row)
    /\ AtHand(w)' /\ RowsNamed'

(* The state and the path of the copy at hand, away from the inner writes. *)
LEMMA CopyAtHand ==
    ASSUME TypeInv, OwnInv, CopyInv, NEW w \in Workers,
           pc[w] \notin {"idle", "fetch", "release", "save"}
    PROVE  /\ Job(w) \in Jobs /\ Copy(w) \in Row
           /\ jobs[Job(w)].state \in Handles(w)
           /\ Named(Copy(w))
           /\ pc[w] \notin {"promote", "adopt"} =>
                 Copy(w).state = jobs[Job(w)].state
           /\ w # "remover" /\ Copy(w).state \in Handles(w) => ~ Copy(w).completed
<1>1. Job(w) \in todo[w] /\ Job(w) \in Jobs /\ Copy(w) \in Row
    BY AtJob
<1>2. jobs[Job(w)].state \in Handles(w)
    BY <1>1 DEF OwnInv, Owned, Holds
<1>3. Named(Copy(w)) /\ Follows(pc[w], jobs[Job(w)].state, Copy(w).state)
    BY DEF CopyInv, AtHand
<1>4. w # "remover" => Handles(w) \cap Placed = {}
    BY HandlesApart DEF Placed
<1>5. pc[w] \notin {"promote", "adopt"} => Copy(w).state = jobs[Job(w)].state
    BY <1>3 DEF Follows
<1>6. w # "remover" /\ Copy(w).state \in Handles(w) => ~ Copy(w).completed
    BY <1>3, <1>4 DEF Named
<1> QED
    BY <1>1, <1>2, <1>3, <1>5, <1>6

(* Every answer to a create call leads along an edge.                      *)
LEMMA SubmitterKeepsUp ==
    ASSUME TypeInv, OwnInv, CopyInv, SubmitterStep
    PROVE  KeepsUp("submitter")
<1> DEFINE w == "submitter"
           c == Copy(w)
           s == jobs[Job(w)].state
<1>1. w \in Workers /\ pc[w] = "work"
    BY DEF SubmitterStep, SubmitActive, SubmitQueued, SubmitRetryable,
           SubmitPermanent, Submitting, Up, Workers
<1>2. /\ Job(w) \in Jobs /\ c \in Row /\ ~ c.completed
      /\ s \in {"submit_pending", "submit_retry"}
    BY <1>1, CopyAtHand DEF Handles
<1>3. ASSUME NEW row, Answered(row), ~ row.completed,
             row.state \in {"remote_active", "remote_queued", "submit_retry",
                            "remote_failed"}
      PROVE  KeepsUp(w)
    <2>1. SetCopy(w, row) /\ Goto(w, "save") /\ UNCHANGED << jobs, todo >>
        BY <1>3 DEF Answered, WriteBack, outside
    <2>2. s = row.state \/ << s, row.state >> \in Lifecycle!Edges
        BY <1>2, <1>3 DEF Lifecycle!Edges
    <2>3. Named(row) /\ Follows("save", s, row.state)
        BY <1>3, <2>2 DEF Named, Follows
    <2>4. AtHand(w)'
        BY <1>1, <2>1, <2>3, NowAtHand
    <2> QED
        BY <1>1, <2>1, <2>4 DEF KeepsUp, CopyInv, RowsNamed
<1>4. \A q \in BOOLEAN :
         /\ [Created(c) EXCEPT !.queued = q].state = "remote_active"
         /\ [Created(c) EXCEPT !.queued = q].completed = c.completed
         /\ Queued(c, q).state = "remote_queued"
         /\ Queued(c, q).completed = c.completed
    BY <1>2 DEF Created, Queued, Row
<1>5. /\ Retried(c).state = "submit_retry" /\ Retried(c).completed = c.completed
      /\ Rejected(c).state = "remote_failed" /\ Rejected(c).completed = c.completed
    BY <1>2 DEF Retried, Rejected, Row
<1> HIDE DEF w, c, s
<1> QED
    BY <1>2, <1>3, <1>4, <1>5
    DEF SubmitterStep, SubmitActive, SubmitQueued, SubmitRetryable,
        SubmitPermanent, w, c

(* The poller writes remote_active before it applies a status, so that a   *)
(* ready task never takes a queued row to the download.                    *)
LEMMA PollerKeepsUp ==
    ASSUME TypeInv, OwnInv, CopyInv, PollerStep \/ PollerFault
    PROVE  KeepsUp("poller")
<1> DEFINE w == "poller"
           c == Copy(w)
           s == jobs[Job(w)].state
<1>1. /\ w \in Workers
      /\ pc[w] \in {"work", "promote", "adopt", "find", "recover", "apply"}
    BY DEF PollerStep, PollerFault, PollActive, PollQueued, PollMidWrite,
           PollMidWriteRejected, PollMidWriteFails, PollFind, PollRecover,
           PollApplyReady, PollApplyFailed, PollApplyRunning, Polling, Up, Workers
<1>2. PollerFrame
    BY DEF PollerStep, PollerFault, PollActive, PollQueued, PollMidWrite,
           PollMidWriteRejected, PollMidWriteFails, PollFind, PollRecover,
           PollApplyReady, PollApplyFailed, PollApplyRunning, PollAgain,
           RemoteFailed, Turn, FoundActive
<1>3. UNCHANGED todo
    BY <1>2 DEF PollerFrame
<1>4. /\ Job(w) \in Jobs /\ c \in Row /\ Named(c)
      /\ s \in {"remote_queued", "remote_active"}
      /\ pc[w] \in {"promote", "adopt"} => c.state = "remote_active"
      /\ pc[w] \in {"find", "apply"} => s = "remote_active"
      /\ pc[w] \notin {"promote", "adopt"} => c.state = s
      /\ ~ c.completed
    <2>1. /\ Job(w) \in Jobs /\ c \in Row /\ Named(c)
          /\ s \in {"remote_queued", "remote_active"}
          /\ pc[w] \notin {"promote", "adopt"} => c.state = s
        BY <1>1, CopyAtHand DEF Handles
    <2>2. Follows(pc[w], s, c.state)
        BY <1>1 DEF CopyInv, AtHand
    <2>3. /\ pc[w] \in {"promote", "adopt"} => c.state = "remote_active"
          /\ pc[w] \in {"find", "apply"} => s = "remote_active"
        BY <2>2 DEF Follows
    <2>4. ~ c.completed
        BY <1>1, <2>1, <2>3 DEF Named, Placed
    <2> QED
        BY <2>1, <2>3, <2>4
<1>5. ASSUME RowsNamed', NEW label, Goto(w, label),
             NEW row, SetCopy(w, row) \/ (UNCHANGED snap /\ row = c),
             label = "release" \/ (~ row.completed /\ Follows(label, jobs'[Job(w)].state, row.state))
      PROVE  KeepsUp(w)
    <2>1. AtHand(w)'
        BY <1>1, <1>3, <1>5, NowAtHand DEF Named
    <2> QED
        BY <1>1, <1>5, <2>1 DEF KeepsUp
<1>6. UNCHANGED jobs => RowsNamed'
    BY DEF CopyInv, RowsNamed
<1>7. ASSUME pc[w] \notin {"promote", "adopt"}, PollAgain
      PROVE  KeepsUp(w)
    <2>1. SetCopy(w, Later(c)) /\ Goto(w, "save") /\ UNCHANGED jobs
        BY <1>7 DEF PollAgain, WriteBack, PolledJob
    <2>2. Later(c).state = c.state /\ Later(c).completed = c.completed
        BY <1>4 DEF Later, Row
    <2>3. Follows("save", s, Later(c).state)
        BY <1>4, <1>7, <2>2 DEF Follows
    <2> QED
        BY <1>4, <1>5, <1>6, <2>1, <2>2, <2>3
<1>8. CASE RemoteFailed
    <2> DEFINE row == [c EXCEPT !.run = "nil", !.state = "remote_failed"]
    <2>1. SetCopy(w, row) /\ Goto(w, "save") /\ UNCHANGED jobs
        BY <1>8 DEF RemoteFailed, WriteBack, PolledJob
    <2>2. row.state = "remote_failed" /\ row.completed = c.completed
        BY <1>4 DEF Row
    <2> HIDE DEF row
    <2>3. << s, row.state >> \in Lifecycle!Edges
        BY <1>4, <2>2 DEF Lifecycle!Edges
    <2> QED
        BY <1>4, <1>5, <1>6, <2>1, <2>2, <2>3 DEF Follows
<1>9. ASSUME NEW label \in {"apply", "recover"}, Turn(label),
             c.state = s, label = "apply" => s = "remote_active"
      PROVE  KeepsUp(w)
    <2>1. Goto(w, label) /\ UNCHANGED << jobs, snap >>
        BY <1>9 DEF Turn
    <2>2. Follows(label, s, c.state)
        BY <1>9 DEF Follows
    <2> QED
        BY <1>4, <1>5, <1>6, <2>1, <2>2
<1>10. ASSUME NEW label \in {"promote", "adopt", "apply"}, FoundActive(label),
              label = "apply" => s = "remote_active"
       PROVE  KeepsUp(w)
    <2> DEFINE row == [c EXCEPT !.remote = TRUE, !.state = "remote_active"]
    <2>1. SetCopy(w, row) /\ Goto(w, label) /\ UNCHANGED jobs
        BY <1>10 DEF FoundActive, PolledJob
    <2>2. row.state = "remote_active" /\ row.completed = c.completed
        BY <1>4 DEF Row
    <2> HIDE DEF row
    <2>3. Follows(label, s, row.state)
        BY <1>10, <2>2 DEF Follows
    <2> QED
        BY <1>4, <1>5, <1>6, <2>1, <2>2, <2>3
<1>11. ASSUME jobs' = UpdateJob(jobs, Job(w), c)
       PROVE  RowsNamed'
    BY <1>4, <1>11, WriteNamed DEF CopyInv
<1>12. CASE PollMidWrite
    <2>1. /\ pc[w] \in {"promote", "adopt"}
          /\ CanUpdate(jobs, Job(w), c)
          /\ jobs' = UpdateJob(jobs, Job(w), c)
          /\ UNCHANGED snap
        BY <1>12 DEF PollMidWrite, Polling, Up, PolledJob
    <2>2. PICK label \in {"find", "apply"} : Goto(w, label)
        BY <1>12 DEF PollMidWrite
    <2>3. jobs'[Job(w)].state = c.state
        BY <1>4, <2>1 DEF UpdateJob, Row, TypeInv, TypeOK
    <2>4. Follows(label, jobs'[Job(w)].state, c.state)
        BY <1>4, <2>1, <2>3 DEF Follows
    <2> QED
        BY <1>4, <1>5, <1>11, <2>1, <2>2, <2>4
<1>13. CASE PollMidWriteFails
    <2>1. /\ UNCHANGED jobs \/ jobs' = UpdateJob(jobs, Job(w), c)
          /\ GiveUp(w)
        BY <1>13 DEF PollMidWriteFails, PolledJob
    <2> QED
        BY <1>5, <1>6, <1>11, <2>1 DEF GiveUp
<1>14. CASE GiveUp(w) /\ UNCHANGED jobs
    BY <1>5, <1>6, <1>14 DEF GiveUp
<1>15. CASE PollActive
    <2>1. pc[w] = "work" /\ (s = "remote_active" \/ ~ Turn("apply"))
        BY <1>4, <1>15 DEF PollActive, Polling, Up, NoQueue, PolledJob
    <2> QED
        BY <1>4, <1>7, <1>8, <1>9, <1>15, <2>1 DEF PollActive
<1>16. CASE PollQueued
    <2>1. pc[w] = "work"
        BY <1>16 DEF PollQueued, Polling, Up
    <2> QED
        BY <1>4, <1>7, <1>9, <1>10, <1>16, <2>1 DEF PollQueued
<1>17. CASE PollFind
    <2>1. pc[w] = "find"
        BY <1>17 DEF PollFind, Polling, Up
    <2> QED
        BY <1>4, <1>7, <1>9, <1>14, <1>17, <2>1 DEF PollFind
<1>18. CASE PollRecover
    <2>1. /\ pc[w] = "recover"
          /\ \/ PollAgain \/ RemoteFailed
             \/ c.state = "remote_active" /\ FoundActive("apply")
             \/ FoundActive("adopt")
        BY <1>18 DEF PollRecover, Polling, Up, PolledJob
    <2> QED
        BY <1>4, <1>7, <1>8, <1>10, <2>1
<1>19. CASE PollApplyReady
    <2>1. /\ pc[w] = "apply" /\ UNCHANGED jobs
          /\ SetCopy(w, Ready(c)) /\ Goto(w, "save")
        BY <1>19 DEF PollApplyReady, Polling, Up, WriteBack, PolledJob
    <2>2. Ready(c).state = "local_download_pending" /\ Ready(c).completed = c.completed
        BY <1>4 DEF Ready, Row
    <2>3. << s, Ready(c).state >> \in Lifecycle!Edges
        BY <1>4, <2>1, <2>2 DEF Lifecycle!Edges
    <2> QED
        BY <1>4, <1>5, <1>6, <2>1, <2>2, <2>3 DEF Follows
<1>20. CASE PollApplyFailed \/ PollApplyRunning
    <2>1. pc[w] = "apply" /\ (RemoteFailed \/ PollAgain)
        BY <1>20 DEF PollApplyFailed, PollApplyRunning, Polling, Up
    <2> QED
        BY <1>7, <1>8, <2>1
<1> QED
    BY <1>12, <1>13, <1>14, <1>15, <1>16, <1>17, <1>18, <1>19, <1>20
    DEF PollerStep, PollerFault, PollMidWriteRejected

(* The finalizer completes, fails or sends back.                           *)
LEMMA FinalizerKeepsUp ==
    ASSUME TypeInv, OwnInv, CopyInv, FinalizerStep \/ FinalizerFault
    PROVE  KeepsUp("finalizer")
<1> DEFINE w == "finalizer"
           c == Copy(w)
           s == jobs[Job(w)].state
<1>1. w \in Workers /\ pc[w] \in {"work", "rename"}
    BY DEF FinalizerStep, FinalizerFault, Verify, VerifyFails, PromoteOk,
           PromoteFails, PromoteFault, Finalizing, Up, Workers
<1>2. UNCHANGED << jobs, todo >>
    BY DEF FinalizerStep, FinalizerFault, Verify, VerifyFails, PromoteOk,
           PromoteFails, PromoteFault, PromoteError, outside
<1>3. /\ Job(w) \in Jobs /\ c \in Row /\ ~ c.completed
      /\ s = "local_verify" /\ c.state = s
    BY <1>1, CopyAtHand DEF Handles
<1>4. ASSUME NEW row, WriteBack(w, row), Named(row),
             row.state \in {"failed", "local_downloading", "completed"}
      PROVE  KeepsUp(w)
    <2>1. SetCopy(w, row) /\ Goto(w, "save")
        BY <1>4 DEF WriteBack
    <2>2. << s, row.state >> \in Lifecycle!Edges
        BY <1>3, <1>4 DEF Lifecycle!Edges
    <2>3. Follows("save", jobs'[Job(w)].state, row.state)
        BY <1>2, <2>2 DEF Follows
    <2>4. AtHand(w)'
        BY <1>1, <1>2, <1>4, <2>1, <2>3, NowAtHand
    <2> QED
        BY <1>1, <1>2, <2>1, <2>4 DEF KeepsUp, CopyInv, RowsNamed
<1>5. ASSUME NEW label \in {"rename", "release"}, Goto(w, label), UNCHANGED snap
      PROVE  KeepsUp(w)
    <2>1. \/ label = "release"
          \/ Named(c) /\ Follows(label, jobs'[Job(w)].state, c.state)
        BY <1>2, <1>3, <1>5 DEF Named, Follows
    <2>2. AtHand(w)'
        BY <1>1, <1>2, <1>5, <2>1, NowAtHand
    <2> QED
        BY <1>1, <1>2, <1>5, <2>2 DEF KeepsUp, CopyInv, RowsNamed
<1>6. /\ [c EXCEPT !.state = "failed"].state = "failed"
      /\ Named([c EXCEPT !.state = "failed"])
      /\ [c EXCEPT !.run = "later", !.state = "local_downloading"].state =
            "local_downloading"
      /\ Named([c EXCEPT !.run = "later", !.state = "local_downloading"])
      /\ [c EXCEPT !.completed = TRUE, !.run = "nil",
                   !.state = "completed"].state = "completed"
      /\ Named([c EXCEPT !.completed = TRUE, !.run = "nil", !.state = "completed"])
    BY <1>3 DEF Named, Placed, Row
<1> HIDE DEF w, c, s
<1> QED
    BY <1>4, <1>5, <1>6
    DEF FinalizerStep, FinalizerFault, Verify, VerifyFails, PromoteOk,
        PromoteFails, PromoteFault, PromoteError, GiveUp, WriteBack, w, c

(* The remover's copy waits for its removal until the last of three paths. *)
LEMMA RemoverKeepsUp ==
    ASSUME TypeInv, OwnInv, CopyInv, RemoverStep \/ RemoverFault
    PROVE  KeepsUp("remover")
<1> DEFINE w == "remover"
           c == Copy(w)
           s == jobs[Job(w)].state
<1>1. w \in Workers /\ pc[w] \in {"work", "rmstaging", "rmpayload"}
    BY DEF RemoverStep, RemoverFault, RemoveCompletedPath, RemoveStagingPath,
           RemovePayload, RemoveFails, Removing, Up, Workers
<1>2. UNCHANGED << jobs, todo >>
    BY DEF RemoverStep, RemoverFault, RemoveCompletedPath, RemoveStagingPath,
           RemovePayload, RemoveFails, RemoverFrame, outside
<1>3. c \in Row /\ s = "remove_pending" /\ c.state = s
    BY <1>1, CopyAtHand DEF Handles
<1>4. ASSUME NEW label, Goto(w, label),
             NEW row, SetCopy(w, row) \/ (UNCHANGED snap /\ row = c),
             \/ label = "release"
             \/ row.state \in Placed /\ Follows(label, s, row.state)
      PROVE  KeepsUp(w)
    <2>1. AtHand(w)'
        BY <1>1, <1>2, <1>4, NowAtHand DEF Named
    <2> QED
        BY <1>1, <1>2, <1>4, <2>1 DEF KeepsUp, CopyInv, RowsNamed
<1>5. /\ [c EXCEPT !.completed = FALSE].state = s
      /\ [c EXCEPT !.staging = FALSE].state = s
      /\ [c EXCEPT !.payload = FALSE, !.run = "nil", !.state = "removed"].state =
            "removed"
    BY <1>3 DEF Row
<1>6. /\ s \in Placed /\ "removed" \in Placed
      /\ Follows("rmstaging", s, s) /\ Follows("rmpayload", s, s)
      /\ Follows("save", s, "removed")
    BY <1>3 DEF Placed, Follows, Lifecycle!Edges
<1> HIDE DEF s
<1>7. CASE RemoveCompletedPath
    <2>1. SetCopy(w, [c EXCEPT !.completed = FALSE]) /\ Goto(w, "rmstaging")
        BY <1>7 DEF RemoveCompletedPath
    <2> QED
        BY <1>4, <1>5, <1>6, <2>1
<1>8. CASE RemoveStagingPath
    <2>1. SetCopy(w, [c EXCEPT !.staging = FALSE]) /\ Goto(w, "rmpayload")
        BY <1>8 DEF RemoveStagingPath
    <2> QED
        BY <1>4, <1>5, <1>6, <2>1
<1>9. CASE RemovePayload
    <2>1. /\ SetCopy(w, [c EXCEPT !.payload = FALSE, !.run = "nil",
                                 !.state = "removed"])
          /\ Goto(w, "save")
        BY <1>9 DEF RemovePayload, WriteBack
    <2> QED
        BY <1>4, <1>5, <1>6, <2>1
<1>10. CASE RemoveFails
    BY <1>4, <1>10 DEF RemoveFails, GiveUp
<1> QED
    BY <1>7, <1>8, <1>9, <1>10 DEF RemoverStep, RemoverFault

(* The downloader shows a job as downloading, sends it on or fails it.     *)
LEMMA DownloaderKeepsUp ==
    ASSUME TypeInv, OwnInv, CopyInv, DownloaderStep \/ DownloaderFault
    PROVE  KeepsUp("downloader")
<1> DEFINE w == "downloader"
           c == Copy(w)
           s == jobs[Job(w)].state
<1>1. /\ w \in Workers
      /\ pc[w] \in {"work", "links", "register", "loop", "mark", "stream",
                    "last", "commit"}
    BY DEF DownloaderStep, DownloaderFault, Prepare, PrepareFails, LinksError,
           NoAssets, GetDownloadLinks, Register, RegisterDone,
           RegisterRejected, RegisterFails, RequestOk, RequestBeyondEnd,
           Request404, Request5xx, RequestError, MarkSkipped, Mark,
           MarkRejected, MarkFails, StreamEnd, StreamShort, StreamBroken,
           Recorded, Commit, CommitShort, CommitRejected, CommitFails,
           Finish, FinishFails, Marking, Fetching, Downloading, Up, Workers
<1>2. UNCHANGED todo
    BY DEF DownloaderStep, DownloaderFault, Prepare, PrepareFails, LinksError,
           NoAssets, GetDownloadLinks, Register, RegisterDone,
           RegisterRejected, RegisterFails, RequestOk, RequestBeyondEnd,
           Request404, Request5xx, RequestError, MarkSkipped, Mark,
           MarkRejected, MarkFails, MarkError, StreamEnd, StreamShort,
           StreamBroken, Recorded, Commit, CommitShort, CommitRejected,
           CommitFails, Finish, FinishFails, Leave, Abandon, DownloaderFrame
<1>3. /\ Job(w) \in Jobs /\ c \in Row /\ ~ c.completed
      /\ s \in {"local_download_pending", "local_downloading"} /\ c.state = s
    BY <1>1, CopyAtHand DEF Handles
<1>4. DlCopy = c /\ DlJob = Job(w)
    BY DEF DlCopy, DlJob
<1>5. UNCHANGED jobs => RowsNamed'
    BY DEF CopyInv, RowsNamed
<1>6. ASSUME RowsNamed', NEW label, Goto(w, label),
             NEW row, SetCopy(w, row) \/ (UNCHANGED snap /\ row = c),
             \/ label = "release"
             \/ ~ row.completed /\ Follows(label, jobs'[Job(w)].state, row.state)
      PROVE  KeepsUp(w)
    <2>1. AtHand(w)'
        BY <1>1, <1>2, <1>6, NowAtHand DEF Named
    <2> QED
        BY <1>1, <1>6, <2>1 DEF KeepsUp
<1>7. ASSUME UNCHANGED jobs \/ jobs' = UpdateJob(jobs, Job(w), Marked(c))
      PROVE  /\ RowsNamed'
             /\ jobs'[Job(w)].state \in {"local_download_pending", "local_downloading"}
    <2>1. /\ Marked(c) \in Row /\ Named(Marked(c))
          /\ Marked(c).state = "local_downloading"
        <3>1. /\ Marked(c).state = "local_downloading"
              /\ Marked(c).completed = c.completed
            BY <1>3 DEF Marked, TryAgain, Later, Row
        <3> QED
            BY <1>3, <3>1, RowTypes DEF Marked, Named
    <2>2. CASE jobs' = UpdateJob(jobs, Job(w), Marked(c))
        BY <1>3, <2>1, <2>2, WriteNamed, UpdateRow DEF CopyInv
    <2> QED
        BY <1>3, <1>5, <1>7, <2>2
<1>8. ASSUME UNCHANGED jobs \/ jobs' = UpdateJob(jobs, Job(w), Marked(c)),
             NEW row, WriteBack(w, row), ~ row.completed,
             row.state \in {"local_downloading", "local_verify", "failed"}
      PROVE  KeepsUp(w)
    <2> DEFINE t == jobs'[Job(w)].state
    <2>1. SetCopy(w, row) /\ Goto(w, "save")
        BY <1>8 DEF WriteBack
    <2>2. t = row.state \/ << t, row.state >> \in Lifecycle!Edges
        BY <1>7, <1>8 DEF Lifecycle!Edges
    <2>3. Follows("save", t, row.state)
        BY <2>2 DEF Follows
    <2> QED
        BY <1>6, <1>7, <1>8, <2>1, <2>3
<1>9. ASSUME UNCHANGED jobs,
             NEW label \in {"links", "register", "loop", "mark", "stream", "last",
                            "commit"},
             Goto(w, label), NEW row, SetCopy(w, row), row.state = s, ~ row.completed
      PROVE  KeepsUp(w)
    <2>1. Follows(label, jobs'[Job(w)].state, row.state)
        BY <1>9 DEF Follows
    <2> QED
        BY <1>5, <1>6, <1>9, <2>1
<1>10. ASSUME UNCHANGED << jobs, snap >>,
             NEW label \in {"links", "register", "loop", "mark", "stream", "last",
                            "commit"},
             Goto(w, label)
      PROVE  KeepsUp(w)
    <2>1. Follows(label, jobs'[Job(w)].state, c.state)
        BY <1>3, <1>10 DEF Follows
    <2> QED
        BY <1>3, <1>5, <1>6, <1>10, <2>1
<1>11. ASSUME UNCHANGED jobs, GiveUp(w)
       PROVE  KeepsUp(w)
    BY <1>5, <1>6, <1>11 DEF GiveUp
<1>12. ASSUME NEW row \in Row, row.state = s, ~ row.completed
       PROVE  /\ \A r \in Nat : /\ [row EXCEPT !.retry = r] \in Row
                               /\ [row EXCEPT !.retry = r].state = s
                               /\ ~ [row EXCEPT !.retry = r].completed
              /\ \A r \in RunAt :
                    /\ ~ [row EXCEPT !.run = r, !.state = "failed"].completed
                    /\ [row EXCEPT !.run = r, !.state = "failed"].state = "failed"
              /\ [row EXCEPT !.staging = TRUE].state = s
              /\ ~ [row EXCEPT !.staging = TRUE].completed
              /\ [row EXCEPT !.state = "failed"].state = "failed"
              /\ ~ [row EXCEPT !.state = "failed"].completed
              /\ [row EXCEPT !.run = "due", !.state = "local_verify"].state =
                    "local_verify"
              /\ ~ [row EXCEPT !.run = "due", !.state = "local_verify"].completed
              /\ TryAgain(row) \in Row
              /\ TryAgain(row).state = "local_downloading"
              /\ ~ TryAgain(row).completed
    <2> USE <1>12 DEF Row
    <2>1. TryAgain(row) \in Row
        BY RowTypes
    <2>2. TryAgain(row).state = "local_downloading" /\ ~ TryAgain(row).completed
        BY DEF TryAgain, Later
    <2>3. \A r \in Nat : /\ [row EXCEPT !.retry = r] \in Row
                        /\ [row EXCEPT !.retry = r].state = s
                        /\ ~ [row EXCEPT !.retry = r].completed
        OBVIOUS
    <2> QED
        BY <2>1, <2>2, <2>3
<1>13. CASE Prepare \/ GetDownloadLinks \/ Register \/ RegisterDone
            \/ MarkSkipped \/ RequestBeyondEnd \/ StreamEnd \/ StreamShort
    <2>1. CASE Prepare
        <3>1. /\ SetCopy(w, [c EXCEPT !.staging = TRUE]) /\ UNCHANGED jobs
              /\ Goto(w, "links") \/ Goto(w, "loop")
            BY <1>4, <2>1 DEF Prepare
        <3> QED
            BY <1>3, <1>9, <1>12, <3>1
    <2>2. CASE Register
        <3>1. pc' = [pc EXCEPT ![w] = "register"]
            BY <2>2 DEF Register, Downloading, Up, TypeInv, TypeOK
        <3> QED
            BY <1>10, <2>2, <3>1 DEF Register, Goto
    <2>3. CASE ~ Prepare /\ ~ Register
        <3>1. UNCHANGED << jobs, snap >>
            BY <1>13, <2>3 DEF GetDownloadLinks, RegisterDone, MarkSkipped,
                        RequestBeyondEnd, StreamEnd, StreamShort
        <3>2. \E label \in {"register", "loop", "stream", "last", "commit"} :
                 Goto(w, label)
            BY <1>13, <2>3 DEF GetDownloadLinks, RegisterDone, MarkSkipped,
                        RequestBeyondEnd, StreamEnd, StreamShort, AfterMark
        <3> QED
            BY <1>10, <3>1, <3>2
    <2> QED
        BY <2>1, <2>2, <2>3
<1>14. CASE RequestOk \/ Commit \/ CommitShort
    <2>1. /\ UNCHANGED jobs
          /\ \E r \in {c.retry, 0} : SetCopy(w, [c EXCEPT !.retry = r])
          /\ \E label \in {"mark", "loop"} : Goto(w, label)
        BY <1>4, <1>14 DEF RequestOk, Commit, CommitShort, Recorded
    <2>2. {c.retry, 0} \subseteq Nat
        BY <1>3 DEF Row
    <2> QED
        BY <1>3, <1>9, <1>12, <2>1, <2>2
<1>15. CASE Mark
    <2>1. /\ CanUpdate(jobs, Job(w), TryAgain(c))
          /\ jobs' = UpdateJob(jobs, Job(w), TryAgain(c))
          /\ SetCopy(w, TryAgain(c)) /\ Goto(w, AfterMark)
        BY <1>4, <1>15 DEF Mark, Marked
    <2>2. TryAgain(c) \in Row /\ TryAgain(c).state = "local_downloading"
          /\ ~ TryAgain(c).completed
        BY <1>3, <1>12
    <2>3. jobs'[Job(w)].state = TryAgain(c).state
        BY <1>3, <2>1, <2>2 DEF UpdateJob, Row, TypeInv, TypeOK
    <2>4. Follows(AfterMark, jobs'[Job(w)].state, TryAgain(c).state)
        BY <2>3 DEF Follows, AfterMark
    <2>5. RowsNamed'
        BY <1>7, <2>1 DEF Marked
    <2> QED
        BY <1>6, <2>1, <2>2, <2>4, <2>5
<1>16. CASE MarkRejected \/ MarkFails
    <2>1. /\ UNCHANGED jobs \/ jobs' = UpdateJob(jobs, Job(w), Marked(c))
          /\ WriteBack(w, [TryAgain(c) EXCEPT !.retry = 0])
        BY <1>4, <1>16 DEF MarkRejected, MarkFails, MarkError, Marked
    <2>2. TryAgain(c) \in Row /\ TryAgain(c).state = "local_downloading"
          /\ ~ TryAgain(c).completed
        BY <1>3, <1>12
    <2>3. /\ [TryAgain(c) EXCEPT !.retry = 0].state = "local_downloading"
          /\ ~ [TryAgain(c) EXCEPT !.retry = 0].completed
        BY <2>2 DEF Row
    <2> QED
        BY <1>8, <2>1, <2>3
<1>17. CASE PrepareFails \/ RegisterRejected \/ RegisterFails
            \/ CommitRejected \/ CommitFails \/ FinishFails
    BY <1>11, <1>17 DEF PrepareFails, RegisterRejected, RegisterFails,
                        CommitRejected, CommitFails, FinishFails, Abandon
<1>18. ASSUME NEW row, Leave(row), ~ row.completed,
              row.state \in {"local_downloading", "local_verify", "failed"}
       PROVE  KeepsUp(w)
    BY <1>8, <1>18 DEF Leave
<1>19. CASE LinksError \/ NoAssets \/ Finish
    BY <1>3, <1>4, <1>12, <1>18, <1>19 DEF LinksError, NoAssets, Finish
<1>20. CASE Request404 \/ Request5xx \/ RequestError \/ StreamBroken
    <2>1. c.retry + 1 \in Nat /\ 0 \in Nat
        BY <1>3 DEF Row
    <2> DEFINE again(r) == TryAgain([c EXCEPT !.retry = r])
               failed(r) == [c EXCEPT !.retry = r, !.run = "nil", !.state = "failed"]
    <2>2. \E r \in {0, c.retry + 1} : Leave(again(r)) \/ Leave(failed(r))
        BY <1>4, <1>20 DEF Request404, Request5xx, RequestError, StreamBroken
    <2>3. \A r \in Nat : /\ again(r).state = "local_downloading"
                        /\ ~ again(r).completed
                        /\ failed(r).state = "failed"
                        /\ ~ failed(r).completed
        BY <1>3 DEF TryAgain, Later, Row
    <2> HIDE DEF again, failed
    <2> QED
        BY <1>18, <2>1, <2>2, <2>3
<1> QED
    BY <1>13, <1>14, <1>15, <1>16, <1>17, <1>19, <1>20
    DEF DownloaderStep, DownloaderFault

(* A worker that does not move, and whose jobs do not.                     *)
LEMMA OthersKept ==
    ASSUME TypeInv, CopyInv, NEW v \in Workers,
           todo'[v] = todo[v], pc'[v] = pc[v], snap'[v] = snap[v],
           \A j \in Jobs : Holds(v, j) => jobs'[j].state = jobs[j].state
    PROVE  AtHand(v)' /\ Waiting(v)'
<1>1. Job(v)' = Job(v) /\ Copy(v)' = Copy(v) /\ todo[v] \subseteq Jobs
    BY DEF Job, Copy, TypeInv, TypeOK
<1>2. AtHand(v)'
    <2> SUFFICES ASSUME pc[v] \notin {"idle", "fetch", "release"}
                 PROVE  jobs'[Job(v)].state = jobs[Job(v)].state
        BY <1>1 DEF CopyInv, AtHand
    <2> QED
        BY AtJob DEF Holds
<1>3. Waiting(v)'
    BY <1>1 DEF CopyInv, Waiting, Holds
<1> QED
    BY <1>2, <1>3

(* The loop around process...: a copy starts as its row, and a job whose   *)
(* turn comes has not been moved while it waited.                          *)
LEMMA LoopKeepsUp ==
    ASSUME TypeInv, CopyInv, NEW w \in Workers, LoopStep(w) \/ LoopFault(w)
    PROVE  AtHand(w)' /\ Waiting(w)' /\ RowsNamed'
<1>1. /\ jobs \in [Jobs -> Row] /\ todo \in [Workers -> SUBSET Jobs]
      /\ pc \in [Workers -> Labels] /\ snap \in [Workers -> [Jobs -> Row]]
      /\ todo[w] \subseteq Jobs /\ RowsNamed
    BY DEF TypeInv, TypeOK, CopyInv
<1>2. ASSUME \A j \in Jobs : /\ jobs'[j].state = jobs[j].state
                             /\ jobs'[j].completed = jobs[j].completed
      PROVE  RowsNamed'
    BY <1>1, <1>2 DEF RowsNamed, Named
<1>3. ASSUME NEW rest \in SUBSET todo[w], UNCHANGED jobs \/ \A j \in Jobs : jobs'[j].state = jobs[j].state,
             todo' = [todo EXCEPT ![w] = rest],
             Goto(w, IF rest = {} THEN "idle" ELSE "work"),
             \A j \in rest : Named(snap'[w][j]) /\ snap'[w][j].state = jobs[j].state
      PROVE  AtHand(w)' /\ Waiting(w)'
    <2>1. todo'[w] = rest /\ pc'[w] = IF rest = {} THEN "idle" ELSE "work"
        BY <1>1, <1>3, GotoFrame
    <2>2. rest # {} => Job(w)' \in rest
        <3>1. rest \in SUBSET Nat
            BY <1>1, JobsAssumption
        <3> QED
            BY <2>1, <3>1, FirstElement DEF Job
    <2>3. \A j \in rest : jobs'[j].state = jobs[j].state
        BY <1>1, <1>3
    <2>4. AtHand(w)'
        BY <1>3, <2>1, <2>2, <2>3 DEF AtHand, Follows, Copy
    <2>5. Waiting(w)'
        BY <1>3, <2>1, <2>3 DEF Waiting
    <2> QED
        BY <2>4, <2>5
<1>4. CASE Claim(w)
    <2>1. pc'[w] = "fetch" /\ jobs' = ClaimJobs(jobs, w, DueBatch(jobs, Handles(w)))
        BY <1>4, GotoFrame DEF Claim
    <2>2. \A j \in Jobs : /\ jobs'[j].state = jobs[j].state
                         /\ jobs'[j].completed = jobs[j].completed
        BY <1>1, <2>1 DEF ClaimJobs, Row
    <2> QED
        BY <1>2, <2>1, <2>2 DEF AtHand, Waiting
<1>5. CASE Fetch(w)
    <2> DEFINE found == { j \in todo[w] : Exists(jobs, j) }
    <2>1. /\ UNCHANGED jobs
          /\ todo' = [todo EXCEPT ![w] = found]
          /\ Goto(w, IF found = {} THEN "idle" ELSE "work")
          /\ snap' = [snap EXCEPT ![w] =
                         [j \in Jobs |-> IF j \in found
                                         THEN [jobs[j] EXCEPT !.claim = NoWorker]
                                         ELSE NoRow]]
        BY <1>5 DEF Fetch
    <2>2. found \in SUBSET todo[w]
        OBVIOUS
    <2> HIDE DEF found
    <2>3. ASSUME NEW j \in found
          PROVE  Named(snap'[w][j]) /\ snap'[w][j].state = jobs[j].state
        <3>1. j \in Jobs /\ jobs[j] \in Row /\ Named(jobs[j])
            BY <1>1, <2>2 DEF RowsNamed
        <3>2. snap'[w][j] = [jobs[j] EXCEPT !.claim = NoWorker]
            BY <1>1, <2>1, <3>1
        <3>3. snap'[w][j].state = jobs[j].state /\ snap'[w][j].completed = jobs[j].completed
            BY <3>1, <3>2 DEF Row
        <3> QED
            BY <3>1, <3>3 DEF Named
    <2> QED
        BY <1>2, <1>3, <2>1, <2>2, <2>3
<1>6. CASE FetchFails(w)
    <2>1. UNCHANGED jobs /\ pc'[w] = "idle"
        BY <1>6, GotoFrame DEF FetchFails
    <2> QED
        BY <1>2, <2>1 DEF AtHand, Waiting
<1>7. CASE Save(w) \/ SaveFails(w)
    <2>1. /\ pc[w] = "save" /\ pc'[w] = "release" /\ UNCHANGED << todo, snap >>
          /\ jobs' = jobs \/ jobs' = UpdateJob(jobs, Job(w), Copy(w))
        BY <1>7, GotoFrame DEF Save, SaveFails, Up, outside
    <2>2. Job(w) \in Jobs /\ Copy(w) \in Row /\ Named(Copy(w))
        BY <2>1, AtJob DEF CopyInv, AtHand
    <2>3. RowsNamed' /\ \A j \in Jobs \ {Job(w)} : jobs'[j] = jobs[j]
        <3>1. CASE jobs' = jobs
            BY <1>1, <3>1 DEF RowsNamed
        <3>2. CASE jobs' = UpdateJob(jobs, Job(w), Copy(w))
            BY <1>1, <2>2, <3>2, WriteNamed, UpdateRow
        <3> QED
            BY <2>1, <3>1, <3>2
    <2>4. Waiting(w)'
        BY <1>1, <2>1, <2>3 DEF CopyInv, Waiting, Job
    <2> QED
        BY <2>1, <2>3, <2>4 DEF AtHand
<1>8. CASE Release(w) \/ ReleaseFails(w)
    <2> DEFINE rest == todo[w] \ {Job(w)}
    <2>1. /\ pc[w] = "release" /\ todo' = [todo EXCEPT ![w] = rest]
          /\ Goto(w, IF rest = {} THEN "idle" ELSE "work")
          /\ snap' = [snap EXCEPT ![w] = [@ EXCEPT ![Job(w)] = NoRow]]
          /\ jobs' = jobs \/ jobs' = [jobs EXCEPT ![Job(w)].claim = NoWorker]
        BY <1>8 DEF Release, ReleaseFails, NextJob, Up, ReleaseJobClaim
    <2>2. \A j \in Jobs : /\ jobs'[j].state = jobs[j].state
                         /\ jobs'[j].completed = jobs[j].completed
        <3>1. \A j \in Jobs : jobs[j] \in Row
            BY <1>1
        <3>2. \A j \in Jobs :
                 jobs'[j] = jobs[j] \/ jobs'[j] = [jobs[j] EXCEPT !.claim = NoWorker]
            BY <1>1, <2>1
        <3> QED
            BY <3>1, <3>2 DEF Row
    <2>3. ASSUME NEW j \in rest
          PROVE  Named(snap'[w][j]) /\ snap'[w][j].state = jobs[j].state
        <3>1. j \in Jobs /\ snap'[w][j] = snap[w][j]
            BY <1>1, <2>1
        <3> QED
            BY <2>1, <3>1 DEF CopyInv, Waiting
    <2>4. rest \in SUBSET todo[w]
        OBVIOUS
    <2> HIDE DEF rest
    <2> QED
        BY <1>2, <1>3, <2>1, <2>2, <2>3, <2>4
<1> QED
    BY <1>4, <1>5, <1>6, <1>7, <1>8 DEF LoopStep, LoopFault

(* What a worker's step leaves of the jobs others hold.                    *)
LEMMA HeldByOthers ==
    ASSUME OwnInv, NEW w \in Workers, OwnStep(w), NEW v \in Workers \ {w},
           NEW j \in Jobs, Holds(v, j)
    PROVE  jobs'[j].state = jobs[j].state
<1>1. jobs[j].state \in Handles(v) /\ ~ Holds(w, j)
    BY HandlesApart DEF OwnInv, Owned
<1> QED
    BY <1>1 DEF OwnStep, RowsMoved

(* Whatever a worker does, its copies keep up.                             *)
LEMMA WorkersKeepUp ==
    ASSUME TypeInv, OwnInv, CopyInv, (\E w \in Workers : WorkerStep(w)) \/ WorkerFault
    PROVE  CopyInv'
<1>1. ASSUME NEW w \in Workers, OwnStep(w), AtHand(w)', Waiting(w)', RowsNamed'
      PROVE  CopyInv'
    <2>1. ASSUME NEW v \in Workers \ {w}
          PROVE  AtHand(v)' /\ Waiting(v)'
        BY <1>1, HeldByOthers, OthersKept DEF OwnStep
    <2> QED
        BY <1>1, <2>1 DEF CopyInv
<1>2. ASSUME NEW w \in Workers, Working(w), KeepsUp(w)
      PROVE  CopyInv'
    BY <1>1, <1>2, WorkingOwns, StillWaiting DEF KeepsUp
<1>3. CASE \E w \in Workers : LoopStep(w) \/ LoopFault(w)
    BY <1>1, <1>3, LoopOwns, LoopKeepsUp
<1>4. CASE \/ \E w \in Workers : ProcessStep(w)
           \/ PollerFault \/ DownloaderFault \/ FinalizerFault \/ RemoverFault
    <2>1. /\ Workers = {"submitter", "poller", "downloader", "finalizer", "remover"}
          /\ \/ SubmitterStep \/ PollerStep \/ PollerFault
             \/ DownloaderStep \/ DownloaderFault \/ FinalizerStep
             \/ FinalizerFault \/ RemoverStep \/ RemoverFault
        BY <1>4 DEF ProcessStep, Workers
    <2> QED
        BY <1>2, <2>1, SubmitterWorks, PollerWorks, DownloaderWorks,
           FinalizerWorks, RemoverWorks, SubmitterKeepsUp, PollerKeepsUp,
           DownloaderKeepsUp, FinalizerKeepsUp, RemoverKeepsUp
<1> QED
    BY <1>3, <1>4 DEF WorkerStep, WorkerFault

(* Handlers and the pruner write no row a worker holds.                    *)
LEMMA ClientsKeepUp ==
    ASSUME TypeInv, OwnInv, CopyInv, DeleteWhen \subseteq Ended,
           ClientStep \/ \E j \in Jobs : Prune(j) \/ TimePasses(j)
    PROVE  CopyInv'
<1>1. UNCHANGED << pc, todo, snap >>
    BY DEF ClientStep, SavePayload, SubmitStep, RequestDies, FindDuplicate,
           FindNone, Insert, InsertRejected, QueueForSubmit, Submitted, Step,
           DeleteWrite, DeleteRead, DeleteFrame, ApiFrame, Prune, TimePasses,
           outside
<1>2. ASSUME NEW v \in Workers
      PROVE  AtHand(v)' /\ Waiting(v)'
    <2>1. \A j \in Jobs : Holds(v, j) => jobs'[j].state = jobs[j].state
        BY ClientMoves DEF OwnInv, Owned, FreeMoves
    <2> QED
        BY <1>1, <2>1, OthersKept
<1>3. jobs \in [Jobs -> Row] /\ RowsNamed
    BY DEF TypeInv, TypeOK, CopyInv
<1>4. UNCHANGED jobs => RowsNamed'
    BY <1>3 DEF RowsNamed
<1>5. ASSUME NEW j \in Jobs
      PROVE  ~ Accepted(j).completed
    BY DEF Accepted, NoRow
<1>6. ASSUME NEW j \in Jobs, Insert(j)
      PROVE  RowsNamed'
    <2>1. jobs' = [jobs EXCEPT ![j] = Accepted(j)]
        BY <1>6 DEF Insert, CreateJob
    <2> QED
        BY <1>3, <1>5, <2>1 DEF RowsNamed, Named
<1>7. ASSUME NEW j \in Jobs, QueueForSubmit(j)
      PROVE  RowsNamed'
    <2> DEFINE row == [Accepted(j) EXCEPT !.run = "due", !.state = "submit_pending"]
    <2>1. row \in Row /\ jobs' = UpdateJob(jobs, j, row)
        BY <1>7, AcceptedRow DEF QueueForSubmit
    <2>2. ~ row.completed
        BY <1>5, AcceptedRow DEF Row
    <2> HIDE DEF row
    <2> QED
        BY <1>3, <2>1, <2>2, WriteNamed DEF Named
<1>8. ASSUME NEW d \in Deletes, DeleteWrite(d)
      PROVE  RowsNamed'
    <2>1. djob[d] \in Jobs /\ drow[d] \in Row
        BY <1>8 DEF DeleteWrite, TypeInv, TypeOK, DeleteAtHand
    <2>2. ToRemove(drow[d]) \in Row /\ ToRemove(drow[d]).state = "remove_pending"
        BY <2>1, RowTypes DEF ToRemove, Row
    <2> QED
        BY <1>3, <1>8, <2>1, <2>2, WriteNamed DEF DeleteWrite, Named, Placed
<1>9. ASSUME NEW j \in Jobs, Prune(j)
      PROVE  RowsNamed'
    BY <1>3, <1>9 DEF Prune, DeleteRow, NoRow, RowsNamed, Named
<1>10. ASSUME NEW j \in Jobs, TimePasses(j)
       PROVE  RowsNamed'
    BY <1>3, <1>10 DEF TimePasses, Row, RowsNamed, Named
<1>11. RowsNamed'
    BY <1>4, <1>6, <1>7, <1>8, <1>9, <1>10
    DEF ClientStep, SubmitStep, SavePayload, FindDuplicate, FindNone,
        InsertRejected, RequestDies, DeleteRead
<1> QED
    BY <1>2, <1>11 DEF CopyInv

(* reconcileStartup moves a row along an edge, if at all: an open job that *)
(* has a completed path is completed or waits for its removal already.     *)
LEMMA ReconcileEdge ==
    ASSUME TypeInv, OwnInv, CopyInv, Reconcile
    PROVE  \E j \in pending :
              /\ j \in Jobs
              /\ Reconciled(j) \in Row /\ Named(Reconciled(j))
              /\ jobs' = jobs \/ jobs' = UpdateJob(jobs, j, Reconciled(j))
              /\ \/ Reconciled(j).state = jobs[j].state
                 \/ << jobs[j].state, Reconciled(j).state >> \in Lifecycle!Edges
<1>1. jobs \in [Jobs -> Row] /\ pending \in SUBSET Jobs
    BY DEF TypeInv, TypeOK
<1>2. PICK j \in pending :
          /\ Reconciled(j) \in Row
          /\ jobs' = jobs \/ jobs' = UpdateJob(jobs, j, Reconciled(j))
    BY ReconcileWrites
<1>3. /\ j \in Jobs /\ jobs[j] \in Row /\ Named(jobs[j])
      /\ jobs[j].state \notin ClosedStates
    BY <1>1 DEF CopyInv, RowsNamed, OwnInv, Unreconciled
<1> DEFINE row == [jobs[j] EXCEPT !.staging = TRUE]
           verify == [row EXCEPT !.run = "due", !.state = "local_verify"]
<1>4. /\ row.state = jobs[j].state /\ row.completed = jobs[j].completed
      /\ [row EXCEPT !.run = "due"].state = jobs[j].state
      /\ [row EXCEPT !.run = "due"].completed = jobs[j].completed
      /\ verify.state = "local_verify" /\ verify.completed = jobs[j].completed
    BY <1>3 DEF Row
<1>5. CASE CompletedPathFound(j)
    <2>1. jobs[j].state \in {"completed", "remove_pending"}
        BY <1>3, <1>5 DEF CompletedPathFound, Named, Placed, ClosedStates
    <2>2. Reconciled(j) = jobs[j]
        BY <1>4, <1>5, <2>1 DEF Reconciled
    <2> QED
        BY <1>2, <1>3, <2>2
<1>6. CASE ~ CompletedPathFound(j) /\ Staged(j)
    <2>1. Reconciled(j) = verify
        BY <1>6 DEF Reconciled
    <2>2. jobs[j].state \in { "local_download_pending", "local_downloading",
                              "local_verify" }
        BY <1>6 DEF Staged
    <2>3. Named(verify)
        BY <1>3, <1>4, <2>2 DEF Named, Placed
    <2> HIDE DEF verify
    <2>4. \/ verify.state = jobs[j].state
          \/ << jobs[j].state, verify.state >> \in Lifecycle!Edges
        BY <1>4, <2>2 DEF Lifecycle!Edges
    <2> QED
        BY <1>2, <1>3, <2>1, <2>3, <2>4
<1>7. CASE ~ CompletedPathFound(j) /\ ~ Staged(j)
    <2>1. Reconciled(j) \in {jobs[j], [row EXCEPT !.run = "due"]}
        BY <1>7 DEF Reconciled
    <2> QED
        BY <1>2, <1>3, <1>4, <2>1 DEF Named
<1> QED
    BY <1>5, <1>6, <1>7

(* While the process is down or starting there are no copies.              *)
LEMMA StartupKeepsUp ==
    ASSUME TypeInv, OwnInv, CopyInv, Crash \/ StartupStep
    PROVE  CopyInv'
<1>1. jobs \in [Jobs -> Row] /\ RowsNamed
    BY DEF TypeInv, TypeOK, CopyInv
<1>2. \A w \in Workers : pc'[w] = "idle"
    BY DEF Crash, StartupStep, Restart, Reconcile, Start, StartupFrame, OwnInv,
           Quiet
<1>3. \A w \in Workers : AtHand(w)' /\ Waiting(w)'
    BY <1>2 DEF AtHand, Waiting
<1>4. RowsNamed'
    <2>1. CASE Crash \/ Start
        BY <1>1, <2>1 DEF Crash, Start, RowsNamed
    <2>2. CASE Restart
        BY <1>1, <2>2 DEF Restart, ReleaseAllClaims, Row, RowsNamed, Named
    <2>3. CASE Reconcile
        <3>1. CASE jobs' = jobs
            BY <1>1, <3>1 DEF RowsNamed
        <3> QED
            BY <1>1, <2>3, <3>1, ReconcileEdge, WriteNamed
    <2> QED
        BY <2>1, <2>2, <2>3 DEF StartupStep
<1> QED
    BY <1>3, <1>4 DEF CopyInv

(* Copies keep up with their rows at every step.                           *)
LEMMA CopyInvStep ==
    ASSUME TypeInv, OwnInv, CopyInv, DeleteWhen \subseteq Ended, [Next]_vars
    PROVE  CopyInv'
<1>1. CASE UNCHANGED vars
    BY <1>1 DEF vars, CopyInv, RowsNamed, AtHand, Waiting, Copy, Job
<1> QED
    BY <1>1, WorkersKeepUp, ClientsKeepUp, StartupKeepsUp DEF Next

(* So they do in every state, if clients delete only jobs that have ended. *)
LEMMA CopyInvHolds ==
    ASSUME DeleteWhen \subseteq Ended
    PROVE  Spec => []CopyInv
<1>1. Init => CopyInv
    BY DEF Init, CopyInv, RowsNamed, Named, AtHand, Waiting, NoRow
<1>2. TypeInv /\ OwnInv /\ CopyInv /\ [Next]_vars => CopyInv'
    BY CopyInvStep
<1> QED
    BY <1>1, <1>2, TypeInvHolds, OwnInvHolds, PTL DEF Spec

(***************************************************************************)
(* The refinement.                                                         *)
(***************************************************************************)
(* No job moves, or one does, along an edge.                               *)
EdgeStep ==
    \/ \A j \in Jobs : jobs'[j].state = jobs[j].state
    \/ \E j \in Jobs :
          /\ \A k \in Jobs \ {j} : jobs'[k].state = jobs[k].state
          /\ << jobs[j].state, jobs'[j].state >> \in Lifecycle!Edges

(* A write of a whole row along an edge.                                   *)
LEMMA WriteAlongEdge ==
    ASSUME TypeInv, NEW j \in Jobs, NEW row \in Row,
           \/ row.state = jobs[j].state
           \/ << jobs[j].state, row.state >> \in Lifecycle!Edges,
           jobs' = UpdateJob(jobs, j, row)
    PROVE  EdgeStep
<1>1. \A k \in Jobs \ {j} : jobs'[k] = jobs[k]
    BY UpdateRow
<1>2. jobs' = jobs \/ jobs'[j].state = row.state
    BY UpdateRow
<1> QED
    BY <1>1, <1>2 DEF EdgeStep

(* The two writes in the middle of a process... function.                  *)
LEMMA MidWritesAlongEdge ==
    ASSUME TypeInv, OwnInv, CopyInv,
           \/ \E w \in Workers : ProcessStep(w)
           \/ PollerFault \/ DownloaderFault \/ FinalizerFault \/ RemoverFault
    PROVE  EdgeStep
<1>1. CASE UNCHANGED jobs
    BY <1>1 DEF EdgeStep
<1>2. CASE PollMidWrite \/ PollMidWriteFails
    <2> DEFINE w == "poller"
    <2>1. /\ w \in Workers /\ pc[w] \in {"promote", "adopt"}
          /\ UNCHANGED jobs \/ jobs' = UpdateJob(jobs, Job(w), Copy(w))
        BY <1>2 DEF PollMidWrite, PollMidWriteFails, Polling, Up, PolledJob, Workers
    <2>2. /\ Job(w) \in Jobs /\ Copy(w) \in Row
          /\ jobs[Job(w)].state \in {"remote_queued", "remote_active"}
        BY <2>1, CopyAtHand DEF Handles
    <2>3. Copy(w).state = "remote_active"
        BY <2>1 DEF OwnInv, MidPoll
    <2>4. \/ Copy(w).state = jobs[Job(w)].state
          \/ << jobs[Job(w)].state, Copy(w).state >> \in Lifecycle!Edges
        BY <2>2, <2>3 DEF Lifecycle!Edges
    <2> QED
        BY <1>1, <2>1, <2>2, <2>4, WriteAlongEdge
<1>3. CASE Mark \/ MarkFails
    <2> DEFINE w == "downloader"
    <2>1. /\ w \in Workers /\ pc[w] \in {"mark", "last"}
          /\ UNCHANGED jobs \/ jobs' = UpdateJob(jobs, Job(w), Marked(Copy(w)))
        BY <1>3 DEF Mark, MarkFails, Marking, Downloading, Up, DlJob, DlCopy,
                    Workers
    <2>2. /\ Job(w) \in Jobs /\ Copy(w) \in Row
          /\ jobs[Job(w)].state \in {"local_download_pending", "local_downloading"}
        BY <2>1, CopyAtHand DEF Handles
    <2>3. Marked(Copy(w)) \in Row /\ Marked(Copy(w)).state = "local_downloading"
        BY <2>2, RowTypes DEF Marked, TryAgain, Later, Row
    <2>4. \/ Marked(Copy(w)).state = jobs[Job(w)].state
          \/ << jobs[Job(w)].state, Marked(Copy(w)).state >> \in Lifecycle!Edges
        BY <2>2, <2>3 DEF Lifecycle!Edges
    <2> QED
        BY <1>1, <2>1, <2>2, <2>3, <2>4, WriteAlongEdge
<1>4. CASE SubmitterStep \/ FinalizerStep \/ FinalizerFault \/ RemoverStep
           \/ RemoverFault
    BY <1>1, <1>4
    DEF SubmitterStep, SubmitActive, SubmitQueued, SubmitRetryable,
        SubmitPermanent, Answered, FinalizerStep, FinalizerFault, Verify,
        VerifyFails, PromoteOk, PromoteFails, PromoteFault, PromoteError,
        RemoverStep, RemoverFault, RemoveCompletedPath, RemoveStagingPath,
        RemovePayload, RemoveFails
<1>5. CASE PollerStep \/ PollerFault
    BY <1>1, <1>2, <1>5
    DEF PollerStep, PollerFault, PollActive, PollQueued,
        PollMidWriteRejected, PollFind, PollRecover, PollApplyReady,
        PollApplyFailed, PollApplyRunning, PollAgain, RemoteFailed, Turn,
        FoundActive
<1>6. CASE DownloaderStep \/ DownloaderFault
    BY <1>1, <1>3, <1>6
    DEF DownloaderStep, DownloaderFault, Prepare, PrepareFails, LinksError,
        NoAssets, GetDownloadLinks, Register, RegisterDone, RegisterRejected,
        RegisterFails, RequestOk, RequestBeyondEnd, Request404, Request5xx,
        RequestError, MarkSkipped, MarkRejected, StreamEnd, StreamShort,
        StreamBroken, Recorded, Commit, CommitShort, CommitRejected,
        CommitFails, Finish, FinishFails, Leave, Abandon
<1> QED
    BY <1>4, <1>5, <1>6 DEF ProcessStep

(* The worker's loop: a copy is written one edge ahead of its row.         *)
LEMMA LoopAlongEdge ==
    ASSUME TypeInv, CopyInv, NEW w \in Workers, LoopStep(w) \/ LoopFault(w)
    PROVE  EdgeStep
<1>1. jobs \in [Jobs -> Row]
    BY DEF TypeInv, TypeOK
<1>2. CASE Save(w)
    <2>1. pc[w] = "save" /\ jobs' = UpdateJob(jobs, Job(w), Copy(w))
        BY <1>2 DEF Save, Up
    <2>2. Job(w) \in Jobs /\ Copy(w) \in Row
        BY <2>1, AtJob
    <2>3. \/ Copy(w).state = jobs[Job(w)].state
          \/ << jobs[Job(w)].state, Copy(w).state >> \in Lifecycle!Edges
        BY <2>1 DEF CopyInv, AtHand, Follows
    <2> QED
        BY <2>1, <2>2, <2>3, WriteAlongEdge
<1>3. CASE Claim(w)
    BY <1>1, <1>3 DEF Claim, ClaimJobs, Row, EdgeStep
<1>4. CASE Release(w)
    BY <1>1, <1>4 DEF Release, ReleaseJobClaim, Row, EdgeStep
<1>5. CASE Fetch(w) \/ LoopFault(w)
    BY <1>5 DEF Fetch, LoopFault, FetchFails, SaveFails, ReleaseFails, EdgeStep
<1> QED
    BY <1>2, <1>3, <1>4, <1>5 DEF LoopStep

(* What the handlers and the pruner do.                                    *)
LEMMA ClientsAlongEdge ==
    ASSUME TypeInv, OwnInv, DeleteWhen \subseteq Ended,
           ClientStep \/ \E j \in Jobs : Prune(j) \/ TimePasses(j)
    PROVE  EdgeStep
<1>1. jobs \in [Jobs -> Row]
    BY DEF TypeInv, TypeOK
<1>2. CASE UNCHANGED jobs
    BY <1>2 DEF EdgeStep
<1>3. ASSUME NEW j \in Jobs, Insert(j)
      PROVE  EdgeStep
    <2>1. jobs' = [jobs EXCEPT ![j] = Accepted(j)] /\ jobs[j].state = "absent"
        BY <1>3 DEF Insert, CreateJob, CanInsert, Exists
    <2>2. jobs'[j].state = "accepted" /\ \A k \in Jobs \ {j} : jobs'[k] = jobs[k]
        BY <1>1, <2>1, AcceptedRow
    <2>3. << jobs[j].state, jobs'[j].state >> \in Lifecycle!Edges
        BY <2>1, <2>2 DEF Lifecycle!Edges
    <2> QED
        BY <2>2, <2>3 DEF EdgeStep
<1>4. ASSUME NEW j \in Jobs, QueueForSubmit(j)
      PROVE  EdgeStep
    <2> DEFINE row == [Accepted(j) EXCEPT !.run = "due", !.state = "submit_pending"]
    <2>1. row \in Row /\ row.state = "submit_pending"
          /\ jobs' = UpdateJob(jobs, j, row)
        BY <1>4, AcceptedRow DEF QueueForSubmit
    <2>2. jobs[j].state = "accepted"
        BY <1>4 DEF QueueForSubmit, Step, OwnInv, Requests
    <2> HIDE DEF row
    <2>3. << jobs[j].state, row.state >> \in Lifecycle!Edges
        BY <2>1, <2>2 DEF Lifecycle!Edges
    <2> QED
        BY <2>1, <2>3, WriteAlongEdge
<1>5. ASSUME NEW d \in Deletes, DeleteWrite(d)
      PROVE  EdgeStep
    <2> DEFINE j == djob[d]
               row == ToRemove(drow[d])
    <2>1. /\ j \in Jobs /\ drow[d] \in Row /\ jobs[j].state \in Late
          /\ jobs' = UpdateJob(jobs, j, row)
        BY <1>5 DEF DeleteWrite, OwnInv, DeleteTargets, TypeInv, TypeOK, DeleteAtHand
    <2>2. row \in Row /\ row.state = "remove_pending"
        BY <2>1, RowTypes DEF ToRemove, Row
    <2> HIDE DEF row, j
    <2>3. CASE jobs[j].state = "absent"
        BY <1>2, <2>1, <2>3 DEF UpdateJob, CanUpdate, Exists
    <2>4. CASE jobs[j].state # "absent"
        <3>1. \/ row.state = jobs[j].state
              \/ << jobs[j].state, row.state >> \in Lifecycle!Edges
            BY <2>1, <2>2, <2>4 DEF Late, Ended, Lifecycle!Edges
        <3> QED
            BY <2>1, <2>2, <3>1, WriteAlongEdge
    <2> QED
        BY <2>3, <2>4
<1>6. ASSUME NEW j \in Jobs, Prune(j)
      PROVE  EdgeStep
    <2>1. jobs' = [jobs EXCEPT ![j] = NoRow] /\ jobs[j].state = "removed"
        BY <1>6 DEF Prune, DeleteRow
    <2>2. << jobs[j].state, jobs'[j].state >> \in Lifecycle!Edges
        BY <1>1, <2>1 DEF NoRow, Lifecycle!Edges
    <2> QED
        BY <1>1, <2>1, <2>2 DEF EdgeStep
<1>7. ASSUME NEW j \in Jobs, TimePasses(j)
      PROVE  EdgeStep
    BY <1>1, <1>7 DEF TimePasses, Row, EdgeStep
<1> QED
    BY <1>2, <1>3, <1>4, <1>5, <1>6, <1>7
    DEF ClientStep, SubmitStep, SavePayload, FindDuplicate, FindNone,
        InsertRejected, RequestDies, DeleteRead

(* Every step moves at most one job, along an edge.                        *)
LEMMA StepAlongEdge ==
    ASSUME TypeInv, OwnInv, CopyInv, DeleteWhen \subseteq Ended, [Next]_vars
    PROVE  EdgeStep
<1>1. jobs \in [Jobs -> Row]
    BY DEF TypeInv, TypeOK
<1>2. CASE UNCHANGED jobs
    BY <1>2 DEF EdgeStep
<1>3. CASE \E w \in Workers : LoopStep(w) \/ LoopFault(w)
    BY <1>3, LoopAlongEdge
<1>4. CASE \/ \E w \in Workers : ProcessStep(w)
           \/ PollerFault \/ DownloaderFault \/ FinalizerFault \/ RemoverFault
    BY <1>4, MidWritesAlongEdge
<1>5. CASE ClientStep \/ \E j \in Jobs : Prune(j) \/ TimePasses(j)
    BY <1>5, ClientsAlongEdge
<1>6. CASE Restart
    BY <1>1, <1>6 DEF Restart, ReleaseAllClaims, Row, EdgeStep
<1>7. CASE Reconcile
    BY <1>2, <1>7, ReconcileEdge, WriteAlongEdge
<1>8. CASE Crash \/ Start \/ UNCHANGED vars
    BY <1>2, <1>8 DEF Crash, Start, vars
<1> QED
    BY <1>3, <1>4, <1>5, <1>6, <1>7, <1>8
    DEF Next, WorkerStep, WorkerFault, StartupStep

(* A change of one job's state is a change of the function of states.     *)
LEMMA OneMoves ==
    ASSUME NEW j \in Jobs,
           \A k \in Jobs \ {j} : jobs'[k].state = jobs[k].state
    PROVE  [k \in Jobs |-> jobs'[k].state] =
               [[k \in Jobs |-> jobs[k].state] EXCEPT ![j] = jobs'[j].state]
<1> DEFINE f == [k \in Jobs |-> jobs'[k].state]
           g == [[k \in Jobs |-> jobs[k].state] EXCEPT ![j] = jobs'[j].state]
<1>1. DOMAIN f = Jobs /\ DOMAIN g = Jobs
    OBVIOUS
<1>2. ASSUME NEW k \in Jobs
      PROVE  f[k] = g[k]
    <2>1. CASE k = j
        BY <2>1
    <2>2. CASE k # j
        BY <2>2
    <2> QED
        BY <2>1, <2>2
<1>3. f = [k \in Jobs |-> f[k]] /\ g = [k \in Jobs |-> g[k]]
    OBVIOUS
<1> HIDE DEF f, g
<1>4. f = g
    BY <1>2, <1>3
<1> QED
    BY <1>4 DEF f, g

(* Pipeline implements JobLifecycle: whatever workers, handlers, crashes   *)
(* and stale copies do, the states in the jobs table move along its edges, *)
(* one job at a time, and into an active state only when the key is free   *)
(* (store.go, UpdateJob and the index).                                    *)
THEOREM LifecycleImplemented ==
    ASSUME DeleteWhen \subseteq Ended
    PROVE  Spec => ImplementsLifecycle
<1>1. Init => Lifecycle!LifecycleInit
    BY DEF Init, Lifecycle!LifecycleInit, NoRow
<1>2. TypeInv /\ OwnInv /\ CopyInv /\ [Next]_vars =>
          [Lifecycle!LifecycleNext]_[j \in Jobs |-> jobs[j].state]
    <2> SUFFICES ASSUME TypeInv, OwnInv, CopyInv, [Next]_vars
                 PROVE  \/ Lifecycle!LifecycleNext
                        \/ UNCHANGED [j \in Jobs |-> jobs[j].state]
        OBVIOUS
    <2>1. EdgeStep /\ PastIndex
        BY StepAlongEdge, StepKeys
    <2>2. jobs' \in [Jobs -> Row]
        BY TypeInvStep DEF TypeInv, TypeOK
    <2>3. CASE \A j \in Jobs : jobs'[j].state = jobs[j].state
        BY <2>3
    <2>4. ASSUME NEW j \in Jobs,
                 \A k \in Jobs \ {j} : jobs'[k].state = jobs[k].state,
                 << jobs[j].state, jobs'[j].state >> \in Lifecycle!Edges,
                 jobs'[j].state # jobs[j].state
          PROVE  Lifecycle!LifecycleNext
        <3>0. PICK s \in Lifecycle!JobStates \cup {"absent"} :
                  s = jobs'[j].state
            BY <2>2 DEF Row, JobStates, Lifecycle!JobStates
        <3>1. s \in ActiveStates => Lifecycle!Holder(j) = {}
            <4> SUFFICES ASSUME s \in ActiveStates
                         PROVE  Lifecycle!Holder(j) = {}
                OBVIOUS
            <4>1. IndexAllows(jobs, j, jobs'[j])
                BY <2>1, <2>4, <3>0 DEF PastIndex
            <4>2. FindActiveBySubmissionKey(jobs, KeyOf[j]) \subseteq {j}
                BY <3>0, <4>1 DEF IndexAllows, KeyFree
            <4> QED
                BY <4>2 DEF Lifecycle!Holder, FindActiveBySubmissionKey,
                            Lifecycle!ActiveStates, ActiveStates,
                            Lifecycle!JobStates, JobStates,
                            Lifecycle!ClosedStates, ClosedStates
        <3>2. [k \in Jobs |-> jobs'[k].state] =
                  [[k \in Jobs |-> jobs[k].state] EXCEPT ![j] = s]
            BY <2>4, <3>0, OneMoves
        <3>3. Lifecycle!ActiveStates = ActiveStates
            BY DEF Lifecycle!ActiveStates, ActiveStates, Lifecycle!JobStates,
                   JobStates, Lifecycle!ClosedStates, ClosedStates
        <3>4. << [k \in Jobs |-> jobs[k].state][j], s >> \in Lifecycle!Edges
            BY <2>4, <3>0
        <3>5. Lifecycle!Move(j, s)
            BY <3>1, <3>2, <3>3, <3>4 DEF Lifecycle!Move
        <3> QED
            BY <3>0, <3>5 DEF Lifecycle!LifecycleNext
    <2> QED
        BY <2>1, <2>3, <2>4 DEF EdgeStep
<1>3. Spec => Lifecycle!LifecycleInit
              /\ [][Lifecycle!LifecycleNext]_[j \in Jobs |-> jobs[j].state]
    BY <1>1, <1>2, TypeInvHolds, OwnInvHolds, CopyInvHolds, PTL DEF Spec
<1> QED
    BY <1>3, PTL DEF ImplementsLifecycle, Lifecycle!LifecycleSpec
=============================================================================
