----------------------------- MODULE FileProofs -----------------------------
(***************************************************************************)
(* What is on disk, for any number of jobs, files, crashes and failures:   *)
(* parts recorded as done are there, a completed job has its files, a      *)
(* removed one has none; and what clients are shown of it.  It rests on    *)
(* every row that may yet be written fitting the disk: those in the table, *)
(* the copies the workers hold, and what delete requests have read.        *)
(***************************************************************************)
EXTENDS LifecycleProofs, Projection

(***************************************************************************)
(* The invariant.  d stands for a job's files, p for its parts.            *)
(***************************************************************************)
Listed(p) == { a \in Assets : p[a] # "none" }

AllDone(p) == Listed(p) # {} /\ \A a \in Listed(p) : p[a] = "done"

Kept(d, p) == \A a \in Assets : p[a] = "done" => d.staging /\ d.file[a] = "full"

Bare(d) == ~ (d.final \/ d.staging \/ d.payload)

(* A completed directory no row names (the rename is done, the write that  *)
(* records it is not) belongs to a job in one of these states.             *)
Moved == { "local_downloading", "local_verify" }

Gone == { "remove_pending", "removed" }

Underway == JobStates \ (Ended \cup Gone)

(* The row names what is on disk, and its state is right about it.         *)
Fits(d, p, row) ==
    /\ row.state = "absent" => ~ d.staging /\ ~ d.final /\ p = NoParts
    /\ row.state # "absent" =>
          /\ d.payload => row.payload
          /\ d.staging => row.staging
          /\ d.final => row.completed \/ row.state \in Moved
    /\ row.state \notin Gone \cup {"absent"} => row.staging
    /\ row.state = "removed" => Bare(d)
    /\ row.state = "completed" => d.final
    /\ row.state = "local_verify" => AllDone(p)
    /\ row.state \in Underway => d.final \/ Kept(d, p)

(* What is right about the files whatever the row says.                    *)
Sound(j, d, p) ==
    /\ d.payload => j \in Uploads
    /\ d.final => AllDone(p) /\ Listed(p) \subseteq d.placed /\ d.file = NoFile

RowsFit ==
    \A j \in Jobs : /\ Sound(j, disk[j], parts[j])
                    /\ Fits(disk[j], parts[j], jobs[j])

CopiesFit(w) ==
    pc[w] \notin {"idle", "fetch"} =>
        \A j \in Jobs : Holds(w, j) => Fits(disk[j], parts[j], snap[w][j])

DeletesFit ==
    \A d \in Deletes :
        dreq[d] = "read" =>
            Fits(disk[djob[d]], parts[djob[d]], ToRemove(drow[d]))

(* Where the workers that touch files are.                                 *)
AtParts ==
    LET d == disk[DlJob]
        p == parts[DlJob]
    IN  /\ pc["downloader"] \in {"links", "register", "loop", "mark", "stream",
                                "last", "commit"} => d.staging
        /\ pc["downloader"] \in {"links", "register"} =>
              \A a \in Assets : p[a] # "done"
        /\ pc["downloader"] \in {"loop", "mark", "stream", "last", "commit"} =>
              \A a \in left : p[a] = "registered"
        /\ pc["downloader"] \in {"mark", "stream", "last", "commit"} =>
              d.file[Part] # "absent"

AtRename == pc["finalizer"] = "rename" => Verified(Job("finalizer"))

AtRemoval ==
    /\ pc["remover"] \in {"rmstaging", "rmpayload", "save"} =>
          ~ Copy("remover").completed
    /\ pc["remover"] \in {"rmpayload", "save"} => ~ Copy("remover").staging

Posted(w) ==
    /\ CopiesFit(w)
    /\ w = "downloader" => AtParts
    /\ w = "finalizer" => AtRename
    /\ w = "remover" => AtRemoval

FileInv == RowsFit /\ DeletesFit /\ \A w \in Workers : Posted(w)

(***************************************************************************)
(* Lemmas on single steps.                                                 *)
(***************************************************************************)
Shrunk(d, e) ==
    (e.final => d.final) /\ (e.staging => d.staging) /\ (e.payload => d.payload)

(* Only four columns matter to the files.                                  *)
SameOnDisk(row, new) ==
    /\ new.state = row.state /\ new.staging = row.staging
    /\ new.completed = row.completed /\ new.payload = row.payload

(* A row that differs elsewhere fits as well.                              *)
LEMMA SameFits ==
    ASSUME NEW d, NEW p, NEW row, NEW new, SameOnDisk(row, new), Fits(d, p, row)
    PROVE  Fits(d, p, new)
    BY DEF SameOnDisk, Fits

(* Claims, clocks and counters are elsewhere.                              *)
LEMMA Elsewhere ==
    ASSUME NEW row \in Row
    PROVE  /\ SameOnDisk(row, row)
           /\ \A c : SameOnDisk(row, [row EXCEPT !.claim = c])
           /\ \A r : SameOnDisk(row, [row EXCEPT !.run = r])
           /\ \A r : SameOnDisk(row, [row EXCEPT !.retry = r])
    BY DEF SameOnDisk, Row

(* A job under way keeps fitting when its state moves on, unless the new   *)
(* state says something new of the disk.                                   *)
LEMMA MoveFits ==
    ASSUME NEW d, NEW p, NEW row, NEW new, Fits(d, p, row), row.state \in Underway,
           new.staging = row.staging, new.payload = row.payload,
           new.completed = row.completed,
           new.state \in JobStates \ {"completed", "removed"},
           d.final => new.state \in Moved,
           new.state = "local_verify" => AllDone(p)
    PROVE  Fits(d, p, new)
    BY DEF Fits, Underway, JobStates, Gone

(* What a delete request has read fits as long as the files only go.       *)
LEMMA ShrunkFits ==
    ASSUME NEW d, NEW p, NEW e, NEW q, NEW row, Fits(d, p, row), Shrunk(d, e),
           row.state = "remove_pending"
    PROVE  Fits(e, q, row)
    BY DEF Fits, Shrunk, Moved, Underway, Gone, JobStates

(* A worker that does not move, and whose jobs' files do not change.       *)
LEMMA PostKept ==
    ASSUME TypeInv, NEW v \in Workers, Posted(v),
           todo'[v] = todo[v], pc'[v] = pc[v], snap'[v] = snap[v],
           v = "downloader" => left' = left,
           \A j \in Jobs : Holds(v, j) => disk'[j] = disk[j] /\ parts'[j] = parts[j]
    PROVE  Posted(v)'
<1>1. Job(v)' = Job(v) /\ Copy(v)' = Copy(v)
    BY DEF Job, Copy
<1>2. CopiesFit(v)'
    <2>1. \A j \in Jobs : Holds(v, j)' => Holds(v, j)
        BY <1>1 DEF Holds
    <2> QED
        BY <2>1 DEF Posted, CopiesFit
<1>3. pc[v] \notin {"idle", "release"} =>
          Job(v) \in Jobs /\ Holds(v, Job(v))
    BY AtJob DEF Holds
<1>4. v = "downloader" => AtParts'
    BY <1>1, <1>3 DEF Posted, AtParts, DlJob, Part
<1>5. v = "finalizer" => AtRename'
    BY <1>1, <1>3 DEF Posted, AtRename, Verified, Downloaded, Registered
<1>6. v = "remover" => AtRemoval'
    BY <1>1 DEF Posted, AtRemoval
<1> QED
    BY <1>2, <1>4, <1>5, <1>6 DEF Posted

(* Delete requests in flight, while nobody adds to the files they are for. *)
LEMMA PendingKept ==
    ASSUME TypeInv, DeletesFit, UNCHANGED << dreq, djob, drow >>,
           \A d \in Deletes :
               dreq[d] = "read" => Shrunk(disk[djob[d]], disk'[djob[d]])
    PROVE  DeletesFit'
<1> SUFFICES ASSUME NEW d \in Deletes, dreq[d] = "read"
             PROVE  Fits(disk'[djob[d]], parts'[djob[d]], ToRemove(drow[d]))
    BY DEF DeletesFit
<1>1. ToRemove(drow[d]).state = "remove_pending"
    BY DEF ToRemove, Row, TypeInv, TypeOK
<1> QED
    BY <1>1, ShrunkFits DEF DeletesFit

(* What a step of one worker does to the files.                            *)
FileStep(w) ==
    /\ \A j \in Jobs :
          ~ Holds(w, j) => disk'[j] = disk[j] /\ parts'[j] = parts[j]
    /\ w = "remover" => \A j \in Jobs : Shrunk(disk[j], disk'[j])
    /\ w # "downloader" => left' = left
    /\ UNCHANGED drow
    /\ RowsFit'
    /\ Posted(w)'

(* Such a step keeps the invariant: the others' jobs are not this one's,   *)
(* and delete requests are only ever for jobs that have ended.             *)
LEMMA FileFrame ==
    ASSUME TypeInv, OwnInv, FileInv, DeleteWhen \subseteq Ended,
           NEW w \in Workers, OwnStep(w), FileStep(w)
    PROVE  FileInv'
<1>1. ASSUME NEW v \in Workers \ {w}
      PROVE  Posted(v)'
    <2>1. ASSUME NEW j \in Jobs, Holds(v, j)
          PROVE  ~ Holds(w, j)
        BY <2>1, HandlesApart DEF OwnInv, Owned
    <2>2. v = "downloader" => left' = left
        BY DEF FileStep
    <2> QED
        BY <2>1, <2>2, PostKept DEF FileStep, OwnStep, FileInv
<1>2. DeletesFit'
    <2>1. ASSUME NEW d \in Deletes, dreq[d] = "read"
          PROVE  Shrunk(disk[djob[d]], disk'[djob[d]])
        <3>1. djob[d] \in Jobs /\ jobs[djob[d]].state \in Late
            BY <2>1 DEF OwnInv, DeleteTargets, TypeInv, DeleteAtHand
        <3>2. CASE Holds(w, djob[d])
            <4>1. jobs[djob[d]].state \in Handles(w)
                BY <3>1, <3>2 DEF OwnInv, Owned
            <4>2. jobs[djob[d]].state = "remove_pending"
                BY <3>1, <4>1, HandlesApart DEF Late, Ended
            <4>3. w = "remover"
                BY <4>1, <4>2, HandlesApart
            <4> QED
                BY <3>1, <4>3 DEF FileStep
        <3>3. CASE ~ Holds(w, djob[d])
            BY <3>1, <3>3 DEF FileStep, Shrunk
        <3> QED
            BY <3>2, <3>3
    <2> QED
        BY <2>1, PendingKept DEF FileStep, OwnStep, FileInv
<1> QED
    BY <1>1, <1>2 DEF FileInv, FileStep

(* At the labels all workers share there is only the batch to speak of.    *)
LEMMA PostShared ==
    ASSUME NEW w \in Workers, pc'[w] \in {"idle", "fetch", "work", "release"},
           CopiesFit(w)'
    PROVE  Posted(w)'
    BY DEF Posted, AtParts, AtRename, AtRemoval

(* The loop around process... touches no file: it writes a copy that fits, *)
(* or reads one.                                                           *)
LEMMA LoopFiles ==
    ASSUME TypeInv, OwnInv, FileInv, NEW w \in Workers, LoopStep(w) \/ LoopFault(w)
    PROVE  FileStep(w)
<1>1. /\ jobs \in [Jobs -> Row] /\ todo \in [Workers -> SUBSET Jobs]
      /\ pc \in [Workers -> Labels] /\ snap \in [Workers -> [Jobs -> Row]]
    BY DEF TypeInv, TypeOK
<1>2. /\ UNCHANGED << disk, parts, drow >>
      /\ w # "downloader" => left' = left
    BY DEF LoopStep, LoopFault, Claim, Fetch, FetchFails, Save, SaveFails,
           Release, ReleaseFails, NextJob, outside, world
<1>3. ASSUME \A j \in Jobs : SameOnDisk(jobs[j], jobs'[j])
      PROVE  RowsFit'
    BY <1>2, <1>3, SameFits DEF FileInv, RowsFit
<1>4. ASSUME \A j \in Jobs :
                \/ jobs'[j] = jobs[j]
                \/ \E c : jobs'[j] = [jobs[j] EXCEPT !.claim = c]
      PROVE  RowsFit'
    <2>1. ASSUME NEW j \in Jobs
          PROVE  SameOnDisk(jobs[j], jobs'[j])
        <3>1. jobs[j] \in Row
            BY <1>1
        <3>2. CASE jobs'[j] = jobs[j]
            BY <3>1, <3>2, Elsewhere
        <3>3. ASSUME NEW c, jobs'[j] = [jobs[j] EXCEPT !.claim = c]
              PROVE  SameOnDisk(jobs[j], jobs'[j])
            BY <3>1, <3>3 DEF SameOnDisk, Row
        <3> QED
            BY <1>4, <3>2, <3>3
    <2> QED
        BY <1>3, <2>1
<1>5. ASSUME RowsFit', CopiesFit(w)', pc'[w] \in {"idle", "fetch", "work", "release"}
      PROVE  FileStep(w)
    BY <1>2, <1>5, PostShared DEF FileStep, Shrunk
<1>6. CASE Claim(w)
    <2>1. pc'[w] = "fetch" /\ jobs' = ClaimJobs(jobs, w, DueBatch(jobs, Handles(w)))
        BY <1>6, GotoFrame DEF Claim
    <2>2. RowsFit'
        BY <1>1, <1>4, <2>1 DEF ClaimJobs
    <2> QED
        BY <1>5, <2>1, <2>2 DEF CopiesFit
<1>7. CASE Fetch(w)
    <2> DEFINE found == { j \in todo[w] : Exists(jobs, j) }
    <2>1. /\ UNCHANGED jobs
          /\ todo' = [todo EXCEPT ![w] = found]
          /\ Goto(w, IF found = {} THEN "idle" ELSE "work")
          /\ snap' = [snap EXCEPT ![w] =
                         [j \in Jobs |-> IF j \in found
                                         THEN [jobs[j] EXCEPT !.claim = NoWorker]
                                         ELSE NoRow]]
        BY <1>7 DEF Fetch
    <2> HIDE DEF found
    <2>2. pc'[w] \in {"idle", "work"} /\ todo'[w] = found
        BY <1>1, <2>1, GotoFrame
    <2>3. ASSUME NEW j \in Jobs, j \in found
          PROVE  Fits(disk'[j], parts'[j], snap'[w][j])
        <3>1. snap'[w][j] = [jobs[j] EXCEPT !.claim = NoWorker] /\ jobs[j] \in Row
            BY <1>1, <2>1, <2>3
        <3> QED
            BY <1>2, <3>1, Elsewhere, SameFits DEF FileInv, RowsFit
    <2>4. CopiesFit(w)'
        BY <2>2, <2>3 DEF CopiesFit, Holds
    <2> QED
        BY <1>1, <1>4, <1>5, <2>1, <2>2, <2>4
<1>8. CASE FetchFails(w)
    <2>1. UNCHANGED jobs /\ pc'[w] = "idle"
        BY <1>8, GotoFrame DEF FetchFails
    <2> QED
        BY <1>4, <1>5, <2>1 DEF CopiesFit
<1>9. CASE Save(w) \/ SaveFails(w)
    <2>1. /\ pc[w] = "save" /\ pc'[w] = "release" /\ UNCHANGED << todo, snap >>
          /\ jobs' = jobs \/ jobs' = UpdateJob(jobs, Job(w), Copy(w))
        BY <1>9, GotoFrame DEF Save, SaveFails, Up, outside
    <2>2. /\ Job(w) \in Jobs /\ Copy(w) \in Row
          /\ Fits(disk[Job(w)], parts[Job(w)], Copy(w))
        BY <2>1, AtJob DEF FileInv, Posted, CopiesFit, Holds, Copy
    <2>3. RowsFit'
        <3>1. CASE jobs' = jobs
            BY <1>4, <3>1
        <3>2. CASE jobs' = UpdateJob(jobs, Job(w), Copy(w))
            <4>1. /\ \A k \in Jobs \ {Job(w)} : jobs'[k] = jobs[k]
                  /\ \/ jobs' = jobs
                     \/ jobs'[Job(w)] = [Copy(w) EXCEPT !.claim = NoWorker]
                BY <1>1, <2>2, <3>2, UpdateJobType
            <4>2. Fits(disk[Job(w)], parts[Job(w)], [Copy(w) EXCEPT !.claim = NoWorker])
                BY <2>2, Elsewhere, SameFits
            <4> QED
                BY <1>2, <2>2, <4>1, <4>2 DEF FileInv, RowsFit
        <3> QED
            BY <2>1, <3>1, <3>2
    <2>4. CopiesFit(w)'
        <3>1. \A j \in Jobs : Holds(w, j)' => Holds(w, j)
            BY <2>1 DEF Holds
        <3> QED
            BY <1>2, <2>1, <3>1 DEF FileInv, Posted, CopiesFit
    <2> QED
        BY <1>5, <2>1, <2>3, <2>4
<1>10. CASE Release(w) \/ ReleaseFails(w)
    <2> DEFINE rest == todo[w] \ {Job(w)}
    <2>1. /\ pc[w] = "release" /\ todo' = [todo EXCEPT ![w] = rest]
          /\ Goto(w, IF rest = {} THEN "idle" ELSE "work")
          /\ snap' = [snap EXCEPT ![w] = [@ EXCEPT ![Job(w)] = NoRow]]
          /\ jobs' = jobs \/ jobs' = [jobs EXCEPT ![Job(w)].claim = NoWorker]
        BY <1>10 DEF Release, ReleaseFails, NextJob, Up, ReleaseJobClaim
    <2>2. RowsFit'
        BY <1>1, <1>4, <2>1
    <2>3. pc'[w] \in {"idle", "work"} /\ todo'[w] = rest
        BY <1>1, <2>1, GotoFrame
    <2>4. ASSUME NEW j \in Jobs, j \in rest
          PROVE  snap'[w][j] = snap[w][j] /\ Holds(w, j)
        BY <1>1, <2>1, <2>4 DEF Holds
    <2>5. CopiesFit(w)'
        BY <1>2, <2>1, <2>3, <2>4 DEF FileInv, Posted, CopiesFit, Holds
    <2> QED
        BY <1>5, <2>2, <2>3, <2>5
<1> QED
    BY <1>6, <1>7, <1>8, <1>9, <1>10 DEF LoopStep, LoopFault

(* What a worker in the middle of a job knows of its row, copy and files.  *)
LEMMA FilesAtHand ==
    ASSUME TypeInv, OwnInv, CopyInv, FileInv, NEW w \in Workers,
           pc[w] \notin {"idle", "fetch", "release", "save"},
           NEW j, j = Job(w)
    PROVE  /\ j \in Jobs /\ Holds(w, j) /\ snap[w][j] = Copy(w)
           /\ Copy(w) \in Row /\ jobs[j] \in Row /\ disk[j] \in Files
           /\ parts[j] \in [Assets -> PartStates]
           /\ jobs[j].state \in Handles(w)
           /\ Sound(j, disk[j], parts[j])
           /\ Fits(disk[j], parts[j], jobs[j])
           /\ Fits(disk[j], parts[j], Copy(w))
           /\ w # "remover" => jobs[j].state \in Underway /\ ~ jobs[j].completed
<1>1. j \in Jobs /\ j \in todo[w] /\ Copy(w) \in Row /\ snap[w][j] = Copy(w)
    BY AtJob DEF Copy
<1>2. Holds(w, j)
    BY <1>1 DEF Holds
<1>3. jobs[j].state \in Handles(w)
    BY <1>1, <1>2 DEF OwnInv, Owned
<1>4. Fits(disk[j], parts[j], Copy(w))
    BY <1>1, <1>2 DEF FileInv, Posted, CopiesFit
<1>5. w # "remover" => jobs[j].state \in Underway /\ jobs[j].state \notin Placed
    BY <1>3, HandlesApart DEF Underway, JobStates, Ended, Gone, Placed
<1>6. /\ Sound(j, disk[j], parts[j]) /\ Fits(disk[j], parts[j], jobs[j])
      /\ jobs[j] \in Row /\ disk[j] \in Files
      /\ parts[j] \in [Assets -> PartStates] /\ Named(jobs[j])
    BY <1>1 DEF FileInv, RowsFit, TypeInv, TypeOK, CopyInv, RowsNamed
<1> QED
    BY <1>1, <1>2, <1>3, <1>4, <1>5, <1>6 DEF Named

(* A step inside process... is as good as what it leaves of the job at     *)
(* hand.                                                                   *)
LEMMA AtHandFiles ==
    ASSUME TypeInv, OwnInv, FileInv, NEW w \in Workers, Working(w),
           pc[w] # "fetch", UNCHANGED snap \/ (\E row : SetCopy(w, row)),
           NEW j, j = Job(w),
           \A k \in Jobs \ {j} : disk'[k] = disk[k] /\ parts'[k] = parts[k],
           Sound(j, disk'[j], parts'[j]),
           Fits(disk'[j], parts'[j], jobs'[j]),
           pc'[w] = "release" \/ Fits(disk'[j], parts'[j], Copy(w)'),
           w = "remover" => Shrunk(disk[j], disk'[j]) /\ AtRemoval',
           w = "finalizer" => AtRename',
           w = "downloader" => AtParts',
           w # "downloader" => left' = left,
           UNCHANGED drow
    PROVE  FileStep(w)
<1>1. /\ pc[w] \notin {"idle", "fetch", "save", "release"} /\ UNCHANGED todo
      /\ j \in Jobs /\ j \in todo[w]
    BY AtJob DEF Working, Apart
<1>2. Job(w)' = j /\ Copy(w)' = snap'[w][j]
    BY <1>1 DEF Job, Copy
<1>3. ASSUME NEW k \in Jobs \ {j}
      PROVE  jobs'[k] = jobs[k] /\ snap'[w][k] = snap[w][k]
    <2>1. jobs'[k] = jobs[k]
        BY DEF Working, OwnRowOnly
    <2>2. snap'[w][k] = snap[w][k]
        BY <1>1 DEF SetCopy, TypeInv, TypeOK
    <2> QED
        BY <2>1, <2>2
<1>4. RowsFit'
    BY <1>3 DEF RowsFit, FileInv
<1>5. CopiesFit(w)'
    <2> SUFFICES ASSUME pc'[w] \notin {"idle", "fetch"}, NEW k \in Jobs, Holds(w, k)'
                 PROVE  Fits(disk'[k], parts'[k], snap'[w][k])
        BY DEF CopiesFit
    <2>1. CASE k = j
        BY <1>2, <2>1 DEF Holds
    <2>2. CASE k # j
        BY <1>1, <1>2, <1>3, <2>2 DEF Holds, FileInv, Posted, CopiesFit
    <2> QED
        BY <2>1, <2>2
<1>6. Posted(w)'
    BY <1>5 DEF Posted
<1>7. \A k \in Jobs : ~ Holds(w, k) => disk'[k] = disk[k] /\ parts'[k] = parts[k]
    BY <1>1 DEF Holds
<1>8. w = "remover" => \A k \in Jobs : Shrunk(disk[k], disk'[k])
    BY DEF Shrunk
<1> QED
    BY <1>4, <1>6, <1>7, <1>8 DEF FileStep

(* The submitter's job has no files but its payload.                       *)
LEMMA SubmitterFiles ==
    ASSUME TypeInv, OwnInv, CopyInv, FileInv, SubmitterStep
    PROVE  FileStep("submitter")
<1> DEFINE w == "submitter"
           c == Copy(w)
<1>1. w \in Workers /\ pc[w] = "work"
    BY DEF SubmitterStep, SubmitActive, SubmitQueued, SubmitRetryable,
           SubmitPermanent, Submitting, Up, Workers
<1>2. PICK j : j = Job(w)
    OBVIOUS
<1>3. /\ j \in Jobs /\ c \in Row /\ Fits(disk[j], parts[j], c)
      /\ Sound(j, disk[j], parts[j]) /\ Fits(disk[j], parts[j], jobs[j])
      /\ jobs[j].state \in {"submit_pending", "submit_retry"}
      /\ ~ jobs[j].completed /\ c.state = jobs[j].state
    BY <1>1, <1>2, FilesAtHand, CopyAtHand DEF Handles
<1>4. ~ disk[j].final /\ c.state \in Underway
    BY <1>3 DEF Fits, Moved, Underway, JobStates, Ended, Gone
<1>5. ASSUME NEW row, Answered(row), row.staging = c.staging,
             row.completed = c.completed, row.payload = c.payload,
             row.state \in {"remote_active", "remote_queued", "submit_retry",
                            "remote_failed"}
      PROVE  FileStep(w)
    <2>1. /\ SetCopy(w, row) /\ Goto(w, "save")
          /\ UNCHANGED << jobs, parts, disk, todo, left, drow >>
        BY <1>5 DEF Answered, WriteBack, outside
    <2>2. Fits(disk[j], parts[j], row)
        BY <1>3, <1>4, <1>5, MoveFits DEF JobStates
    <2>3. Copy(w)' = row
        BY <1>1, <2>1, CopyAfter
    <2> QED
        BY <1>1, <1>2, <1>3, <2>1, <2>2, <2>3, SubmitterWorks, AtHandFiles
<1>6. \A q \in BOOLEAN :
         /\ [Created(c) EXCEPT !.queued = q].state = "remote_active"
         /\ [Created(c) EXCEPT !.queued = q].completed = c.completed
         /\ [Created(c) EXCEPT !.queued = q].staging = c.staging
         /\ [Created(c) EXCEPT !.queued = q].payload = c.payload
         /\ Queued(c, q).state = "remote_queued"
         /\ Queued(c, q).completed = c.completed
         /\ Queued(c, q).staging = c.staging
         /\ Queued(c, q).payload = c.payload
    BY <1>3 DEF Created, Queued, Row
<1>7. /\ Retried(c).state = "submit_retry" /\ Retried(c).completed = c.completed
      /\ Retried(c).staging = c.staging /\ Retried(c).payload = c.payload
      /\ Rejected(c).state = "remote_failed" /\ Rejected(c).completed = c.completed
      /\ Rejected(c).staging = c.staging /\ Rejected(c).payload = c.payload
    BY <1>3 DEF Retried, Rejected, Row
<1> HIDE DEF w, c
<1> QED
    BY <1>5, <1>6, <1>7
    DEF SubmitterStep, SubmitActive, SubmitQueued, SubmitRetryable,
        SubmitPermanent, w, c

(* A whole row that fits still does once it is written.                    *)
LEMMA WrittenFits ==
    ASSUME TypeInv, NEW j \in Jobs, NEW row \in Row, NEW d, NEW p,
           Fits(d, p, row), Fits(d, p, jobs[j]),
           jobs' = jobs \/ jobs' = UpdateJob(jobs, j, row)
    PROVE  Fits(d, p, jobs'[j])
<1>1. jobs \in [Jobs -> Row]
    BY DEF TypeInv, TypeOK
<1>2. jobs' = jobs \/ jobs'[j] = [row EXCEPT !.claim = NoWorker]
    BY <1>1, UpdateJobType
<1>3. Fits(d, p, [row EXCEPT !.claim = NoWorker])
    BY Elsewhere, SameFits
<1> QED
    BY <1>2, <1>3

(* Neither has the poller's.                                               *)
LEMMA PollerFiles ==
    ASSUME TypeInv, OwnInv, CopyInv, FileInv, PollerStep \/ PollerFault
    PROVE  FileStep("poller")
<1> DEFINE w == "poller"
           c == Copy(w)
<1>1. /\ w \in Workers
      /\ pc[w] \in {"work", "promote", "adopt", "find", "recover", "apply"}
    BY DEF PollerStep, PollerFault, PollActive, PollQueued, PollMidWrite,
           PollMidWriteRejected, PollMidWriteFails, PollFind, PollRecover,
           PollApplyReady, PollApplyFailed, PollApplyRunning, Polling, Up, Workers
<1>2. PollerFrame
    BY DEF PollerStep, PollerFault, PollActive, PollQueued, PollMidWrite,
           PollMidWriteRejected, PollMidWriteFails, PollFind, PollRecover,
           PollApplyReady, PollApplyFailed, PollApplyRunning, PollAgain,
           RemoteFailed, Turn, FoundActive
<1>3. UNCHANGED << disk, parts, todo, left, drow >>
    BY <1>2 DEF PollerFrame, world, outside
<1>4. PICK j : j = Job(w)
    OBVIOUS
<1>5. /\ j \in Jobs /\ c \in Row /\ Fits(disk[j], parts[j], c)
      /\ Sound(j, disk[j], parts[j]) /\ Fits(disk[j], parts[j], jobs[j])
      /\ jobs[j].state \in {"remote_queued", "remote_active"}
      /\ ~ jobs[j].completed
    BY <1>1, <1>4, FilesAtHand DEF Handles
<1>6. c.state \in {"remote_queued", "remote_active"}
    BY <1>1, <1>4, <1>5, CopyAtHand DEF OwnInv, MidPoll
<1>7. ~ disk[j].final /\ c.state \in Underway
    BY <1>5, <1>6 DEF Fits, Moved, Underway, JobStates, Ended, Gone
<1>8. ASSUME jobs' = jobs \/ jobs' = UpdateJob(jobs, Job(w), c),
             NEW row, SetCopy(w, row) \/ (UNCHANGED snap /\ row = c),
             row.staging = c.staging, row.completed = c.completed,
             row.payload = c.payload,
             row.state \in {"remote_queued", "remote_active", "remote_failed",
                            "local_download_pending"}
      PROVE  FileStep(w)
    <2>1. Fits(disk[j], parts[j], row)
        BY <1>5, <1>7, <1>8, MoveFits DEF JobStates
    <2>2. Copy(w)' = row
        BY <1>1, <1>3, <1>8, CopyAfter DEF Copy, Job
    <2>3. Fits(disk[j], parts[j], jobs'[j])
        BY <1>4, <1>5, <1>8, WrittenFits
    <2> QED
        BY <1>1, <1>3, <1>4, <1>5, <1>8, <2>1, <2>2, <2>3, PollerWorks, AtHandFiles
<1>9. \/ jobs' = jobs
      \/ jobs' = UpdateJob(jobs, Job(w), c)
    BY DEF PollerStep, PollerFault, PollActive, PollQueued, PollMidWrite,
           PollMidWriteRejected, PollMidWriteFails, PollFind, PollRecover,
           PollApplyReady, PollApplyFailed, PollApplyRunning, PollAgain,
           RemoteFailed, Turn, FoundActive, PolledJob
<1>10. \/ UNCHANGED snap
       \/ SetCopy(w, Later(c))
       \/ SetCopy(w, [c EXCEPT !.run = "nil", !.state = "remote_failed"])
       \/ SetCopy(w, [c EXCEPT !.remote = TRUE, !.state = "remote_active"])
       \/ SetCopy(w, Ready(c))
    BY DEF PollerStep, PollerFault, PollActive, PollQueued, PollMidWrite,
           PollMidWriteRejected, PollMidWriteFails, PollFind, PollRecover,
           PollApplyReady, PollApplyFailed, PollApplyRunning, PollAgain,
           RemoteFailed, Turn, FoundActive, PolledJob, WriteBack, GiveUp
<1>11. CASE UNCHANGED snap
    BY <1>6, <1>8, <1>9, <1>11
<1>12. CASE SetCopy(w, Later(c))
    <2>1. /\ Later(c).state = c.state /\ Later(c).staging = c.staging
          /\ Later(c).completed = c.completed /\ Later(c).payload = c.payload
        BY <1>5 DEF Later, Row
    <2> QED
        BY <1>6, <1>8, <1>9, <1>12, <2>1
<1>13. CASE SetCopy(w, [c EXCEPT !.run = "nil", !.state = "remote_failed"])
    <2> DEFINE row == [c EXCEPT !.run = "nil", !.state = "remote_failed"]
    <2>1. /\ row.state = "remote_failed" /\ row.staging = c.staging
          /\ row.completed = c.completed /\ row.payload = c.payload
        BY <1>5 DEF Row
    <2> HIDE DEF row
    <2> QED
        BY <1>8, <1>9, <1>13, <2>1 DEF row
<1>14. CASE SetCopy(w, [c EXCEPT !.remote = TRUE, !.state = "remote_active"])
    <2> DEFINE row == [c EXCEPT !.remote = TRUE, !.state = "remote_active"]
    <2>1. /\ row.state = "remote_active" /\ row.staging = c.staging
          /\ row.completed = c.completed /\ row.payload = c.payload
        BY <1>5 DEF Row
    <2> HIDE DEF row
    <2> QED
        BY <1>8, <1>9, <1>14, <2>1 DEF row
<1>15. CASE SetCopy(w, Ready(c))
    <2>1. /\ Ready(c).state = "local_download_pending"
          /\ Ready(c).staging = c.staging
          /\ Ready(c).completed = c.completed /\ Ready(c).payload = c.payload
        BY <1>5 DEF Ready, Row
    <2> QED
        BY <1>8, <1>9, <1>15, <2>1
<1> QED
    BY <1>10, <1>11, <1>12, <1>13, <1>14, <1>15

(* The finalizer renames a directory it has just found whole, and fails no *)
(* job whose directory is renamed.                                         *)
LEMMA FinalizerFiles ==
    ASSUME TypeInv, OwnInv, CopyInv, FileInv, FinalizerStep \/ FinalizerFault
    PROVE  FileStep("finalizer")
<1> DEFINE w == "finalizer"
           c == Copy(w)
<1>1. w \in Workers /\ pc[w] \in {"work", "rename"}
    BY DEF FinalizerStep, FinalizerFault, Verify, VerifyFails, PromoteOk,
           PromoteFails, PromoteFault, Finalizing, Up, Workers
<1>2. UNCHANGED << jobs, parts, todo, left, drow >>
    BY DEF FinalizerStep, FinalizerFault, Verify, VerifyFails, PromoteOk,
           PromoteFails, PromoteFault, PromoteError, outside, world
<1>3. PICK j : j = Job(w)
    OBVIOUS
<1>4. /\ j \in Jobs /\ c \in Row /\ disk[j] \in Files
      /\ Fits(disk[j], parts[j], c)
      /\ Sound(j, disk[j], parts[j]) /\ Fits(disk[j], parts[j], jobs[j])
      /\ jobs[j].state = "local_verify"
      /\ ~ jobs[j].completed /\ c.state = "local_verify" /\ ~ c.completed
    <2>1. /\ j \in Jobs /\ c \in Row /\ disk[j] \in Files
          /\ Fits(disk[j], parts[j], c)
          /\ Sound(j, disk[j], parts[j]) /\ Fits(disk[j], parts[j], jobs[j])
          /\ jobs[j].state \in {"local_verify"}
          /\ ~ jobs[j].completed
        BY <1>1, <1>3, FilesAtHand DEF Handles
    <2>2. c.state = jobs[j].state /\ ~ c.completed
        BY <1>1, <1>3, <2>1, CopyAtHand DEF Handles
    <2> QED
        BY <2>1, <2>2
<1>5. /\ AllDone(parts[j]) /\ Registered(j) = Listed(parts[j])
      /\ c.state \in Underway /\ c.staging
    BY <1>4 DEF Fits, Registered, Listed, Underway, JobStates, Ended, Gone
<1>6. Verified(j) => ~ disk[j].final
    <2> SUFFICES ASSUME Verified(j), disk[j].final
                 PROVE  FALSE
        OBVIOUS
    <2>1. PICK a \in Registered(j) : disk[j].file[a] = "full"
        BY DEF Verified, Downloaded
    <2>2. disk[j].file[a] = "absent"
        BY <1>4, <2>1 DEF Sound, NoFile, Registered
    <2> QED
        BY <2>1, <2>2
<1>7. pc[w] = "rename" => Verified(j)
    BY <1>1, <1>3 DEF FileInv, Posted, AtRename
<1>8. ASSUME UNCHANGED disk, NEW label \in {"save", "rename", "release"},
             Goto(w, label), label = "rename" => Verified(j),
             NEW row, SetCopy(w, row) \/ (UNCHANGED snap /\ row = c),
             row.staging = c.staging, row.completed = c.completed,
             row.payload = c.payload,
             row.state \in {"local_verify", "local_downloading", "failed"},
             row.state = "failed" => Verified(j)
      PROVE  FileStep(w)
    <2>1. Fits(disk[j], parts[j], row)
        BY <1>4, <1>5, <1>6, <1>8, MoveFits DEF JobStates, Moved
    <2>2. Copy(w)' = row
        BY <1>1, <1>2, <1>8, CopyAfter DEF Copy, Job
    <2>3. AtRename'
        <3>1. Job(w)' = j /\ pc'[w] = label
            BY <1>1, <1>2, <1>3, <1>8, GotoFrame DEF Job
        <3> QED
            BY <1>2, <1>8, <3>1 DEF AtRename, Verified, Downloaded, Registered
    <2> QED
        BY <1>1, <1>2, <1>3, <1>4, <1>8, <2>1, <2>2, <2>3, FinalizerWorks,
           AtHandFiles
<1>9. CASE Verify
    <2>1. \/ /\ Registered(j) = {}
             /\ WriteBack(w, [c EXCEPT !.state = "failed"])
          \/ WriteBack(w, [c EXCEPT !.run = "later", !.state = "local_downloading"])
          \/ Verified(j) /\ Goto(w, "rename") /\ UNCHANGED snap
        BY <1>3, <1>9 DEF Verify
    <2>2. Registered(j) # {}
        BY <1>5 DEF AllDone
    <2> DEFINE row == [c EXCEPT !.run = "later", !.state = "local_downloading"]
    <2>3. /\ row.state = "local_downloading" /\ row.staging = c.staging
          /\ row.completed = c.completed /\ row.payload = c.payload
        BY <1>4 DEF Row
    <2>4. UNCHANGED disk
        BY <1>9 DEF Verify, world
    <2> HIDE DEF row
    <2>5. CASE WriteBack(w, row)
        BY <1>8, <2>3, <2>4, <2>5 DEF WriteBack
    <2>6. CASE Verified(j) /\ Goto(w, "rename") /\ UNCHANGED snap
        BY <1>4, <1>8, <2>4, <2>6
    <2> QED
        BY <2>1, <2>2, <2>5, <2>6 DEF row
<1>10. CASE VerifyFails
    BY <1>4, <1>8, <1>10 DEF VerifyFails, GiveUp, world
<1>11. CASE PromoteFails \/ PromoteFault
    <2> DEFINE row == [c EXCEPT !.state = "failed"]
    <2>1. WriteBack(w, row) /\ UNCHANGED disk /\ pc[w] = "rename"
        BY <1>11 DEF PromoteFails, PromoteFault, PromoteError, Finalizing, Up, world
    <2>2. /\ row.state = "failed" /\ row.staging = c.staging
          /\ row.completed = c.completed /\ row.payload = c.payload
        BY <1>4 DEF Row
    <2> HIDE DEF row
    <2> QED
        BY <1>7, <1>8, <2>1, <2>2 DEF WriteBack
<1>12. CASE PromoteOk
    <2> DEFINE row == [c EXCEPT !.completed = TRUE, !.run = "nil",
                                !.state = "completed"]
               d == Promoted(disk[j])
    <2>1. /\ SetCopy(w, row) /\ Goto(w, "save") /\ pc[w] = "rename"
          /\ disk' = [disk EXCEPT ![j] = d]
        BY <1>3, <1>12 DEF PromoteOk, WriteBack, Finalizing, Up
    <2>2. /\ row.state = "completed" /\ row.staging = c.staging
          /\ row.completed /\ row.payload = c.payload
        BY <1>4 DEF Row
    <2>3. /\ d.final /\ ~ d.staging /\ d.file = NoFile
          /\ d.payload = disk[j].payload
          /\ d.placed = { a \in Assets : disk[j].file[a] = "full" }
        BY <1>4 DEF Promoted, RemoveStaging, Files
    <2>4. Listed(parts[j]) \subseteq d.placed
        BY <1>5, <1>7, <2>1, <2>3 DEF Verified, Downloaded, Listed
    <2>5. disk'[j] = d /\ \A k \in Jobs \ {j} : disk'[k] = disk[k]
        BY <1>4, <2>1 DEF TypeInv, TypeOK
    <2> HIDE DEF row, d
    <2>6. Sound(j, d, parts[j])
        BY <1>4, <1>5, <2>3, <2>4 DEF Sound
    <2>7. Fits(d, parts[j], jobs[j])
        BY <1>4, <1>5, <2>3 DEF Fits, Moved, Gone
    <2>8. Fits(d, parts[j], row)
        BY <1>4, <1>5, <2>2, <2>3 DEF Fits, Gone, Underway, Ended
    <2>9. Copy(w)' = row /\ pc'[w] = "save"
        BY <1>1, <1>2, <2>1, CopyAfter, GotoFrame
    <2>10. AtRename'
        BY <2>9 DEF AtRename
    <2> QED
        BY <1>1, <1>2, <1>3, <2>1, <2>5, <2>6, <2>7, <2>8, <2>9, <2>10,
           FinalizerWorks, AtHandFiles
<1> QED
    BY <1>9, <1>10, <1>11, <1>12 DEF FinalizerStep, FinalizerFault

(* The remover's copy stops naming a path when the path is gone, and says  *)
(* removed when it names none.                                             *)
LEMMA RemoverFiles ==
    ASSUME TypeInv, OwnInv, CopyInv, FileInv, RemoverStep \/ RemoverFault
    PROVE  FileStep("remover")
<1> DEFINE w == "remover"
           c == Copy(w)
<1>1. w \in Workers /\ pc[w] \in {"work", "rmstaging", "rmpayload"}
    BY DEF RemoverStep, RemoverFault, RemoveCompletedPath, RemoveStagingPath,
           RemovePayload, RemoveFails, Removing, Up, Workers
<1>2. UNCHANGED << jobs, parts, todo, left, drow >>
    BY DEF RemoverStep, RemoverFault, RemoveCompletedPath, RemoveStagingPath,
           RemovePayload, RemoveFails, RemoverFrame, outside, world
<1>3. PICK j : j = Job(w)
    OBVIOUS
<1>4. /\ j \in Jobs /\ c \in Row /\ disk[j] \in Files
      /\ Fits(disk[j], parts[j], c)
      /\ Sound(j, disk[j], parts[j]) /\ Fits(disk[j], parts[j], jobs[j])
      /\ jobs[j].state = "remove_pending" /\ c.state = "remove_pending"
    <2>1. /\ j \in Jobs /\ c \in Row /\ disk[j] \in Files
          /\ Fits(disk[j], parts[j], c)
          /\ Sound(j, disk[j], parts[j]) /\ Fits(disk[j], parts[j], jobs[j])
          /\ jobs[j].state \in {"remove_pending"}
        BY <1>1, <1>3, FilesAtHand DEF Handles
    <2>2. c.state = jobs[j].state
        BY <1>1, <1>3, <2>1, CopyAtHand DEF Handles
    <2> QED
        BY <2>1, <2>2
<1>5. /\ disk[j].payload => c.payload
      /\ disk[j].staging => c.staging
      /\ disk[j].final => c.completed
    BY <1>4 DEF Fits, Moved
<1>6. /\ pc[w] \in {"rmstaging", "rmpayload"} => ~ c.completed
      /\ pc[w] = "rmpayload" => ~ c.staging
    BY <1>1 DEF FileInv, Posted, AtRemoval
<1>7. ASSUME NEW d, disk' = [disk EXCEPT ![j] = d], Shrunk(disk[j], d),
             d.final => d.placed = disk[j].placed /\ d.file = NoFile,
             NEW label, Goto(w, label), NEW row, SetCopy(w, row),
             Fits(d, parts[j], row),
             label \in {"rmstaging", "rmpayload", "save"} => ~ row.completed,
             label \in {"rmpayload", "save"} => ~ row.staging
      PROVE  FileStep(w)
    <2>1. disk'[j] = d /\ \A k \in Jobs \ {j} : disk'[k] = disk[k]
        BY <1>4, <1>7 DEF TypeInv, TypeOK
    <2>2. Fits(d, parts[j], jobs[j])
        BY <1>4, <1>7, ShrunkFits
    <2>3. Sound(j, d, parts[j])
        BY <1>4, <1>7 DEF Sound, Shrunk
    <2>4. Copy(w)' = row /\ pc'[w] = label
        BY <1>1, <1>2, <1>7, CopyAfter, GotoFrame
    <2>5. AtRemoval'
        BY <1>7, <2>4 DEF AtRemoval
    <2> QED
        BY <1>1, <1>2, <1>3, <1>7, <2>1, <2>2, <2>3, <2>4, <2>5, RemoverWorks,
           AtHandFiles
<1>8. CASE RemoveCompletedPath
    <2> DEFINE d == RemoveFinal(disk[j], c)
               row == [c EXCEPT !.completed = FALSE]
    <2>1. /\ disk' = [disk EXCEPT ![j] = d] /\ SetCopy(w, row)
          /\ Goto(w, "rmstaging")
        BY <1>3, <1>8 DEF RemoveCompletedPath
    <2>2. /\ ~ d.final /\ d.staging = disk[j].staging
          /\ d.payload = disk[j].payload
        BY <1>4, <1>5 DEF RemoveFinal, Files
    <2>3. /\ row.state = "remove_pending" /\ row.staging = c.staging
          /\ row.payload = c.payload /\ ~ row.completed
        BY <1>4 DEF Row
    <2> HIDE DEF d, row
    <2>4. Fits(d, parts[j], row)
        BY <1>5, <2>2, <2>3 DEF Fits, Gone, Underway
    <2>5. Shrunk(disk[j], d) /\ ~ row.completed /\ ~ d.final
        BY <2>2, <2>3 DEF Shrunk
    <2>6. "rmstaging" \notin {"rmpayload", "save"}
        OBVIOUS
    <2>7. d.final => d.placed = disk[j].placed /\ d.file = NoFile
        BY <2>5
    <2>8. /\ "rmstaging" \in {"rmstaging", "rmpayload", "save"} => ~ row.completed
          /\ "rmstaging" \in {"rmpayload", "save"} => ~ row.staging
        BY <2>5, <2>6
    <2> QED
        BY <1>7, <2>1, <2>4, <2>5, <2>7, <2>8
<1>9. CASE RemoveStagingPath
    <2> DEFINE d == IF c.staging THEN RemoveStaging(disk[j]) ELSE disk[j]
               row == [c EXCEPT !.staging = FALSE]
    <2>1. /\ disk' = [disk EXCEPT ![j] = d] /\ SetCopy(w, row)
          /\ Goto(w, "rmpayload") /\ pc[w] = "rmstaging"
        BY <1>3, <1>9 DEF RemoveStagingPath, Removing, Up
    <2>2. /\ ~ d.staging /\ d.final = disk[j].final
          /\ d.payload = disk[j].payload /\ d.placed = disk[j].placed
          /\ d.file = NoFile \/ d.file = disk[j].file
        BY <1>4, <1>5 DEF RemoveStaging, Files
    <2>3. /\ row.state = "remove_pending" /\ ~ row.staging
          /\ row.payload = c.payload /\ row.completed = c.completed
        BY <1>4 DEF Row
    <2> HIDE DEF d, row
    <2>4. Fits(d, parts[j], row)
        BY <1>5, <2>2, <2>3 DEF Fits, Gone, Underway
    <2> QED
        BY <1>4, <1>6, <1>7, <2>1, <2>2, <2>3, <2>4 DEF Shrunk, Sound
<1>10. CASE RemovePayload
    <2> DEFINE d == [disk[j] EXCEPT !.payload = disk[j].payload /\ ~ c.payload]
               row == [c EXCEPT !.payload = FALSE, !.run = "nil", !.state = "removed"]
    <2>1. /\ disk' = [disk EXCEPT ![j] = d] /\ SetCopy(w, row)
          /\ Goto(w, "save") /\ pc[w] = "rmpayload"
        BY <1>3, <1>10 DEF RemovePayload, WriteBack, Removing, Up
    <2>2. /\ d.staging = disk[j].staging /\ d.final = disk[j].final
          /\ ~ d.payload /\ d.placed = disk[j].placed /\ d.file = disk[j].file
        BY <1>4, <1>5 DEF Files
    <2>3. /\ row.state = "removed" /\ row.staging = c.staging
          /\ row.completed = c.completed
        BY <1>4 DEF Row
    <2> HIDE DEF d, row
    <2>4. Bare(d)
        BY <1>5, <1>6, <2>1, <2>2 DEF Bare
    <2>5. Fits(d, parts[j], row)
        BY <2>3, <2>4 DEF Fits, Bare, Gone, Underway
    <2> QED
        BY <1>4, <1>6, <1>7, <2>1, <2>2, <2>3, <2>5 DEF Shrunk, Sound
<1>11. CASE RemoveFails
    <2>1. Goto(w, "release") /\ UNCHANGED << disk, snap >>
        BY <1>11 DEF RemoveFails, GiveUp, world
    <2>2. pc'[w] = "release"
        BY <1>1, <2>1, GotoFrame
    <2>3. AtRemoval'
        BY <2>2 DEF AtRemoval
    <2> QED
        BY <1>1, <1>2, <1>3, <1>4, <2>1, <2>2, <2>3, RemoverWorks, AtHandFiles
           DEF Shrunk
<1> QED
    BY <1>8, <1>9, <1>10, <1>11 DEF RemoverStep, RemoverFault

(* The downloader's copy changes hands only with what is on disk: a part   *)
(* is done when its file is full, a job fails only before its directory is *)
(* renamed, and goes on only when all its parts are done.                  *)
LEMMA DownloaderFiles ==
    ASSUME TypeInv, OwnInv, CopyInv, FileInv, DownloaderStep \/ DownloaderFault
    PROVE  FileStep("downloader")
<1> DEFINE w == "downloader"
           c == Copy(w)
<1>1. /\ w \in Workers
      /\ pc[w] \in {"work", "links", "register", "loop", "mark", "stream",
                    "last", "commit"}
    BY DEF DownloaderStep, DownloaderFault, Prepare, PrepareFails, LinksError,
           NoAssets, GetDownloadLinks, Register, RegisterDone,
           RegisterRejected, RegisterFails, RequestOk, RequestBeyondEnd,
           Request404, Request5xx, RequestError, MarkSkipped, Mark,
           MarkRejected, MarkFails, StreamEnd, StreamShort, StreamBroken,
           Recorded, Commit, CommitShort, CommitRejected, CommitFails,
           Finish, FinishFails, Marking, Fetching, Downloading, Up, Workers
<1>2. UNCHANGED << todo, drow >>
    BY DEF DownloaderStep, DownloaderFault, Prepare, PrepareFails, LinksError,
           NoAssets, GetDownloadLinks, Register, RegisterDone,
           RegisterRejected, RegisterFails, RequestOk, RequestBeyondEnd,
           Request404, Request5xx, RequestError, MarkSkipped, Mark,
           MarkRejected, MarkFails, MarkError, StreamEnd, StreamShort,
           StreamBroken, Recorded, Commit, CommitShort, CommitRejected,
           CommitFails, Finish, FinishFails, Leave, Abandon, DownloaderFrame,
           outside
<1>3. PICK j : j = Job(w)
    OBVIOUS
<1>4. DlJob = j /\ DlCopy = c /\ DlJob' = j
    BY <1>2, <1>3 DEF DlJob, DlCopy, Job
<1>5. /\ j \in Jobs /\ c \in Row /\ jobs[j] \in Row /\ disk[j] \in Files
      /\ parts[j] \in [Assets -> PartStates]
      /\ Fits(disk[j], parts[j], c)
      /\ Sound(j, disk[j], parts[j]) /\ Fits(disk[j], parts[j], jobs[j])
      /\ jobs[j].state \in {"local_download_pending", "local_downloading"}
      /\ ~ jobs[j].completed /\ c.state = jobs[j].state /\ ~ c.completed
    <2>1. /\ j \in Jobs /\ c \in Row /\ jobs[j] \in Row /\ disk[j] \in Files
          /\ parts[j] \in [Assets -> PartStates]
          /\ Fits(disk[j], parts[j], c)
          /\ Sound(j, disk[j], parts[j]) /\ Fits(disk[j], parts[j], jobs[j])
          /\ jobs[j].state \in {"local_download_pending", "local_downloading"}
          /\ ~ jobs[j].completed
        BY <1>1, <1>3, FilesAtHand DEF Handles
    <2>2. c.state = jobs[j].state /\ ~ c.completed
        BY <1>1, <1>3, <2>1, CopyAtHand DEF Handles
    <2> QED
        BY <2>1, <2>2
<1>6. /\ c.staging /\ jobs[j].staging
      /\ c.state \in Underway
      /\ disk[j].final \/ Kept(disk[j], parts[j])
      /\ disk[j].final => AllDone(parts[j]) /\ disk[j].file = NoFile
    BY <1>5 DEF Fits, Sound, Underway, JobStates, Ended, Gone
<1>7. /\ Registered(j) = Listed(parts[j])
      /\ allPartsCompleted(j) <=> AllDone(parts[j])
      /\ Incomplete(j) = { a \in Assets : parts[j][a] = "registered" }
    BY DEF Registered, Listed, allPartsCompleted, AllDone, Incomplete
<1>8. /\ pc[w] # "work" => disk[j].staging
      /\ pc[w] \in {"links", "register"} =>
            \A a \in Assets : parts[j][a] # "done"
      /\ pc[w] \in {"loop", "mark", "stream", "last", "commit"} =>
            \A a \in left : parts[j][a] = "registered"
      /\ pc[w] \in {"mark", "stream", "last", "commit"} =>
            disk[j].file[Part] # "absent"
    BY <1>1, <1>4 DEF FileInv, Posted, AtParts
<1>9. left # {} => Part \in left /\ Part \in Assets
    BY AtPart
<1>10. /\ pc[w] \in {"mark", "stream", "last", "commit"} => left # {}
       /\ left \in SUBSET Assets
    BY DEF TypeInv, TypeOK, PartAtHand
<1>11. \/ pc[w] \in {"links", "register"}
       \/ pc[w] \in {"loop", "mark", "stream", "last", "commit"} /\ left # {}
       => ~ disk[j].final
    BY <1>6, <1>8, <1>9, <1>10 DEF AllDone, Listed
(* What matters of the rows the downloader writes.                         *)
<1>12. ASSUME NEW e, NEW q, e.final = disk[j].final, e.payload = disk[j].payload,
              e.placed = disk[j].placed,
              e.final => q = parts[j] /\ e.file = NoFile,
              e.final \/ Kept(e, q), NEW row, row.staging,
              row.completed = c.completed, disk[j].payload => row.payload,
              row.state \in {c.state, "local_downloading"}
       PROVE  Sound(j, e, q) /\ Fits(e, q, row)
    BY <1>5, <1>6, <1>12 DEF Sound, Fits, Moved, Gone, Underway, JobStates
<1>13. disk[j].payload => c.payload /\ jobs[j].payload
    BY <1>5 DEF Fits
<1>14. Marked(c) \in Row /\ Marked(c).state = "local_downloading"
       /\ Marked(c).staging = c.staging /\ Marked(c).completed = c.completed
       /\ Marked(c).payload = c.payload
    <2>1. Marked(c) \in Row
        BY <1>5, RowTypes DEF Marked
    <2>2. /\ Marked(c).state = "local_downloading"
          /\ Marked(c).staging = c.staging /\ Marked(c).completed = c.completed
          /\ Marked(c).payload = c.payload
        BY <1>5 DEF Marked, TryAgain, Later, Row
    <2> QED
        BY <2>1, <2>2
<1>15. ASSUME \A k \in Jobs \ {j} : disk'[k] = disk[k] /\ parts'[k] = parts[k],
              disk'[j].final = disk[j].final, disk'[j].payload = disk[j].payload,
              disk'[j].placed = disk[j].placed,
              disk'[j].final => parts'[j] = parts[j] /\ disk'[j].file = NoFile,
              disk'[j].final \/ Kept(disk'[j], parts'[j]),
              jobs' = jobs \/ jobs' = UpdateJob(jobs, j, Marked(c)),
              NEW label, pc'[w] = label,
              NEW row, SetCopy(w, row) \/ (UNCHANGED snap /\ row = c),
              label = "release" \/ Fits(disk'[j], parts'[j], row), AtParts'
       PROVE  FileStep(w)
    <2>1. /\ Sound(j, disk'[j], parts'[j])
          /\ Fits(disk'[j], parts'[j], jobs[j])
          /\ Fits(disk'[j], parts'[j], Marked(c))
        <3> DEFINE e == disk'[j]
                   q == parts'[j]
        <3>1. jobs[j].completed = c.completed
            BY <1>5 DEF Row
        <3>2. /\ e.final = disk[j].final /\ e.payload = disk[j].payload
              /\ e.placed = disk[j].placed
              /\ e.final => q = parts[j] /\ e.file = NoFile
              /\ e.final \/ Kept(e, q)
            BY <1>15
        <3> HIDE DEF e, q, c
        <3>3. Sound(j, e, q) /\ Fits(e, q, jobs[j])
            BY <1>5, <1>6, <1>12, <1>13, <3>1, <3>2
        <3>4. Fits(e, q, Marked(c))
            BY <1>6, <1>12, <1>13, <1>14, <3>2
        <3> QED
            BY <3>3, <3>4 DEF e, q
    <2>2. Fits(disk'[j], parts'[j], jobs'[j])
        BY <1>5, <1>14, <1>15, <2>1, WrittenFits
    <2>3. Copy(w)' = row
        BY <1>1, <1>2, <1>15, CopyAfter DEF Copy, Job
    <2>4. Working(w) /\ pc[w] # "fetch"
        BY <1>1, DownloaderWorks
    <2>5. UNCHANGED snap \/ \E r : SetCopy(w, r)
        BY <1>15
    <2> HIDE DEF c
    <2>6. pc'[w] = "release" \/ Fits(disk'[j], parts'[j], Copy(w)')
        BY <1>15, <2>3
    <2> QED
        BY <1>1, <1>2, <1>3, <1>15, <2>1, <2>2, <2>4, <2>5, <2>6, AtHandFiles
(* Leaving, with or without an error.                                      *)
<1>16. ASSUME UNCHANGED << disk, parts >>,
              jobs' = jobs \/ jobs' = UpdateJob(jobs, j, Marked(c)),
              NEW row, WriteBack(w, row), row.staging = c.staging,
              row.completed = c.completed, row.payload = c.payload,
              row.state \in {"local_downloading", "local_verify", "failed"},
              row.state = "local_verify" => AllDone(parts[j]),
              row.state = "failed" => ~ disk[j].final
       PROVE  FileStep(w)
    <2>1. SetCopy(w, row) /\ pc'[w] = "save"
        BY <1>1, <1>16, GotoFrame DEF WriteBack
    <2>2. Fits(disk[j], parts[j], row)
        BY <1>5, <1>6, <1>16, MoveFits DEF JobStates, Moved
    <2>3. AtParts'
        BY <2>1 DEF AtParts
    <2> QED
        BY <1>6, <1>15, <1>16, <2>1, <2>2, <2>3
<1>17. ASSUME Abandon, UNCHANGED disk \/ disk' = [disk EXCEPT ![j].staging = TRUE]
       PROVE  FileStep(w)
    <2>1. UNCHANGED << snap, jobs, parts >> /\ pc'[w] = "release"
        BY <1>1, <1>17, GotoFrame DEF Abandon, GiveUp
    <2>2. /\ \A k \in Jobs \ {j} : disk'[k] = disk[k]
          /\ disk'[j] = disk[j] \/ disk'[j] = [disk[j] EXCEPT !.staging = TRUE]
        BY <1>5, <1>17 DEF TypeInv, TypeOK
    <2>3. /\ disk'[j].final = disk[j].final /\ disk'[j].payload = disk[j].payload
          /\ disk'[j].placed = disk[j].placed /\ disk'[j].file = disk[j].file
          /\ disk[j].staging => disk'[j].staging
        BY <1>5, <2>2 DEF Files
    <2>4. disk'[j].final \/ Kept(disk'[j], parts'[j])
        BY <1>6, <2>1, <2>3 DEF Kept
    <2>5. AtParts'
        BY <2>1 DEF AtParts
    <2> QED
        BY <1>6, <1>15, <2>1, <2>2, <2>3, <2>4, <2>5
<1>18. CASE \/ PrepareFails \/ RegisterRejected \/ RegisterFails
            \/ CommitRejected \/ CommitFails \/ FinishFails
    BY <1>4, <1>17, <1>18
    DEF PrepareFails, RegisterRejected, RegisterFails, CommitRejected,
        CommitFails, FinishFails
<1>19. ASSUME NEW r \in Nat, NEW at \in RunAt
       PROVE  /\ LET row == TryAgain([c EXCEPT !.retry = r])
                 IN  /\ row.staging = c.staging /\ row.completed = c.completed
                     /\ row.payload = c.payload /\ row.state = "local_downloading"
              /\ LET row == [TryAgain(c) EXCEPT !.retry = r]
                 IN  /\ row.staging = c.staging /\ row.completed = c.completed
                     /\ row.payload = c.payload /\ row.state = "local_downloading"
              /\ LET row == [c EXCEPT !.retry = r, !.run = at, !.state = "failed"]
                 IN  /\ row.staging = c.staging /\ row.completed = c.completed
                     /\ row.payload = c.payload /\ row.state = "failed"
    BY <1>5 DEF TryAgain, Later, Row
<1>20. CASE MarkRejected \/ MarkFails
    <2> DEFINE row == [TryAgain(c) EXCEPT !.retry = 0]
    <2>1. /\ jobs' = jobs \/ jobs' = UpdateJob(jobs, j, Marked(c))
          /\ WriteBack(w, row) /\ UNCHANGED << disk, parts >>
        BY <1>4, <1>20 DEF MarkRejected, MarkFails, MarkError, Marked
    <2>2. /\ row.staging = c.staging /\ row.completed = c.completed
          /\ row.payload = c.payload /\ row.state = "local_downloading"
        BY <1>19 DEF RunAt
    <2> HIDE DEF row, c
    <2> QED
        BY <1>16, <2>1, <2>2
<1>21. ASSUME NEW row, Leave(row), row.staging = c.staging,
              row.completed = c.completed, row.payload = c.payload,
              row.state \in {"local_downloading", "local_verify", "failed"},
              row.state = "local_verify" => AllDone(parts[j]),
              row.state = "failed" => ~ disk[j].final
       PROVE  FileStep(w)
    BY <1>16, <1>21 DEF Leave
<1>22. CASE Request404 \/ Request5xx \/ RequestError \/ StreamBroken
    <2> DEFINE again(r) == TryAgain([c EXCEPT !.retry = r])
               failed(r) == [c EXCEPT !.retry = r, !.run = "nil", !.state = "failed"]
    <2>1. c.retry + 1 \in Nat /\ 0 \in Nat
        BY <1>5 DEF Row
    <2>2. /\ \E r \in {0, c.retry + 1} : Leave(again(r)) \/ Leave(failed(r))
          /\ pc[w] \in {"loop", "stream"} /\ left # {}
        BY <1>4, <1>10, <1>22
        DEF Request404, Request5xx, RequestError, StreamBroken, Fetching,
            Downloading, Up
    <2>3. \A r \in Nat :
             /\ again(r).staging = c.staging /\ again(r).completed = c.completed
             /\ again(r).payload = c.payload /\ again(r).state = "local_downloading"
             /\ failed(r).staging = c.staging /\ failed(r).completed = c.completed
             /\ failed(r).payload = c.payload /\ failed(r).state = "failed"
        BY <1>19 DEF RunAt
    <2>4. ~ disk[j].final
        BY <1>11, <2>2
    <2> HIDE DEF again, failed, c
    <2> QED
        BY <1>21, <2>1, <2>2, <2>3, <2>4
<1>23. CASE LinksError \/ NoAssets \/ Finish
    <2>1. /\ LET row == TryAgain(c)
             IN  /\ row.staging = c.staging /\ row.completed = c.completed
                 /\ row.payload = c.payload /\ row.state = "local_downloading"
          /\ LET row == [c EXCEPT !.state = "failed"]
             IN  /\ row.staging = c.staging /\ row.completed = c.completed
                 /\ row.payload = c.payload /\ row.state = "failed"
          /\ LET row == [c EXCEPT !.run = "due", !.state = "local_verify"]
             IN  /\ row.staging = c.staging /\ row.completed = c.completed
                 /\ row.payload = c.payload /\ row.state = "local_verify"
        BY <1>5 DEF TryAgain, Later, Row
    <2>2. \/ Leave(TryAgain(c))
          \/ Leave([c EXCEPT !.state = "failed"]) /\ pc[w] = "links"
          \/ /\ Leave([c EXCEPT !.run = "due", !.state = "local_verify"])
             /\ AllDone(parts[j])
        BY <1>4, <1>7, <1>23 DEF LinksError, NoAssets, Finish, Downloading, Up
    <2> QED
        BY <1>11, <1>21, <2>1, <2>2
(* The copy may differ from the one at hand in its retry count.            *)
<1>24. ASSUME NEW row, SameOnDisk(c, row), NEW e, NEW q,
              e.final = disk[j].final, e.payload = disk[j].payload,
              e.placed = disk[j].placed,
              e.final => q = parts[j] /\ e.file = NoFile,
              e.final \/ Kept(e, q)
       PROVE  Fits(e, q, row)
    BY <1>6, <1>12, <1>13, <1>24 DEF SameOnDisk
<1>25. \A r \in Nat : SameOnDisk(c, [c EXCEPT !.retry = r])
    BY <1>5 DEF SameOnDisk, Row
<1>26. ASSUME UNCHANGED << disk, parts, jobs >>, NEW label, pc'[w] = label,
              NEW row, SetCopy(w, row) \/ (UNCHANGED snap /\ row = c),
              SameOnDisk(c, row), AtParts'
       PROVE  FileStep(w)
    BY <1>6, <1>15, <1>24, <1>26
<1>27. SameOnDisk(c, c)
    BY DEF SameOnDisk
<1>28. CASE GetDownloadLinks \/ RegisterDone \/ MarkSkipped \/ StreamShort
    <2>1. UNCHANGED << disk, parts, jobs, snap >>
        BY <1>28 DEF GetDownloadLinks, RegisterDone, MarkSkipped, StreamShort
    <2>2. \/ pc[w] = "links" /\ pc'[w] = "register"
          \/ pc[w] = "register" /\ pc'[w] = "loop" /\ left' = Incomplete(j)
          \/ /\ pc[w] \in {"mark", "stream", "last"}
             /\ pc'[w] \in {"stream", "last", "commit"} /\ left' = left
        BY <1>1, <1>4, <1>28, GotoFrame
        DEF GetDownloadLinks, RegisterDone, MarkSkipped, Marking, AfterMark,
            StreamShort, Downloading, Up
    <2>3. AtParts'
        BY <1>4, <1>7, <1>8, <2>1, <2>2 DEF AtParts, Part
    <2> QED
        BY <1>26, <1>27, <2>1, <2>3
<1>29. CASE CommitShort
    <2>1. /\ UNCHANGED << disk, parts, jobs >> /\ pc[w] = "commit"
          /\ SetCopy(w, [c EXCEPT !.retry = 0]) /\ pc'[w] = "loop"
          /\ left' = left \ {Part}
        BY <1>1, <1>4, <1>29, GotoFrame DEF CommitShort, Recorded, Downloading, Up
    <2>2. AtParts'
        BY <1>4, <1>8, <2>1 DEF AtParts
    <2> QED
        BY <1>25, <1>26, <2>1, <2>2
<1>30. CASE Mark
    <2>1. /\ UNCHANGED << disk, parts, left >> /\ pc[w] \in {"mark", "last"}
          /\ jobs' = UpdateJob(jobs, j, Marked(c))
          /\ SetCopy(w, Marked(c)) /\ pc'[w] \in {"stream", "commit"}
        BY <1>1, <1>4, <1>30, GotoFrame
        DEF Mark, Marking, AfterMark, Downloading, Up
    <2>2. AtParts'
        BY <1>4, <1>8, <2>1 DEF AtParts, Part
    <2>3. Fits(disk[j], parts[j], Marked(c))
        BY <1>6, <1>12, <1>13, <1>14
    <2> QED
        BY <1>6, <1>15, <2>1, <2>2, <2>3
(* Steps that change the files or the parts of the job.                    *)
<1>31. ASSUME NEW e, disk' = [disk EXCEPT ![j] = e], UNCHANGED << parts, jobs >>,
              e.final = disk[j].final, e.payload = disk[j].payload,
              e.placed = disk[j].placed, e.staging,
              e.final => e.file = NoFile, e.final \/ Kept(e, parts[j]),
              NEW label, pc'[w] = label,
              NEW row, SetCopy(w, row) \/ (UNCHANGED snap /\ row = c),
              SameOnDisk(c, row), AtParts'
       PROVE  FileStep(w)
    <2>1. disk'[j] = e /\ \A k \in Jobs \ {j} : disk'[k] = disk[k]
        BY <1>5, <1>31 DEF TypeInv, TypeOK
    <2>2. Fits(disk'[j], parts'[j], row)
        BY <1>24, <1>31, <2>1
    <2> QED
        BY <1>15, <1>31, <2>1, <2>2
<1>32. CASE Prepare
    <2> DEFINE e == [disk[j] EXCEPT !.staging = TRUE]
               row == [c EXCEPT !.staging = TRUE]
               label == IF Registered(j) = {} THEN "links" ELSE "loop"
    <2>1. /\ disk' = [disk EXCEPT ![j] = e] /\ UNCHANGED << parts, jobs >>
          /\ SetCopy(w, row) /\ Goto(w, label) /\ left' = Incomplete(j)
        BY <1>4, <1>32 DEF Prepare
    <2>2. /\ e.final = disk[j].final /\ e.payload = disk[j].payload
          /\ e.placed = disk[j].placed /\ e.staging /\ e.file = disk[j].file
        BY <1>5 DEF Files
    <2>3. SameOnDisk(c, row)
        BY <1>5, <1>6 DEF SameOnDisk, Row
    <2>4. pc'[w] = label
        BY <1>1, <2>1, GotoFrame
    <2>5. disk'[j] = e
        BY <1>5, <2>1 DEF TypeInv, TypeOK
    <2>6. label = "links" => \A a \in Assets : parts[j][a] # "done"
        BY <1>7 DEF Listed
    <2>7. label \in {"links", "loop"}
        OBVIOUS
    <2> HIDE DEF e, row, label
    <2>8. AtParts'
        BY <1>4, <1>7, <2>1, <2>2, <2>4, <2>5, <2>6, <2>7 DEF AtParts
    <2>9. e.final \/ Kept(e, parts[j])
        BY <1>6, <2>2 DEF Kept
    <2> QED
        BY <1>6, <1>31, <2>1, <2>2, <2>3, <2>4, <2>8, <2>9
<1>33. CASE RequestOk
    <2> DEFINE e == Opened(disk[j], Part)
    <2>1. /\ disk' = [disk EXCEPT ![j] = e] /\ UNCHANGED << parts, jobs, left >>
          /\ pc[w] = "loop" /\ left # {} /\ Goto(w, "mark")
          /\ \E r \in {c.retry, 0} : SetCopy(w, [c EXCEPT !.retry = r])
        BY <1>4, <1>33 DEF RequestOk, Fetching, Downloading, Up
    <2>2. Part \in Assets /\ parts[j][Part] = "registered" /\ ~ disk[j].final
        BY <1>8, <1>9, <1>11, <2>1
    <2>3. /\ e.final = disk[j].final /\ e.payload = disk[j].payload
          /\ e.placed = disk[j].placed /\ e.staging /\ e.file[Part] = "partial"
          /\ \A a \in Assets \ {Part} : e.file[a] = disk[j].file[a]
        BY <1>5, <2>2 DEF Files, Opened
    <2>4. pc'[w] = "mark"
        BY <1>1, <2>1, GotoFrame
    <2>5. disk'[j] = e
        BY <1>5, <2>1 DEF TypeInv, TypeOK
    <2> HIDE DEF e
    <2>6. Kept(e, parts[j])
        BY <1>6, <2>2, <2>3 DEF Kept
    <2>7. AtParts'
        BY <1>4, <1>8, <2>1, <2>3, <2>4, <2>5 DEF AtParts, Part
    <2>8. {c.retry, 0} \subseteq Nat
        BY <1>5 DEF Row
    <2>9. PICK r \in Nat : SetCopy(w, [c EXCEPT !.retry = r])
        BY <2>1, <2>8
    <2> QED
        BY <1>25, <1>31, <2>1, <2>2, <2>3, <2>4, <2>6, <2>7, <2>9
<1>34. ASSUME disk' = [disk EXCEPT ![j] = Filled(disk[j], Part)],
              UNCHANGED << parts, jobs, snap, left >>,
              pc[w] \in {"loop", "stream"}, left # {},
              disk[j].file[Part] # "absent", Goto(w, "last")
       PROVE  FileStep(w)
    <2> DEFINE e == Filled(disk[j], Part)
    <2>1. disk' = [disk EXCEPT ![j] = e]
        BY <1>34
    <2>2. /\ Part \in Assets /\ parts[j][Part] = "registered" /\ ~ disk[j].final
          /\ disk[j].file[Part] \in {"partial", "full"} /\ disk[j].staging
        <3>1. /\ Part \in Assets /\ parts[j][Part] = "registered"
              /\ ~ disk[j].final /\ disk[j].staging
            BY <1>8, <1>9, <1>11, <1>34
        <3> QED
            BY <1>5, <1>34, <3>1 DEF Files, FileStates
    <2>3. /\ e.final = disk[j].final /\ e.payload = disk[j].payload
          /\ e.placed = disk[j].placed /\ e.staging /\ e.file[Part] = "full"
          /\ \A a \in Assets \ {Part} : e.file[a] = disk[j].file[a]
        BY <1>5, <2>2 DEF Files, Filled
    <2>4. pc'[w] = "last"
        BY <1>1, <1>34, GotoFrame
    <2>5. disk'[j] = e
        BY <1>5, <2>1 DEF TypeInv, TypeOK
    <2> HIDE DEF e
    <2>6. Kept(e, parts[j])
        BY <1>6, <2>2, <2>3 DEF Kept
    <2>7. AtParts'
        BY <1>4, <1>8, <1>34, <2>3, <2>4, <2>5 DEF AtParts, Part
    <2> QED
        BY <1>27, <1>31, <1>34, <2>1, <2>2, <2>3, <2>4, <2>6, <2>7
<1>35. CASE StreamEnd
    BY <1>4, <1>8, <1>10, <1>34, <1>35 DEF StreamEnd, Downloading, Up
<1>36. CASE RequestBeyondEnd
    <2>1. /\ UNCHANGED << parts, jobs, snap, left >> /\ Goto(w, "last")
          /\ pc[w] = "loop" /\ left # {} /\ disk[j].file[Part] # "absent"
          /\ UNCHANGED disk \/ disk' = [disk EXCEPT ![j] = Filled(disk[j], Part)]
        BY <1>4, <1>36 DEF RequestBeyondEnd, Fetching, Downloading, Up
    <2>2. CASE UNCHANGED disk
        <3>1. pc'[w] = "last"
            BY <1>1, <2>1, GotoFrame
        <3>2. AtParts'
            BY <1>4, <1>8, <2>1, <2>2, <3>1 DEF AtParts, Part
        <3> QED
            BY <1>26, <1>27, <2>1, <2>2, <3>1, <3>2
    <2> QED
        BY <1>34, <2>1, <2>2
<1>37. ASSUME NEW q, parts' = [parts EXCEPT ![j] = q],
              UNCHANGED << disk, jobs >>, ~ disk[j].final,
              Kept(disk[j], q), NEW label, pc'[w] = label,
              NEW row, SetCopy(w, row) \/ (UNCHANGED snap /\ row = c),
              SameOnDisk(c, row), AtParts'
       PROVE  FileStep(w)
    <2>1. parts'[j] = q /\ \A k \in Jobs \ {j} : parts'[k] = parts[k]
        BY <1>5, <1>37 DEF TypeInv, TypeOK
    <2>2. Fits(disk[j], parts'[j], row)
        BY <1>24, <1>37, <2>1
    <2> QED
        BY <1>15, <1>37, <2>1, <2>2
<1>38. CASE Register
    <2> DEFINE a == First(Unregistered(DlJob))
               q == [parts[j] EXCEPT ![a] = "registered"]
    <2>1. /\ parts' = [parts EXCEPT ![j] = q] /\ pc' = pc
          /\ UNCHANGED << disk, jobs, snap, left >> /\ pc[w] = "register"
        BY <1>4, <1>38 DEF Register, Downloading, Up
    <2>2. \A b \in Assets : q[b] # "done"
        BY <1>5, <1>8, <2>1
    <2>3. parts'[j] = q
        BY <1>5, <2>1 DEF TypeInv, TypeOK
    <2> HIDE DEF q
    <2>4. AtParts'
        BY <1>4, <1>8, <2>1, <2>2, <2>3 DEF AtParts
    <2> QED
        BY <1>11, <1>27, <1>37, <2>1, <2>2, <2>4 DEF Kept
<1>39. CASE Commit
    <2> DEFINE q == [parts[j] EXCEPT ![Part] = "done"]
    <2>1. /\ parts' = [parts EXCEPT ![j] = q] /\ left' = left \ {Part}
          /\ UNCHANGED << disk, jobs >> /\ pc[w] = "commit"
          /\ SetCopy(w, [c EXCEPT !.retry = 0]) /\ Goto(w, "loop")
          /\ disk[j].file[Part] # "partial"
        BY <1>4, <1>39 DEF Commit, Recorded, Downloading, Up
    <2>2. /\ Part \in Assets /\ disk[j].staging /\ disk[j].file[Part] = "full"
          /\ ~ disk[j].final
        <3>1. /\ Part \in Assets /\ disk[j].staging /\ ~ disk[j].final
              /\ disk[j].file[Part] # "absent"
            BY <1>8, <1>9, <1>10, <1>11, <2>1
        <3> QED
            BY <1>5, <2>1, <3>1 DEF Files, FileStates
    <2>3. /\ \A b \in Assets \ {Part} : q[b] = parts[j][b]
          /\ q[Part] = "done"
        BY <1>5, <2>2
    <2>4. parts'[j] = q
        BY <1>5, <2>1 DEF TypeInv, TypeOK
    <2>5. pc'[w] = "loop"
        BY <1>1, <2>1, GotoFrame
    <2> HIDE DEF q
    <2>6. Kept(disk[j], q)
        BY <1>6, <2>2, <2>3 DEF Kept
    <2>7. AtParts'
        BY <1>4, <1>8, <1>10, <2>1, <2>2, <2>3, <2>4, <2>5 DEF AtParts
    <2> QED
        BY <1>25, <1>37, <2>1, <2>2, <2>5, <2>6, <2>7
<1> QED
    BY <1>18, <1>20, <1>22, <1>23, <1>28, <1>29, <1>30, <1>32, <1>33, <1>35,
       <1>36, <1>38, <1>39
    DEF DownloaderStep, DownloaderFault

(* Whatever a worker does, the rows and the copies fit what it leaves.     *)
LEMMA WorkersFiles ==
    ASSUME TypeInv, OwnInv, CopyInv, FileInv, DeleteWhen \subseteq Ended,
           (\E w \in Workers : WorkerStep(w)) \/ WorkerFault
    PROVE  FileInv'
<1>1. CASE \E w \in Workers : LoopStep(w) \/ LoopFault(w)
    BY <1>1, LoopOwns, LoopFiles, FileFrame
<1>2. CASE \/ \E w \in Workers : ProcessStep(w)
           \/ PollerFault \/ DownloaderFault \/ FinalizerFault \/ RemoverFault
    <2>1. ASSUME NEW w \in Workers, Working(w), FileStep(w)
          PROVE  FileInv'
        BY <2>1, WorkingOwns, FileFrame
    <2>2. /\ Workers = {"submitter", "poller", "downloader", "finalizer", "remover"}
          /\ \/ SubmitterStep \/ PollerStep \/ PollerFault
             \/ DownloaderStep \/ DownloaderFault \/ FinalizerStep
             \/ FinalizerFault \/ RemoverStep \/ RemoverFault
        BY <1>2 DEF ProcessStep, Workers
    <2> QED
        BY <2>1, <2>2, SubmitterWorks, PollerWorks, DownloaderWorks,
           FinalizerWorks, RemoverWorks, SubmitterFiles, PollerFiles,
           DownloaderFiles, FinalizerFiles, RemoverFiles
<1> QED
    BY <1>1, <1>2 DEF WorkerStep, WorkerFault

(* The handlers and the pruner: only the payload of a job that has no row  *)
(* yet is written, and what a delete request reads has ended.              *)
LEMMA ClientsFiles ==
    ASSUME TypeInv, OwnInv, CopyInv, FileInv, DeleteWhen \subseteq Ended,
           ClientStep \/ \E j \in Jobs : Prune(j) \/ TimePasses(j)
    PROVE  FileInv'
<1>1. UNCHANGED << pc, todo, snap, left >>
    BY DEF ClientStep, SavePayload, SubmitStep, RequestDies, FindDuplicate,
           FindNone, Insert, InsertRejected, QueueForSubmit, Submitted, Step,
           DeleteWrite, DeleteRead, DeleteFrame, ApiFrame, Prune, TimePasses,
           outside
<1>2. ASSUME NEW j \in Jobs, jobs[j].state \notin UNION { Handles(v) : v \in Workers },
             \A k \in Jobs \ {j} : disk'[k] = disk[k] /\ parts'[k] = parts[k],
             RowsFit', DeletesFit'
      PROVE  FileInv'
    <2>1. ASSUME NEW v \in Workers
          PROVE  Posted(v)'
        <3>1. \A k \in Jobs : Holds(v, k) => k # j
            BY <1>2 DEF OwnInv, Owned
        <3> QED
            BY <1>1, <1>2, <3>1, PostKept DEF FileInv
    <2> QED
        BY <1>2, <2>1 DEF FileInv
<1>3. ASSUME UNCHANGED << disk, parts >>, RowsFit', DeletesFit'
      PROVE  FileInv'
    <2>1. ASSUME NEW v \in Workers
          PROVE  Posted(v)'
        BY <1>1, <1>3, PostKept DEF FileInv
    <2> QED
        BY <1>3, <2>1 DEF FileInv
<1>4. ASSUME UNCHANGED << disk, dreq, djob, drow >>
      PROVE  DeletesFit'
    BY <1>4, PendingKept DEF FileInv, Shrunk
<1>5. /\ jobs \in [Jobs -> Row] /\ disk \in [Jobs -> Files]
      /\ parts \in [Jobs -> [Assets -> PartStates]] /\ RowsFit /\ DeletesFit
    BY DEF TypeInv, TypeOK, FileInv
<1>6. ASSUME NEW j \in Jobs, UNCHANGED << disk, parts >>,
             \A k \in Jobs \ {j} : jobs'[k] = jobs[k],
             Fits(disk[j], parts[j], jobs'[j])
      PROVE  RowsFit'
    BY <1>5, <1>6 DEF RowsFit
<1>7. "absent" \notin UNION { Handles(v) : v \in Workers }
      /\ "removed" \notin UNION { Handles(v) : v \in Workers }
    BY HandlesApart
<1>8. ASSUME NEW j \in Jobs, SavePayload(j) \/ FindDuplicate(j)
      PROVE  FileInv'
    <2>0. /\ UNCHANGED << jobs, parts, dreq, djob, drow >>
          /\ req[j] \in {"none", "lookup"}
        BY <1>8 DEF SavePayload, FindDuplicate, Submitted, ApiFrame, Step
    <2>1. PICK b \in BOOLEAN : /\ b => j \in Uploads
                              /\ disk' = [disk EXCEPT ![j].payload = b]
        <3>1. CASE SavePayload(j)
            <4>1. disk' = [disk EXCEPT ![j].payload = (j \in Uploads)]
                BY <3>1 DEF SavePayload
            <4>2. (j \in Uploads) \in BOOLEAN
                OBVIOUS
            <4> QED
                BY <4>1, <4>2
        <3>2. CASE FindDuplicate(j)
            <4>1. disk' = [disk EXCEPT ![j].payload = FALSE]
                BY <3>2 DEF FindDuplicate
            <4> QED
                BY <4>1
        <3> QED
            BY <1>8, <3>1, <3>2
    <2>2. jobs[j].state = "absent"
        BY <2>0 DEF OwnInv, Requests
    <2>3. \A d \in Deletes : dreq[d] = "read" => djob[d] # j
        BY <2>0 DEF OwnInv, DeleteTargets
    <2>4. /\ disk'[j].staging = disk[j].staging /\ disk'[j].final = disk[j].final
          /\ disk'[j].placed = disk[j].placed /\ disk'[j].file = disk[j].file
          /\ disk'[j].payload => j \in Uploads
          /\ \A k \in Jobs \ {j} : disk'[k] = disk[k]
        BY <1>5, <2>1 DEF Files
    <2>5. Sound(j, disk'[j], parts[j]) /\ Fits(disk'[j], parts[j], jobs[j])
        BY <1>5, <2>2, <2>4 DEF RowsFit, Sound, Fits, Gone, Underway, JobStates
    <2>6. RowsFit'
        BY <1>5, <2>0, <2>4, <2>5 DEF RowsFit
    <2>7. DeletesFit'
        <3>1. \A d \in Deletes : dreq[d] = "read" => djob[d] \in Jobs \ {j}
            BY <2>3 DEF TypeInv, DeleteAtHand
        <3> QED
            BY <1>5, <2>0, <2>4, <3>1 DEF DeletesFit
    <2> QED
        BY <1>2, <1>7, <2>0, <2>2, <2>4, <2>6, <2>7
<1>9. ASSUME NEW j \in Jobs, FindNone(j) \/ InsertRejected(j) \/ RequestDies(j)
      PROVE  FileInv'
    <2>1. UNCHANGED << jobs, disk, parts, dreq, djob, drow >>
        BY <1>9 DEF FindNone, InsertRejected, RequestDies, Submitted, ApiFrame
    <2> QED
        BY <1>3, <1>4, <1>5, <2>1 DEF RowsFit
<1>10. ASSUME NEW j \in Jobs
       PROVE  /\ Accepted(j).state = "accepted" /\ Accepted(j).staging
              /\ Accepted(j).payload <=> j \in Uploads
              /\ LET row == [Accepted(j) EXCEPT !.run = "due",
                                                !.state = "submit_pending"]
                 IN  /\ row.state = "submit_pending" /\ row.staging
                     /\ row.payload <=> j \in Uploads
    BY DEF Accepted, NoRow
<1>11. ASSUME NEW j \in Jobs, Insert(j)
       PROVE  FileInv'
    <2>1. /\ UNCHANGED << disk, parts, dreq, djob, drow >>
          /\ jobs' = [jobs EXCEPT ![j] = Accepted(j)] /\ jobs[j].state = "absent"
        BY <1>11 DEF Insert, CreateJob, CanInsert, Exists, Submitted, ApiFrame
    <2>2. Sound(j, disk[j], parts[j]) /\ Fits(disk[j], parts[j], jobs[j])
        BY <1>5 DEF RowsFit
    <2>3. Kept(disk[j], NoParts)
        BY DEF Kept, NoParts
    <2>4. Fits(disk[j], parts[j], Accepted(j))
        BY <1>10, <2>1, <2>2, <2>3 DEF Fits, Sound, Gone
    <2>5. RowsFit'
        BY <1>5, <1>6, <2>1, <2>4
    <2> QED
        BY <1>3, <1>4, <2>1, <2>5
<1>12. ASSUME NEW j \in Jobs, QueueForSubmit(j)
       PROVE  FileInv'
    <2> DEFINE row == [Accepted(j) EXCEPT !.run = "due", !.state = "submit_pending"]
    <2>1. /\ UNCHANGED << disk, parts, dreq, djob, drow >>
          /\ row \in Row /\ jobs' = UpdateJob(jobs, j, row)
          /\ req[j] = "queue"
        BY <1>12, AcceptedRow DEF QueueForSubmit, Submitted, ApiFrame, Step
    <2>2. /\ row.state = "submit_pending" /\ row.staging
          /\ row.payload <=> j \in Uploads
        BY <1>10
    <2>3. /\ Sound(j, disk[j], parts[j]) /\ Fits(disk[j], parts[j], jobs[j])
          /\ jobs[j].state = "accepted" /\ ~ jobs[j].completed
        <3>1. jobs[j].state = "accepted" /\ Named(jobs[j])
            BY <2>1 DEF OwnInv, Requests, CopyInv, RowsNamed
        <3> QED
            BY <1>5, <3>1 DEF RowsFit, Named, Placed
    <2> HIDE DEF row
    <2>4. Fits(disk[j], parts[j], row)
        BY <2>2, <2>3 DEF Fits, Sound, Moved, Gone, Underway, JobStates, Ended
    <2>5. /\ Fits(disk[j], parts[j], jobs'[j])
          /\ \A k \in Jobs \ {j} : jobs'[k] = jobs[k]
        <3>1. Fits(disk[j], parts[j], jobs'[j])
            BY <2>1, <2>3, <2>4, WrittenFits
        <3> QED
            BY <2>1, <3>1, UpdateRow
    <2> QED
        BY <1>3, <1>4, <1>6, <2>1, <2>5
<1>13. ASSUME NEW d \in Deletes, NEW j \in Jobs, DeleteRead(d, j)
       PROVE  FileInv'
    <2> DEFINE row == [jobs[j] EXCEPT !.claim = NoWorker]
    <2>1. /\ UNCHANGED << jobs, disk, parts >>
          /\ dreq' = [dreq EXCEPT ![d] = "read"] /\ djob' = [djob EXCEPT ![d] = j]
          /\ drow' = [drow EXCEPT ![d] = row] /\ jobs[j].state \in Ended
        BY <1>13 DEF DeleteRead, DeleteFrame, ApiFrame
    <2>2. /\ djob'[d] = j /\ drow'[d] = row
          /\ \A e \in Deletes \ {d} :
                dreq'[e] = dreq[e] /\ djob'[e] = djob[e] /\ drow'[e] = drow[e]
        BY <2>1 DEF TypeInv, TypeOK
    <2>3. /\ ToRemove(row).state = "remove_pending"
          /\ ToRemove(row).staging = jobs[j].staging
          /\ ToRemove(row).completed = jobs[j].completed
          /\ ToRemove(row).payload = jobs[j].payload
        BY <1>5 DEF ToRemove, Row
    <2> HIDE DEF row
    <2>4. Fits(disk[j], parts[j], ToRemove(row))
        BY <1>5, <2>1, <2>3 DEF RowsFit, Fits, Moved, Gone, Underway, Ended
    <2>5. DeletesFit'
        BY <1>5, <2>1, <2>2, <2>4 DEF DeletesFit
    <2> QED
        BY <1>3, <1>5, <2>1, <2>5 DEF RowsFit
<1>14. ASSUME NEW d \in Deletes, DeleteWrite(d)
       PROVE  FileInv'
    <2> DEFINE row == ToRemove(drow[d])
    <2>1. PICK j \in Jobs : j = djob[d]
        BY <1>14 DEF DeleteWrite, TypeInv, DeleteAtHand
    <2>2. /\ UNCHANGED << disk, parts >> /\ dreq[d] = "read"
          /\ jobs' = UpdateJob(jobs, j, row)
          /\ dreq' = [dreq EXCEPT ![d] = "done"]
          /\ djob' = [djob EXCEPT ![d] = NoJob]
          /\ drow' = [drow EXCEPT ![d] = NoRow]
        BY <1>14, <2>1 DEF DeleteWrite, DeleteFrame, ApiFrame
    <2>3. row \in Row
        BY RowTypes DEF ToRemove, TypeInv, TypeOK
    <2>4. Fits(disk[j], parts[j], row)
        BY <1>5, <2>1, <2>2 DEF DeletesFit
    <2>5. DeletesFit'
        <3>1. \A e \in Deletes :
                 dreq'[e] = "read" => /\ dreq[e] = "read" /\ djob'[e] = djob[e]
                                      /\ drow'[e] = drow[e]
            BY <2>2 DEF TypeInv, TypeOK
        <3> QED
            BY <1>5, <2>2, <3>1 DEF DeletesFit
    <2> HIDE DEF row
    <2>6. Fits(disk[j], parts[j], jobs[j])
        BY <1>5 DEF RowsFit
    <2>7. /\ Fits(disk[j], parts[j], jobs'[j])
          /\ \A k \in Jobs \ {j} : jobs'[k] = jobs[k]
        <3>1. Fits(disk[j], parts[j], jobs'[j])
            BY <2>2, <2>3, <2>4, <2>6, WrittenFits
        <3> QED
            BY <2>2, <2>3, <3>1, UpdateRow
    <2> QED
        BY <1>3, <1>6, <2>2, <2>5, <2>7
<1>15. ASSUME NEW j \in Jobs, Prune(j)
       PROVE  FileInv'
    <2>1. /\ UNCHANGED << disk, dreq, djob, drow >> /\ jobs[j].state = "removed"
          /\ jobs' = [jobs EXCEPT ![j] = NoRow]
          /\ parts' = [parts EXCEPT ![j] = NoParts]
        BY <1>15 DEF Prune, DeleteRow, outside
    <2>2. /\ jobs'[j].state = "absent" /\ parts'[j] = NoParts
          /\ \A k \in Jobs \ {j} : jobs'[k] = jobs[k] /\ parts'[k] = parts[k]
        BY <1>5, <2>1 DEF NoRow
    <2>3. Bare(disk[j])
        BY <1>5, <2>1 DEF RowsFit, Fits
    <2>4. Sound(j, disk[j], parts'[j]) /\ Fits(disk[j], parts'[j], jobs'[j])
        BY <2>2, <2>3 DEF Sound, Fits, Bare, Underway, JobStates
    <2>5. RowsFit'
        BY <1>5, <2>1, <2>2, <2>4 DEF RowsFit
    <2> QED
        BY <1>2, <1>4, <1>7, <2>1, <2>2, <2>5
<1>16. ASSUME NEW j \in Jobs, TimePasses(j)
       PROVE  FileInv'
    <2>1. /\ UNCHANGED << disk, parts, dreq, djob, drow >>
          /\ jobs' = [jobs EXCEPT ![j].run = "due"]
        BY <1>16 DEF TimePasses, world, outside
    <2>2. /\ \A k \in Jobs \ {j} : jobs'[k] = jobs[k]
          /\ jobs'[j] = [jobs[j] EXCEPT !.run = "due"]
        BY <1>5, <2>1
    <2>3. Fits(disk[j], parts[j], jobs'[j])
        BY <1>5, <2>2, Elsewhere, SameFits DEF RowsFit
    <2> QED
        BY <1>3, <1>4, <1>6, <2>1, <2>2, <2>3
<1> QED
    BY <1>8, <1>9, <1>11, <1>12, <1>13, <1>14, <1>15, <1>16
    DEF ClientStep, SubmitStep

(* What reconcileStartup makes of a row still fits.                        *)
LEMMA ReconciledFits ==
    ASSUME TypeInv, CopyInv, FileInv, NEW j \in Jobs,
           jobs[j].state \notin ClosedStates
    PROVE  Fits(disk[j], parts[j], Reconciled(j))
<1>1. jobs[j] \in Row /\ Named(jobs[j]) /\ Fits(disk[j], parts[j], jobs[j])
    BY DEF TypeInv, TypeOK, CopyInv, RowsNamed, FileInv, RowsFit
<1> DEFINE row == [jobs[j] EXCEPT !.staging = TRUE]
           woken == [row EXCEPT !.run = "due"]
           verify == [row EXCEPT !.run = "due", !.state = "local_verify"]
<1>2. /\ row.state = jobs[j].state
      /\ woken.state = jobs[j].state /\ woken.staging
      /\ woken.completed = jobs[j].completed /\ woken.payload = jobs[j].payload
      /\ verify.state = "local_verify" /\ verify.staging
      /\ verify.completed = jobs[j].completed /\ verify.payload = jobs[j].payload
    BY <1>1 DEF Row
<1>3. CASE CompletedPathFound(j)
    <2>1. jobs[j].state \in {"completed", "remove_pending"}
        BY <1>1, <1>3 DEF CompletedPathFound, Named, Placed, ClosedStates
    <2>2. Reconciled(j) = jobs[j]
        BY <1>2, <1>3, <2>1 DEF Reconciled
    <2> QED
        BY <1>1, <2>2
<1>4. CASE ~ CompletedPathFound(j) /\ Staged(j)
    <2>1. Reconciled(j) = verify
        BY <1>4 DEF Reconciled
    <2>2. /\ jobs[j].state \in { "local_download_pending", "local_downloading",
                                 "local_verify" }
          /\ AllDone(parts[j])
        BY <1>4 DEF Staged, allPartsCompleted, Registered, AllDone, Listed
    <2> HIDE DEF row, woken, verify
    <2>3. Fits(disk[j], parts[j], verify)
        BY <1>1, <1>2, <2>2 DEF Fits, Moved, Gone, Underway, Ended, JobStates
    <2> QED
        BY <2>1, <2>3
<1>5. CASE ~ CompletedPathFound(j) /\ ~ Staged(j)
    <2>1. \/ Reconciled(j) = jobs[j]
          \/ Reconciled(j) = woken /\ needsWakeup(jobs[j].state)
        BY <1>2, <1>5 DEF Reconciled
    <2> HIDE DEF row, woken, verify
    <2>2. needsWakeup(jobs[j].state) => Fits(disk[j], parts[j], woken)
        BY <1>1, <1>2 DEF needsWakeup, Fits
    <2> QED
        BY <1>1, <2>1, <2>2
<1> QED
    BY <1>3, <1>4, <1>5

(* A crash takes the copies; the start removes only staging directories no *)
(* open job has.                                                           *)
LEMMA StartupFiles ==
    ASSUME TypeInv, OwnInv, CopyInv, FileInv, Crash \/ StartupStep
    PROVE  FileInv'
<1>1. /\ jobs \in [Jobs -> Row] /\ disk \in [Jobs -> Files] /\ RowsFit
    BY DEF TypeInv, TypeOK, FileInv
<1>2. \A w \in Workers : pc'[w] = "idle"
    BY DEF Crash, StartupStep, Restart, Reconcile, Start, StartupFrame, OwnInv,
           Quiet
<1>3. \A w \in Workers : Posted(w)'
    BY <1>2, PostShared DEF CopiesFit
<1>4. DeletesFit'
    <2>1. \A d \in Deletes : dreq'[d] # "read"
        <3>1. CASE Crash
            BY <3>1 DEF Crash
        <3>2. CASE StartupStep
            BY <3>2 DEF StartupStep, Restart, Reconcile, Start, StartupFrame,
                        OwnInv, Quiet
        <3> QED
            BY <3>1, <3>2
    <2> QED
        BY <2>1 DEF DeletesFit
<1>5. RowsFit'
    <2>1. CASE Crash
        BY <1>1, <2>1 DEF Crash, world, RowsFit
    <2>2. CASE Restart
        <3>1. UNCHANGED << disk, parts >> /\ jobs' = ReleaseAllClaims(jobs)
            BY <2>2 DEF Restart, StartupFrame
        <3>2. ASSUME NEW j \in Jobs
              PROVE  Fits(disk[j], parts[j], jobs'[j])
            <4>1. jobs[j] \in Row /\ jobs'[j] = [jobs[j] EXCEPT !.claim = NoWorker]
                BY <1>1, <3>1 DEF ReleaseAllClaims
            <4> QED
                BY <1>1, <4>1, Elsewhere, SameFits DEF RowsFit
        <3> QED
            BY <1>1, <3>1, <3>2 DEF RowsFit
    <2>3. CASE Reconcile
        <3>1. UNCHANGED << disk, parts >>
            BY <2>3 DEF Reconcile, StartupFrame
        <3>2. PICK j \in pending :
                 /\ Reconciled(j) \in Row
                 /\ jobs' = jobs \/ jobs' = UpdateJob(jobs, j, Reconciled(j))
            BY <2>3, ReconcileWrites
        <3>3. j \in Jobs /\ jobs[j].state \notin ClosedStates
            BY DEF TypeInv, TypeOK, OwnInv, Unreconciled
        <3>4. Fits(disk[j], parts[j], Reconciled(j)) /\ Fits(disk[j], parts[j], jobs[j])
            BY <1>1, <3>3, ReconciledFits DEF RowsFit
        <3>5. Fits(disk[j], parts[j], jobs'[j])
            BY <3>2, <3>3, <3>4, WrittenFits
        <3>6. \A k \in Jobs \ {j} : jobs'[k] = jobs[k]
            BY <3>2, <3>3, UpdateRow
        <3> QED
            BY <1>1, <3>1, <3>5, <3>6 DEF RowsFit
    <2>4. CASE Start
        <3>1. /\ UNCHANGED << jobs, parts >>
              /\ disk' = [j \in Jobs |-> WithoutOrphans(j)]
            BY <2>4 DEF Start, StartupFrame
        <3>2. ASSUME NEW j \in Jobs
              PROVE  /\ Sound(j, disk'[j], parts[j])
                     /\ Fits(disk'[j], parts[j], jobs[j])
            <4>1. Sound(j, disk[j], parts[j]) /\ Fits(disk[j], parts[j], jobs[j])
                BY <1>1 DEF RowsFit
            <4> DEFINE e == RemoveStaging(disk[j])
            <4>2. \/ disk'[j] = disk[j]
                  \/ disk'[j] = e /\ jobs[j].state \in ClosedStates \cup {"absent"}
                BY <3>1 DEF WithoutOrphans, ListOpenJobs, Exists
            <4>3. /\ ~ e.staging /\ e.final = disk[j].final /\ e.file = NoFile
                  /\ e.payload = disk[j].payload /\ e.placed = disk[j].placed
                BY <1>1 DEF RemoveStaging, Files
            <4> HIDE DEF e
            <4>4. Sound(j, e, parts[j])
                BY <4>1, <4>3 DEF Sound
            <4>5. jobs[j].state \in ClosedStates \cup {"absent"} =>
                      Fits(e, parts[j], jobs[j])
                BY <4>1, <4>3 DEF ClosedStates, Fits, Bare, Underway, Ended,
                                  Gone, JobStates
            <4> QED
                BY <4>1, <4>2, <4>4, <4>5
        <3> QED
            BY <3>1, <3>2 DEF RowsFit
    <2> QED
        BY <2>1, <2>2, <2>3, <2>4 DEF StartupStep
<1> QED
    BY <1>3, <1>4, <1>5 DEF FileInv

(* Rows, copies and files fit at every step.                               *)
LEMMA FileInvStep ==
    ASSUME TypeInv, OwnInv, CopyInv, FileInv, DeleteWhen \subseteq Ended,
           [Next]_vars
    PROVE  FileInv'
<1>1. CASE UNCHANGED vars
    <2>1. \A w \in Workers : Posted(w)'
        BY <1>1, PostKept DEF vars, FileInv
    <2>2. RowsFit' /\ DeletesFit'
        BY <1>1 DEF vars, FileInv, RowsFit, DeletesFit
    <2> QED
        BY <2>1, <2>2 DEF FileInv
<1> QED
    BY <1>1, WorkersFiles, ClientsFiles, StartupFiles DEF Next

(* So they do in every state, if clients delete only jobs that have ended. *)
LEMMA FileInvHolds ==
    ASSUME DeleteWhen \subseteq Ended
    PROVE  Spec => []FileInv
<1>1. Init => FileInv
    <2> SUFFICES ASSUME Init
                 PROVE  FileInv
        OBVIOUS
    <2>1. \A w \in Workers : pc[w] = "idle"
        BY DEF Init
    <2>2. \A w \in Workers : Posted(w)
        BY <2>1 DEF Posted, CopiesFit, AtParts, AtRename, AtRemoval, Workers
    <2>3. RowsFit
        BY DEF Init, RowsFit, Sound, Fits, NoRow, NoFiles, Gone, Underway,
               JobStates
    <2>4. DeletesFit
        BY DEF Init, DeletesFit
    <2> QED
        BY <2>2, <2>3, <2>4 DEF FileInv
<1>2. TypeInv /\ OwnInv /\ CopyInv /\ FileInv /\ [Next]_vars => FileInv'
    BY FileInvStep
<1> QED
    BY <1>1, <1>2, TypeInvHolds, OwnInvHolds, CopyInvHolds, PTL DEF Spec

(***************************************************************************)
(* The theorems.                                                           *)
(***************************************************************************)
(* Nothing of a removed job is left on disk: the remover works from copies *)
(* that may be as old as its batch, and delete requests write back rows    *)
(* they read earlier, yet no path is forgotten on the way (remove.go;      *)
(* router.go, markRemovePending).                                          *)
THEOREM NothingLeftOver ==
    ASSUME DeleteWhen \subseteq Ended
    PROVE  Spec => []NoLeftovers
<1>1. FileInv => NoLeftovers
    BY DEF FileInv, RowsFit, Fits, Bare, NoLeftovers
<1> QED
    BY <1>1, FileInvHolds, PTL

(* Every part recorded as done is on disk, whole, until its directory is   *)
(* renamed, whatever a crash interrupts and however often a download is    *)
(* taken up again (download.go skips such parts; orchestrator.go removes   *)
(* orphaned directories).                                                  *)
THEOREM DonePartsOnDisk ==
    ASSUME DeleteWhen \subseteq Ended
    PROVE  Spec => []PartsOnDisk
<1>1. Handles("downloader") \cup Handles("finalizer") \subseteq Underway
    BY DEF Handles, Underway, JobStates, Ended, Gone
<1>2. FileInv => PartsOnDisk
    BY <1>1 DEF FileInv, RowsFit, Fits, Kept, PartsOnDisk
<1> QED
    BY <1>2, FileInvHolds, PTL

(* The directory of a completed job is there and holds every part the job  *)
(* has: the rename and the write that records it are separate steps, and a *)
(* crash or a failure may come between them (finalize.go).                 *)
THEOREM CompletedPartsOnDisk ==
    ASSUME DeleteWhen \subseteq Ended
    PROVE  Spec => []CompletedOnDisk
<1>1. FileInv => CompletedOnDisk
    <2> SUFFICES ASSUME FileInv, NEW j \in Jobs, jobs[j].state = "completed"
                 PROVE  /\ disk[j].final
                        /\ Registered(j) # {}
                        /\ Registered(j) \subseteq disk[j].placed
        BY DEF CompletedOnDisk
    <2>1. Sound(j, disk[j], parts[j]) /\ disk[j].final
        BY DEF FileInv, RowsFit, Fits
    <2>2. Registered(j) = Listed(parts[j])
        BY DEF Registered, Listed
    <2> QED
        BY <2>1, <2>2 DEF Sound, AllDone
<1> QED
    BY <1>1, FileInvHolds, PTL

(* A download that a client sees as done, and that it has not deleted, is  *)
(* shown with the completed path, which is on disk and holds every part of *)
(* the job, and with nothing left (compat/qbit.go, qbitPathsForJob;        *)
(* api/progress.go, withLocalTransferProgress).                            *)
THEOREM ShownIsThere ==
    ASSUME DeleteWhen \subseteq Ended
    PROVE  Spec => []ShownDone
<1>1. TypeInv /\ FileInv => ShownDone
    <2> SUFFICES ASSUME TypeInv, FileInv, NEW j \in Jobs, QBitView(j) = "done",
                        jobs[j].state # "remove_pending"
                 PROVE  /\ qbitPathsForJob(jobs[j]) = "final" /\ disk[j].final
                        /\ Registered(j) \subseteq disk[j].placed
                        /\ ~ SomethingLeft(j)
        BY DEF ShownDone
    <2>1. jobs[j].state \in JobStates \cup {"absent"}
        BY DEF TypeInv, TypeOK, Row
    <2>2. jobs[j].state = "completed"
        BY <2>1 DEF QBitView, Visible, Exists, projectQBitState, Queueing, JobStates
    <2>3. Sound(j, disk[j], parts[j]) /\ disk[j].final /\ jobs[j].completed
        BY <2>2 DEF FileInv, RowsFit, Fits, Moved
    <2>4. Registered(j) = Listed(parts[j])
        BY DEF Registered, Listed
    <2> QED
        BY <2>3, <2>4 DEF Sound, AllDone, qbitPathsForJob, SomethingLeft
<1> QED
    BY <1>1, TypeInvHolds, FileInvHolds, PTL

(* A download that a client has seen as done or failed never comes back as *)
(* one that is on its way, in qBittorrent's list or SAB's, nor does one    *)
(* that is done fail: no stale copy, no crash and no startup brings it     *)
(* back (compat/qbit.go, projectQBitState; compat/sab.go).                 *)
THEOREM EndIsLasting ==
    ASSUME DeleteWhen \subseteq Ended
    PROVE  Spec => EndSticks
<1>1. TypeInv /\ OwnInv /\ CopyInv /\ [Next]_vars => [EndIsShownOnce]_vars
    <2> SUFFICES ASSUME TypeInv, OwnInv, CopyInv, [Next]_vars, NEW j \in Jobs
                 PROVE  /\ QBitView(j) \in { "done", "failed" } => QBitView(j)' # "coming"
                        /\ SABView(j) \in { "done", "failed" } => SABView(j)' # "coming"
                        /\ QBitView(j) = "done" => QBitView(j)' # "failed"
        BY DEF EndIsShownOnce
    <2> DEFINE s == jobs[j].state
               t == jobs'[j].state
               done == { "completed", "remove_pending" }
               failed == { "remote_failed", "failed" }
    <2>1. t = s \/ << s, t >> \in Lifecycle!Edges
        BY StepAlongEdge DEF EdgeStep
    <2>2. s \in JobStates \cup {"absent"} /\ t \in JobStates \cup {"absent"}
        BY TypeInvStep DEF TypeInv, TypeOK, Row
    <2>3. /\ s \in done => t \in done \cup {"removed"}
          /\ s \in failed => t \in failed \cup {"remove_pending"}
        BY <2>1 DEF Lifecycle!Edges
    <2>4. /\ QBitView(j) = "done" => s \in done
          /\ QBitView(j) = "failed" => s \in failed
          /\ SABView(j) \in { "done", "failed" } => s \in done \cup failed
        BY <2>2 DEF QBitView, SABView, Visible, Exists, projectQBitState,
                    isSABQueueState, isSABHistoryState, projectSABHistoryStatus,
                    Queueing, JobStates
    <2>5. /\ t \in done \cup {"removed"} => QBitView(j)' \notin { "coming", "failed" }
          /\ t \in done \cup failed \cup {"removed"} =>
                QBitView(j)' # "coming" /\ SABView(j)' # "coming"
        BY DEF QBitView, SABView, Visible, Exists, projectQBitState,
               isSABQueueState, isSABHistoryState, projectSABHistoryStatus, Queueing
    <2> QED
        BY <2>3, <2>4, <2>5
<1> QED
    BY <1>1, TypeInvHolds, OwnInvHolds, CopyInvHolds, PTL DEF Spec, EndSticks

(***************************************************************************)
(* Every file of the task.  The parts of a job are registered one by one,  *)
(* and a job whose registration is cut short is taken up again with the    *)
(* parts it has (download.go): only a crash or a failed statement does     *)
(* that, and until there is one a job has all its parts or none, except    *)
(* while the downloader registers them.                                    *)
(***************************************************************************)
Calm == crashes = 0 /\ faults = 0

Whole(p) == Listed(p) \in { {}, Assets }

Registering(j) == pc["downloader"] = "register" /\ j = DlJob

WholeInv == Calm => \A j \in Jobs : Whole(parts[j]) \/ Registering(j)

(* Crashes and failures are counted, and nothing takes one back.           *)
LEMMA CalmBefore ==
    ASSUME TypeInv, Next, Calm'
    PROVE  Calm /\ ~ WorkerFault /\ ~ Crash
<1>1. crashes \in Nat /\ faults \in Nat
    BY DEF TypeInv, TypeOK
<1>2. /\ faults' \in { faults, faults + 1 }
      /\ WorkerFault => faults' = faults + 1
      /\ IF Crash THEN crashes' = crashes + 1 ELSE crashes' = crashes
    BY MishapsCounted
<1> QED
    BY <1>1, <1>2 DEF Calm

(* A step that leaves the parts and the downloader alone.                  *)
LEMMA WholeKept ==
    ASSUME WholeInv, Calm, UNCHANGED parts,
           pc'["downloader"] = pc["downloader"],
           todo'["downloader"] = todo["downloader"]
    PROVE  WholeInv'
    BY DEF WholeInv, Registering, DlJob, Job

(* The downloader leaves its registration only when all parts are there.   *)
LEMMA DownloaderWhole ==
    ASSUME TypeInv, OwnInv, CopyInv, FileInv, WholeInv, Calm, DownloaderStep
    PROVE  WholeInv'
<1> DEFINE w == "downloader"
<1>1. w \in Workers /\ pc[w] \notin {"idle", "fetch", "release", "save"}
      /\ UNCHANGED todo
    <2>1. Working(w) /\ w \in Workers
        BY DownloaderWorks DEF Workers
    <2>2. pc[w] # "fetch"
        BY DEF DownloaderStep, Prepare, LinksError, NoAssets,
               GetDownloadLinks, Register, RegisterDone, RegisterRejected,
               RequestOk, RequestBeyondEnd, Request404, Request5xx,
               RequestError, MarkSkipped, Mark, MarkRejected, StreamEnd,
               StreamShort, StreamBroken, Commit, CommitShort,
               CommitRejected, Finish, Marking, Fetching, Downloading, Up
    <2> QED
        BY <2>1, <2>2 DEF Working, Apart
<1>2. PICK j : j = Job(w)
    OBVIOUS
<1>3. DlJob = j /\ DlJob' = j
    BY <1>1, <1>2 DEF DlJob, Job
<1>4. /\ j \in Jobs /\ parts[j] \in [Assets -> PartStates]
      /\ jobs[j].state \in Handles(w)
    BY <1>1, <1>2, FilesAtHand
<1>5. CASE UNCHANGED parts /\ pc[w] # "register"
    BY <1>5 DEF WholeInv, Registering
<1>6. CASE Register
    <2>1. /\ pc[w] = "register" /\ pc' = pc
          /\ \E a : parts' = [parts EXCEPT ![j][a] = "registered"]
        BY <1>3, <1>6 DEF Register, Downloading, Up
    <2>2. \A k \in Jobs \ {j} : parts'[k] = parts[k]
        BY <2>1 DEF TypeInv, TypeOK
    <2> QED
        BY <1>3, <2>1, <2>2 DEF WholeInv, Registering
<1>7. CASE RegisterDone
    <2>1. UNCHANGED parts /\ Unregistered(j) = {}
        BY <1>3, <1>7 DEF RegisterDone
    <2>2. Listed(parts[j]) = Assets
        BY <2>1 DEF Unregistered, Registered, Listed
    <2> QED
        BY <1>3, <2>1, <2>2 DEF WholeInv, Whole, Registering
<1>8. ~ RegisterRejected
    BY <1>1, <1>3, <1>4, HandlesApart DEF RegisterRejected, Exists, Handles
<1>9. CASE Commit
    <2>1. /\ pc[w] = "commit"
          /\ parts' = [parts EXCEPT ![j][Part] = "done"]
        BY <1>3, <1>9 DEF Commit, Recorded, Downloading, Up
    <2>2. Part \in left /\ Part \in Assets /\ parts[j][Part] = "registered"
        BY <1>1, <1>3, <2>1, AtPart DEF TypeInv, PartAtHand, FileInv, Posted, AtParts
    <2>3. /\ \A k \in Jobs \ {j} : parts'[k] = parts[k]
          /\ parts'[j] = [parts[j] EXCEPT ![Part] = "done"]
        BY <1>4, <2>1 DEF TypeInv, TypeOK
    <2>4. Listed(parts'[j]) = Listed(parts[j])
        BY <1>4, <2>2, <2>3 DEF Listed
    <2>5. \A k \in Jobs : Whole(parts[k])
        BY <2>1 DEF WholeInv, Registering
    <2> QED
        BY <2>3, <2>4, <2>5 DEF WholeInv, Whole
<1>10. CASE \/ Prepare \/ LinksError \/ NoAssets \/ GetDownloadLinks
            \/ RequestOk \/ RequestBeyondEnd \/ Request404 \/ Request5xx
            \/ RequestError \/ MarkSkipped \/ Mark \/ MarkRejected
            \/ StreamEnd \/ StreamShort \/ StreamBroken \/ CommitShort
            \/ CommitRejected \/ Finish
    <2>1. UNCHANGED parts /\ pc[w] # "register"
        BY <1>10 DEF Prepare, LinksError, NoAssets, GetDownloadLinks,
                     RequestOk, RequestBeyondEnd, Request404, Request5xx,
                     RequestError, MarkSkipped, Mark, MarkRejected, MarkError,
                     StreamEnd, StreamShort, StreamBroken, Recorded,
                     CommitShort, CommitRejected, Finish, Leave, Abandon,
                     Marking, Fetching, Downloading, Up
    <2> QED
        BY <1>5, <2>1
<1> QED
    BY <1>6, <1>7, <1>8, <1>9, <1>10 DEF DownloaderStep

LEMMA WholeStep ==
    ASSUME TypeInv, OwnInv, CopyInv, FileInv, WholeInv, [Next]_vars
    PROVE  WholeInv'
<1>1. CASE UNCHANGED vars
    BY <1>1 DEF vars, WholeInv, Calm, Registering, DlJob, Job
<1>2. CASE Next
    <2> SUFFICES ASSUME Calm'
                 PROVE  WholeInv'
        BY DEF WholeInv
    <2>1. Calm /\ ~ WorkerFault /\ ~ Crash
        BY <1>2, CalmBefore
    <2>2. ASSUME NEW w \in Workers \ {"downloader"}, OwnStep(w), UNCHANGED parts
          PROVE  WholeInv'
        <3>1. "downloader" \in Workers \ {w}
            BY <2>2 DEF Workers
        <3> QED
            BY <2>1, <2>2, <3>1, WholeKept DEF OwnStep
    <2>3. ASSUME NEW w \in Workers, LoopStep(w)
          PROVE  WholeInv'
        <3>1. /\ UNCHANGED parts
              /\ pc[w] \in {"idle", "fetch", "save", "release"}
            BY <2>3 DEF LoopStep, Claim, Fetch, Save, Release, Up, world
        <3>2. CASE w = "downloader"
            BY <2>1, <3>1, <3>2 DEF WholeInv, Registering
        <3> QED
            BY <2>2, <2>3, <3>1, <3>2, LoopOwns
    <2>4. ASSUME NEW w \in Workers \ {"downloader"}, ProcessStep(w)
          PROVE  WholeInv'
        <3>1. Working(w)
            BY <2>4, SubmitterWorks, PollerWorks, FinalizerWorks, RemoverWorks
            DEF ProcessStep
        <3>2. UNCHANGED parts
            BY <2>4 DEF ProcessStep, SubmitterStep, SubmitActive,
                        SubmitQueued, SubmitRetryable, SubmitPermanent,
                        Answered, PollerStep, PollActive, PollQueued,
                        PollMidWrite, PollMidWriteRejected, PollFind,
                        PollRecover, PollApplyReady, PollApplyFailed,
                        PollApplyRunning, PollAgain, RemoteFailed, Turn,
                        FoundActive, PollerFrame, FinalizerStep, Verify,
                        PromoteOk, PromoteFails, PromoteError, RemoverStep,
                        RemoveCompletedPath, RemoveStagingPath,
                        RemovePayload, RemoverFrame, world
        <3> QED
            BY <2>2, <2>4, <3>1, <3>2, WorkingOwns
    <2>5. CASE ProcessStep("downloader")
        BY <2>1, <2>5, DownloaderWhole DEF ProcessStep
    <2>6. CASE ClientStep \/ \E j \in Jobs : TimePasses(j)
        <3>1. UNCHANGED << parts, pc, todo >>
            BY <2>6 DEF ClientStep, SavePayload, SubmitStep, RequestDies,
                        FindDuplicate, FindNone, Insert, InsertRejected,
                        QueueForSubmit, Submitted, DeleteWrite, DeleteRead,
                        DeleteFrame, ApiFrame, TimePasses, world
        <3> QED
            BY <2>1, <3>1, WholeKept
    <2>7. ASSUME NEW j \in Jobs, Prune(j)
          PROVE  WholeInv'
        <3>1. /\ parts' = [parts EXCEPT ![j] = NoParts]
              /\ UNCHANGED << pc, todo >>
            BY <2>7 DEF Prune
        <3>2. /\ Listed(NoParts) = {}
              /\ \A k \in Jobs : parts'[k] \in { parts[k], NoParts }
            BY <3>1 DEF Listed, NoParts, TypeInv, TypeOK
        <3> QED
            BY <2>1, <3>1, <3>2 DEF WholeInv, Whole, Registering, DlJob, Job
    <2>8. CASE StartupStep
        <3>1. UNCHANGED << parts, pc, todo >>
            BY <2>8 DEF StartupStep, Restart, Reconcile, Start, StartupFrame
        <3> QED
            BY <2>1, <3>1, WholeKept
    <2> QED
        BY <1>2, <2>1, <2>3, <2>4, <2>5, <2>6, <2>7, <2>8 DEF Next, WorkerStep
<1> QED
    BY <1>1, <1>2

(* A completed job's directory holds every file of the remote task as long *)
(* as the process has not died and no statement or file operation has      *)
(* failed: what README.md promises ("verifies all parts are on disk") is   *)
(* given up by a registration that is cut short, and by nothing else,      *)
(* neither broken and short bodies nor deletes (download.go,               *)
(* processDownloadJob; finalize.go, processFinalizeJob).                   *)
THEOREM CompletedIsWhole ==
    ASSUME DeleteWhen \subseteq Ended
    PROVE  Spec => []WholeUnlessBroken
<1>1. Init => WholeInv
    BY DEF Init, WholeInv, Whole, Listed, NoParts
<1>2. TypeInv /\ OwnInv /\ CopyInv /\ FileInv /\ WholeInv /\ [Next]_vars => WholeInv'
    BY WholeStep
<1>3. ASSUME TypeInv, OwnInv, CopyInv, FileInv, WholeInv
      PROVE  WholeUnlessBroken
    <2> SUFFICES ASSUME Calm, NEW j \in Jobs, jobs[j].state = "completed"
                 PROVE  disk[j].placed = Assets
        BY DEF WholeUnlessBroken, CompletedWhole, Calm
    <2>1. /\ Listed(parts[j]) # {} /\ Listed(parts[j]) \subseteq disk[j].placed
          /\ disk[j] \in Files
        <3>1. /\ Sound(j, disk[j], parts[j]) /\ disk[j].final
              /\ disk[j] \in Files
            BY <1>3 DEF FileInv, RowsFit, Fits, TypeInv, TypeOK
        <3> QED
            BY <3>1 DEF Sound, AllDone
    <2>2. ~ Registering(j)
        <3> SUFFICES ASSUME pc["downloader"] = "register", j = Job("downloader")
                     PROVE  FALSE
            BY DEF Registering, DlJob
        <3>1. jobs[j].state \in Handles("downloader")
            BY <1>3, FilesAtHand DEF Workers
        <3> QED
            BY <3>1 DEF Handles
    <2>3. Listed(parts[j]) = Assets
        BY <1>3, <2>1, <2>2 DEF WholeInv, Whole
    <2> QED
        BY <2>1, <2>3 DEF Files
<1> QED
    BY <1>1, <1>2, <1>3, TypeInvHolds, OwnInvHolds, CopyInvHolds, FileInvHolds,
       PTL DEF Spec
=============================================================================
