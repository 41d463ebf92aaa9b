---------------------------- MODULE RemoteTracking ---------------------------
(***************************************************************************)
(* How one job keeps hold of its task at TorBox: the identifiers that      *)
(* internal/worker/submit.go and poll.go take from TorBox's answers, from  *)
(* the create call until the content is ready, with every call waiting for *)
(* a token of pollLimiter, which the downloader's calls use as well.       *)
(* Module Poller has the same handlers against the jobs table and without  *)
(* the identifiers; claims, clock and rejected writes are there.           *)
(*                                                                         *)
(* TorBox moves the task between any two calls.  What it puts into its     *)
(* answers is a `shape': fixed for a behaviour, free between behaviours.   *)
(***************************************************************************)
EXTENDS RemoteItems, RateLimit

CONSTANTS
    Shapes,
    MaxHiccups      \* bound: retryable answers

(* Both workers of one client wait for pollLimiter.                        *)
ASSUME TrackingAssumption ==
    { "poller", "downloader" } \subseteq Callers /\ MaxHiccups \in Nat

VARIABLES
    task,       \* where TorBox has the task, and how far it is
    shape,      \* what TorBox's answers look like
    job,        \* the row: state and identifiers
    copy,       \* the poller's copy of it
    pc,         \* the call the poller is about to make
    hiccups,
    refused     \* history: a call of this job came back with an error
                \* that is not retryable and that gives the job up

vars == << task, shape, job, copy, pc, hiccups, refused, bucket >>

Ids == [ state : { "submit_pending", "submit_retry", "remote_queued",
                   "remote_active", "local_download_pending",
                   "remote_failed" },
         remoteID : { "", "t", "o", "q" }, queuedID : { "", "t", "q" },
         authID : { "", "a", "oa" }, hash : { "", "h", "oh" } ]

Init ==
    /\ task = [place |-> "none", status |-> "running"]
    /\ shape \in Shapes
    /\ job = [ state |-> "submit_pending", remoteID |-> "", queuedID |-> "",
               authID |-> "", hash |-> "" ]
    /\ copy = job
    /\ pc = "idle"
    /\ hiccups = 0
    /\ refused = FALSE
    /\ BucketInit

remote == << task, shape >>

(***************************************************************************)
(* The fields that are read.  An active task comes with an id under one of *)
(* the names extractActiveID knows for its source.                         *)
(***************************************************************************)
QueueFields ==
    { "queued_id", "queue_id", "id", "torrent_id", "usenet_id", "auth_id",
      "torrent_file", "hash" }

ActiveFields ==
    { "id", "torrent_id", "download_id", "usenet_id", "usenetdownload_id",
      "auth_id", "hash", "download_present", "download_finished",
      "download_label", "download_state" }

ASSUME ShapesAssumption ==
    \A s \in Shapes :
        /\ s.source \in { "torrent", "nzb" }
        /\ s.create \cup s.queue \cup s.leaving \subseteq QueueFields
        /\ s.started \cup s.active \subseteq ActiveFields
        /\ Range(ActiveKeys(s.source)) \cap s.active # {}
        /\ s.bare \subseteq { "queue", "active" }

(***************************************************************************)
(* TorBox.  The account has this task and maybe another one; "q" is the    *)
(* task's id in the queue, "t" its id once active.                         *)
(***************************************************************************)
QueueField(f) ==
    CASE f \in { "queued_id", "queue_id", "id" } -> "q"
      [] f \in { "torrent_id", "usenet_id" } -> "t"
      [] f \in { "auth_id", "torrent_file" } -> "a"
      [] f = "hash" -> "h"

Flag(b) == IF b THEN "true" ELSE "false"

ActiveField(f) ==
    CASE f \in { "id", "torrent_id", "download_id", "usenet_id",
                 "usenetdownload_id" } -> "t"
      [] f = "auth_id" -> "a"
      [] f = "hash" -> "h"
      [] f = "download_present" -> Flag(task.status = "ready")
      [] f = "download_finished" ->
            Flag(task.status \in { "finished", "ready" })
      [] f = "download_label" ->
            IF task.status = "ready" THEN "cached" ELSE "downloading"
      [] f = "download_state" ->
            IF task.status = "failed" THEN "failed" ELSE "completed"

OtherField(f) ==
    CASE f \in { "id", "torrent_id", "download_id", "usenet_id",
                 "usenetdownload_id" } -> "o"
      [] f = "auth_id" -> "oa"
      [] f = "hash" -> "oh"
      [] f \in { "download_present", "download_finished" } -> "true"
      [] f = "download_label" -> "cached"
      [] f = "download_state" -> "completed"

Queue ==
    LET fields == CASE task.place = "queue"   -> shape.queue
                    [] task.place = "between" -> shape.leaving
                    [] OTHER                  -> {}
    IN  IF fields = {} THEN << >>
        ELSE << [f \in fields |-> QueueField(f)] >>

OwnItem == [f \in shape.active |-> ActiveField(f)]

OtherItem == [f \in shape.active |-> OtherField(f)]

(* mylist?id= returns that task only.                                      *)
Listed(item, id) ==
    IF id = "" \/ extractActiveID(shape.source, item) = id
    THEN << item >> ELSE << >>

MyList(id) ==
    (IF shape.company THEN Listed(OtherItem, id) ELSE << >>)
    \o (IF task.place = "active" THEN Listed(OwnItem, id) ELSE << >>)

(* An answer without items may be null, which parseItemsEnvelope rejects,  *)
(* and the error is not retryable.                                         *)
Rejected(items) == items = << >> /\ shape.silent = "null"

TorBoxStep ==
    /\ \/ /\ task.place = "queue"
          /\ task' = [task EXCEPT !.place = "between"]
       \/ /\ task.place = "between"
          /\ task' = [task EXCEPT !.place = "active"]
       \/ /\ task.place = "active" /\ task.status = "running"
          /\ task' = [task EXCEPT !.status = "finished"]
       \/ /\ task.place = "active" /\ task.status = "finished"
          /\ \E s \in { "ready", "failed" } :
                task' = [task EXCEPT !.status = s]
    /\ UNCHANGED << shape, job, copy, pc, hiccups, refused, bucket >>

(***************************************************************************)
(* processSubmitJob: CreateTorrentTask or CreateUsenetTask, which has a    *)
(* bucket of its own.  TorBox queues the task, starts it, or names none;   *)
(* a task that an answer without identifiers leaves behind is another task *)
(* of the account (module Pipeline counts those).                          *)
(***************************************************************************)
CreateData(place) ==
    CASE place = "none" -> [kind |-> "none"]
      [] place \in shape.bare ->
            [ kind |-> "bare", value |-> IF place = "queue" THEN "q" ELSE "t" ]
      [] place = "queue" /\ place \notin shape.bare ->
            [ kind |-> "object",
              value |-> [f \in shape.create |-> QueueField(f)] ]
      [] place = "active" /\ place \notin shape.bare ->
            [ kind |-> "object",
              value |-> [f \in shape.started |-> ActiveField(f)] ]

Adopt(row, response) ==
    [ state |-> CASE response = NoIds -> "submit_retry"
                  [] response.remoteID # "" -> "remote_active"
                  [] OTHER -> "remote_queued",
      remoteID |-> response.remoteID, queuedID |-> response.queuedID,
      authID |-> response.authID, hash |-> response.hash ]

Hiccup == hiccups < MaxHiccups /\ hiccups' = hiccups + 1

GivenUp(row) == [row EXCEPT !.state = "remote_failed"]

(* No identifiers, like a retryable error: submit it again.                *)
Created(place) ==
    LET response == parseCreateTask(CreateData(place))
    IN  /\ job' = Adopt(job, response)
        /\ IF response = NoIds
           THEN Hiccup /\ UNCHANGED task
           ELSE task' = [task EXCEPT !.place = place] /\ UNCHANGED hiccups
        /\ UNCHANGED refused

(* Any other error (HTTPClient.do, parseCreateTask).                       *)
CreateRefused ==
    /\ job' = GivenUp(job)
    /\ refused' = TRUE
    /\ UNCHANGED << task, hiccups >>

Submit ==
    /\ job.state \in { "submit_pending", "submit_retry" }
    /\ \/ \E place \in { "none", "queue", "active" } : Created(place)
       \/ CreateRefused
    /\ UNCHANGED << shape, copy, pc, bucket >>

(***************************************************************************)
(* processPollJob                                                          *)
(***************************************************************************)
Begin ==
    /\ pc = "idle"
    /\ ~ cancelled
    /\ job.state \in { "remote_queued", "remote_active" }
    /\ copy' = job
    /\ pc' = IF job.state = "remote_queued" \/ job.remoteID = ""
             THEN "queue" ELSE "status"
    /\ UNCHANGED << remote, job, hiccups, refused, bucket >>

(* Each call to TorBox waits first.                                        *)
PollerWaits ==
    /\ pc # "idle"
    /\ TakeToken("poller") \/ JoinLine("poller")
    /\ UNCHANGED << remote, job, copy, pc, hiccups, refused >>

(* The context is done: the wait, the request or the statement after it    *)
(* fails, with an error that is not retryable and that nobody can store.   *)
PollerStops ==
    /\ pc # "idle"
    /\ cancelled
    /\ \/ GiveUpWaiting("poller")
       \/ Spend("poller")
       \/ Outside("poller") /\ UNCHANGED bucket
    /\ pc' = "idle"
    /\ UNCHANGED << remote, job, copy, hiccups, refused >>

Calling(label) ==
    /\ pc = label
    /\ ~ cancelled
    /\ Spend("poller")
    /\ UNCHANGED remote

WriteRow(row) ==
    /\ job' = row
    /\ copy' = row
    /\ pc' = "idle"

Or(new, old) == IF new # "" THEN new ELSE old

(* applyActiveStatus                                                       *)
Apply(row, s) ==
    [ state |-> IF s.ready THEN "local_download_pending"
                ELSE IF s.over THEN "remote_failed" ELSE "remote_active",
      remoteID |-> Or(s.remoteID, row.remoteID),
      authID |-> Or(s.authID, row.authID),
      hash |-> Or(s.hash, row.hash),
      queuedID |-> IF s.ready THEN "" ELSE row.queuedID ]

(* FindActiveTask among what the account holds when the call is made.  The *)
(* call may also fail for good: a status 4xx, a network error that is no   *)
(* timeout, a body that cannot be read or decoded, an error of the API.    *)
Answers(remoteID, authID, hash) ==
    LET asked == [remoteID |-> remoteID, authID |-> authID, hash |-> hash]
    IN  { [ rejected |-> refusal \/ Rejected(items),
            status |-> FindActiveTask(shape.source, items, asked) ]
          : items \in { MyList(remoteID) }, refusal \in BOOLEAN }

Followed(row, answer) ==
    IF answer.status.found THEN Apply(row, answer.status) ELSE row

(* Variant: a task that is not in the list is given up.                    *)
OutcomeOrElse(row, answer) ==
    IF answer.status.found THEN Followed(row, answer) ELSE GivenUp(row)

(* What an error that is not retryable, a match and no match come to.      *)
Outcome(row, answer) ==
    IF answer.rejected THEN GivenUp(row) ELSE Followed(row, answer)

Lookup(label, remoteID, authID, hash) ==
    /\ Calling(label)
    /\ \/ Hiccup /\ WriteRow(copy) /\ UNCHANGED refused
       \/ /\ \E answer \in Answers(remoteID, authID, hash) :
                /\ WriteRow(Outcome(copy, answer))
                /\ refused' = (refused \/ answer.rejected)
          /\ UNCHANGED hiccups

(* GetTaskStatus                                                           *)
PollStatus == Lookup("status", copy.remoteID, "", "")

(* tryRecoverActiveStatus                                                  *)
PollRecover == Lookup("recover", copy.remoteID, copy.authID, copy.hash)

(* processQueuedPollJob: the queue is asked by queue id.  An error of any  *)
(* kind is treated like an answer without the task.                        *)
Learnt(row, s) ==
    [row EXCEPT !.authID = Or(s.authID, @), !.hash = Or(s.hash, @)]

StillQueued(status) ==
    /\ status.found /\ status.remoteID = ""
    /\ WriteRow(Learnt(copy, status))

Promote(status) ==
    LET row == [Learnt(copy, status) EXCEPT !.state = "remote_active",
                                            !.remoteID = status.remoteID]
    IN  /\ status.found /\ status.remoteID # ""
        /\ job' = row /\ copy' = row
        /\ pc' = "find"

NotQueued ==
    /\ pc' = "recover"
    /\ UNCHANGED << job, copy >>

QueueAnswer ==
    IF copy.queuedID = "" THEN NoStatus
    ELSE GetQueuedStatus(shape.source, Queue, copy.queuedID)

PollQueue ==
    /\ Calling("queue")
    /\ \/ \E status \in { QueueAnswer } :
             StillQueued(status) \/ Promote(status)
       \/ NotQueued
    /\ UNCHANGED << hiccups, refused >>

(* FindActiveTask after a promotion; an error of any kind leaves the row   *)
(* as it is.                                                               *)
PollFind ==
    /\ Calling("find")
    /\ \E answer \in Answers(copy.remoteID, copy.authID, copy.hash) :
          WriteRow(IF answer.rejected THEN copy ELSE Followed(copy, answer))
    /\ UNCHANGED << hiccups, refused >>

PollerStep ==
    \/ Begin \/ PollerWaits \/ PollerStops
    \/ PollQueue \/ PollRecover \/ PollFind \/ PollStatus

(***************************************************************************)
(* The downloader wants tokens of the same bucket whenever it likes.       *)
(***************************************************************************)
DownloaderCalls ==
    /\ ~ cancelled
    /\ TakeToken("downloader") \/ JoinLine("downloader")
    /\ UNCHANGED << remote, job, copy, pc, hiccups, refused >>

DownloaderGoesOn ==
    /\ Spend("downloader") \/ GiveUpWaiting("downloader")
    /\ UNCHANGED << remote, job, copy, pc, hiccups, refused >>

Refill == Tick /\ UNCHANGED << remote, job, copy, pc, hiccups, refused >>

Shutdown == Cancel /\ UNCHANGED << remote, job, copy, pc, hiccups, refused >>

Next ==
    \/ TorBoxStep \/ Submit \/ PollerStep
    \/ DownloaderCalls \/ DownloaderGoesOn \/ Refill \/ Shutdown

Spec == Init /\ [][Next]_vars

(* The refill goroutine and both workers run; TorBox, clients and the      *)
(* operator do what they like.                                             *)
FairSpec ==
    /\ Spec
    /\ WF_vars(PollerStep) /\ WF_vars(DownloaderGoesOn) /\ WF_vars(Refill)

-----------------------------------------------------------------------------
(***************************************************************************)
(* Properties                                                              *)
(***************************************************************************)

(* The identifiers are those of the task, of its queue entry or of the     *)
(* other task.                                                             *)
TypeOK ==
    /\ BucketTypeOK
    /\ task \in [ place : { "none", "queue", "between", "active" },
                  status : { "running", "finished", "ready", "failed" } ]
    /\ job \in Ids /\ copy \in Ids
    /\ pc \in { "idle", "queue", "recover", "find", "status" }
    /\ hiccups \in 0..MaxHiccups
    /\ refused \in BOOLEAN

(* What is taken for the id of an active task in an item with these fields *)
(* while the task is queued.                                               *)
TaskID(source, fields) ==
    extractActiveID(source, [f \in fields |-> QueueField(f)])

(* What s has in answers about a queued task: to creation, in the queue,   *)
(* on the way to the active list.                                          *)
QueuedTaskIDs(s) ==
    { IF "queue" \in s.bare THEN "q" ELSE TaskID("", s.create),
      TaskID(s.source, s.queue), TaskID(s.source, s.leaving) }

(* No bare "id" of a queue item, and no bare value in the answer to a      *)
(* creation, is the id of a queue entry taken for the id of a task.        *)
DistinctIds(s) == "q" \notin QueuedTaskIDs(s)

(* The job never follows another task of the account, nor takes an id of   *)
(* the queue for an id of a task, and it goes on to the download only when *)
(* its own task's content is present (parse.go, FindActiveTask).           *)
RightTask ==
    /\ job.remoteID \in { "", "t" }
    /\ job.state = "local_download_pending" =>
            job.remoteID = "t" /\ task.status = "ready"

(* A job is given up only if its task has failed or TorBox refused one of  *)
(* its calls for good, not because the task was between the queue and the  *)
(* active list at the moment of a lookup (poll.go).                        *)
NotGivenUp ==
    job.state = "remote_failed" => task.status = "failed" \/ refused

(* In a refill period, which begins with a tick, fewer calls get a token   *)
(* than twice the capacity: a full bucket and the ticks that follow.       *)
RateBound == passed < 2 * Capacity

(* A task that is active is found by its job: by its id, or, when the      *)
(* queue entry is gone, by hash or auth id (tryRecoverActiveStatus), unless *)
(* TorBox refuses a call before that.                                      *)
Tracked ==
    task.place = "active" ~> job.remoteID = "t" \/ cancelled \/ refused

(* Nobody waits for a token for ever, however often the other worker       *)
(* calls (TokenBucket.Wait).                                               *)
ServedInTurn == \A c \in Callers : Contains(line, c) ~> ~ Contains(line, c)
=============================================================================
