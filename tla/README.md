# TorBoxarr: specification

TLA+ modules for TorBoxarr (`src/`), the TLC runs that check them on small
instances, and TLAPS proofs of what holds for every instance.

## The system

TorBoxarr takes submissions through a qBittorrent- and a SABnzbd-like HTTP API,
creates a task at TorBox for each, waits for the task, downloads its files and
moves them where Sonarr or Radarr look for them. One process; one SQLite
connection; files under three roots (staging, completed, payloads).

| component | state it keeps | operations | modelled in |
|---|---|---|---|
| job store (`internal/store`) | `jobs`, `transfer_parts`, `job_events`, `qbit_sessions`; times as text | insert, whole-row update, claim, release, prune | `JobStore`; `Sessions`, `TimeText` |
| worker loop (`worker/orchestrator.go`, `helpers.go`) | per worker: batch of row copies | claim a batch, fetch it, process, write back, release | `WorkerLoop` |
| submitter (`worker/submit.go`) | – | create task, retry, reject | `Submitter`, `RemoteTracking` |
| poller (`worker/poll.go`) | – | queue lookup, promotion, recovery, status | `Poller`, `RemoteTracking` |
| downloader (`worker/download.go`, `files/downloader.go`) | list of parts of the job at hand; part file | links, register parts, fetch, resume, record | `Downloader`; `RangeDownload`, `PartFile` |
| finalizer (`worker/finalize.go`, `files/layout.go`) | – | check files, rename, record path | `Finalizer` |
| remover, pruner (`worker/remove.go`) | – | delete three paths, delete old rows and sessions | `Remover`, `Sessions` |
| handlers (`api/router.go`) | row copy between two statements | submit, delete | `Api` |
| startup (`worker/orchestrator.go`) | list of open jobs | release claims, reconcile, remove orphans | `Startup` |
| client projections (`compat`, `api/progress.go`) | none | row to state, path, what is left | `Projection` |
| TorBox client, answer parsing (`torbox/client.go`, `tasks.go`, `parse.go`) | none | find a task among items, read its ids and status | `RemoteItems`; as answers in `Submitter`, `Poller`, `Downloader` |
| rate limiter (`torbox/limiter.go`) | tokens, waiting callers | wait, refill | `RateLimit` |
| authentication (`auth/qbit.go`) | sessions | login, logout, validate | `Sessions` |
| configuration, utilities, mock client, deployment | – | | no |

The jobs table is what the parts share. Nobody holds a lock across statements: a
worker reads rows once, works on copies for as long as a network call or a
download takes, and then writes *all* columns of the copy; a handler does the same
over two statements. Claims (`claimed_by`) are meant to keep workers apart, but
every `UpdateJob` clears them and `ReleaseJobClaim` is by id.

What is hard here, and why the properties are what they are:

- copies that are stale when written (delete against worker, release against the
  next claim, the second half of a batch);
- several statements, files and remote effects that ought to be one step
  (insert and queue, register parts, rename and record, create and record);
- crashes between any two of them, with a startup that repairs from what it finds;
- errors returned half way, and transient answers of TorBox and its CDN;
- the unique index, which a closed job leaves and re-enters;
- a part file that is resumed by its length alone, from a link that may lead to
  another file by then, with lengths that may be announced or not;
- a task that TorBox moves from its queue to its list between two calls, under ids
  of several kinds;
- times that are compared as texts in one place and as times in another.

## Modules

Four specifications, each with the modules it is composed of:

- **`Pipeline`**: all workers, handlers, crashes and startup around one jobs table.
  `JobStore` has no variables: its operators map a table value to a table value, so
  the same definitions serve the detailed and the abstract specification.
  `WorkerLoop` declares all variables and what the workers share; `Submitter`,
  `Poller`, `Downloader`, `Finalizer`, `Remover`, `Api` and `Startup` each extend it
  with one component's actions; `Pipeline` composes them (`Next`, `Spec`,
  `FairSpec`) and states the properties; `Projection` adds what clients are shown.
  `JobLifecycle` is its abstract specification. `MCPipeline` gives constants for TLC.
- **`RangeDownload`**: the download of one part down to its bytes; the three states
  a part file has in `Pipeline` are its abstraction. `PartFile` is its abstract
  specification: what a part's row may say of a part file.
- **`RemoteTracking`**: the identifiers of one job from the create call to the ready
  content, over `RemoteItems` (which field of an answer is what) and `RateLimit`
  (the token bucket every call waits for). `Poller` has the same handlers against
  the jobs table without the identifiers.
- **`Sessions`**: login, validation and pruning, over `TimeText`, the text form of
  times.

`PipelineProofs`, `OwnershipProofs`, `LifecycleProofs`, `TaskProofs` and `FileProofs`
hold the theorems about `Pipeline`; `RangeProofs`, `RemoteProofs` and `SessionProofs`
those about the other three.

### Pipeline and the code

- `jobs[j]` is a row. Columns nothing branches on are left out, nullable ones are
  Booleans, `next_run_at` is `nil`, `later` or `due` and the clock (`TimePasses`)
  turns `later` into `due`. A missing row has state `absent`. Jobs are numbered in
  `created_at` order; a job id stands for one submission request.
- `parts[j][a]` is the row of asset `a` in `transfer_parts`; `disk[j]` the job's
  staging directory with its part files, its completed directory with the files
  renamed into it, and its payload. A part file is absent, partial or full
  relative to the length in its row.
- `pc[w]` is where worker `w` is inside its `process...` function, `todo[w]` what
  remains of its batch, `snap[w]` its copies. Each SQL statement, file operation
  and remote answer is a step of its own; a `process...` function that ends in an
  update goes through `save` and then `release`, as `run...` does. `mark` and `last` are
  the first and the last call of the downloader's progress callback, around `stream`:
  which of them makes the job visible as local_downloading depends on whether the
  length was announced.
- `req[j]` is where `enqueueSubmission` is for job `j`; `dreq`, `djob`, `drow` are
  the delete requests, between the read and the write of `markRemovePending`.
- `tasks[j]` counts the remote tasks created for a job: TorBox's side of the
  create call.
- `mode` is `up`, `down` or `recovering` (in `reconcileStartup`). `Crash` stands
  for a kill as well as for a shutdown, after which the cancelled context makes
  every later statement fail.
- `Projection` maps a row and its parts to the qBittorrent state, the SAB queue or
  history slot, the content path and whether anything is left to download, and
  reads each list as its client does: coming, done, failed or gone.

A failing statement or file operation is a `Fault`; a transient answer (429, 5xx,
timeout, task not there yet, download broken off) is a `Hiccup`. Both are
nondeterministic and bounded.

Left out: `ensurePathWithinRoot`'s failures (paths are generated inside the roots;
with them `failUnsafeRemoval`, which needs roots that changed between two starts),
partial success of one `RemoveAll`, byte counts and checkpoints, the text of errors,
`job_events` except where its insert can fail.

### RangeDownload and the code

A byte `<< v, i >>` is the `i`-th of the `v`-th file behind the link, so that the part
file shows where its bytes come from. `row` is the part's row, `part` the copy in
`processDownloadJob`, `at` the place in `Download`. A request resumes where the file
ends and has no `If-Range`; the answer is 200 (the file is truncated), 206 (it is
continued) or 416 (taken for the end), announces its length or not, and may break
off. `Receive` is one buffer, with the checkpoint that may or may not be due. The row
starts with any of `Sizes` as its length, which a fresh link may fill in later
(`Refreshed`).
`Replace` lets TorBox put another file behind the link. `SharedPath` is the state in
which two files of a task have one relative path, so that another part's bytes are
there before the first request.

### RemoteTracking and the code

`task` is TorBox's side: nowhere, in the queue, between the lists, active; running,
finished, ready or failed. It moves between any two calls. `shape` says which fields
TorBox's answers have; it is fixed for a behaviour and free between behaviours.
`copy` is the poller's copy of the row `job`, `pc` the call it is about to make. The
identifiers are those of the task in the queue (`q`), once active (`t`), of another
task of the account (`o`), and the hashes and auth ids. `CreateData` is the create
call's answer: nothing, an object, or a bare id, which `parseCreateTask` takes for the
id of an active task. Any call may be refused for good (`Answers`, `CreateRefused`); the variable
`refused` is history, and the code has nothing like it. `RateLimit` models the
channel of `TokenBucket` with its line of receivers: a tick hands its token to the
first in line, or to the bucket unless it is full. `window` and `passed` exist only
for `RateBound`.

### Sessions and the code

Times are ticks, a second is `Power[Places]` of them (`Base` to the
`Places`). `formatTime` drops trailing
zeros like `RFC3339Nano` and `Before` is SQLite's order on texts. `Valid` parses and
compares times, `PruneExpiredQBitSessions` compares texts.

## Properties

Pipeline:

- `SingleOwner`: no two workers can act on copies of the same job.
- `ClaimsBacked`: a claim in the table has a worker that will release it.
- `StrandedBound`: claims without such a worker are one batch of one worker
  at most for each statement that has failed.
- `PipelineOwner`: whenever deletes come, no two of submitter, poller, downloader and
  finalizer hold a job.
- `PartsOnDisk`, `CompletedOnDisk`, `CompletedWhole`: a part the table calls
  completed is there, whole; a completed job has all its parts; and they are all
  the files of the remote task. `WholeUnlessBroken` is the last of these as long as
  there was no crash and no failed statement.
- `NoLeftovers`: nothing of a removed job stays on disk.
- `RemoteTaskBound`: no second remote task without a crash, a lost answer or a
  failed statement.
- `DeleteSticks`: a recorded delete is not undone. It holds for jobs that have ended.
  `DeleteKept` is what holds of every delete: a recorded one is undone only by a worker
  of the pipeline, or a submit handler, that had the job at hand (`InOtherHands`)
  and writes the row it knows; not by the remover, startup, the pruner, another
  delete or a worker that comes later.
- `ImplementsLifecycle`: the states the table shows move along the edges of
  `JobLifecycle`. The abstract specification also says that a job enters an active
  state only while no other job of its key is in one.
- `ShownDone`, `EndSticks`: what a client is shown as done can be imported from the
  path it is shown; a download that a client has seen end does not come back.
- `JobSettles`, `RemovalCompletes`, `AcceptedAdvances`, `VerifySettles`: progress. A
  recorded delete is carried out if nobody who could undo it has the job at hand.

RangeDownload: `CountedBytes` (a part recorded as completed has as many bytes on disk
as its row counts, and at least its length), `OneFile` (while there is one file
behind the link the part file begins as it does), `ImplementsPartFile`, and
`PartCompletes` under fairness.

RemoteTracking: `RightTask` (the job never follows another task, and goes on to the
download only when its own is ready), `NotGivenUp` (it is failed only if its task has
failed or TorBox refused a call for good), `RateBound` (tokens handed out in a refill
period), `Tracked` (an active task is found, unless a call is refused before that),
`ServedInTurn` (no caller waits for ever).

Sessions: `LetIn` and `Swept` (who is let in, what the pruner leaves, to the second),
`TextOrder` (between seconds the order of texts is the order of times).

## Runs

`Deletes` are delete requests, each of which happens at most once; `DeleteWhen`
says in which states of the job clients send them. `SettledStates` are completed,
remote_failed and failed: what Sonarr and Radarr do when they have imported a
download or given up on it. `CHECK_DEADLOCK FALSE` everywhere: when nothing is due
and every bound is used up the program rests.

| run | instance | result |
|---|---|---|
| Core | 1 job, 2 files, 2 deletes of settled jobs, 1 crash, 1 hiccup, 1 fault | safety, life cycle and projections hold |
| Batch | 2 jobs in one batch, 1 fault | `SingleOwner`, `StrandedBound` hold |
| Settles | fair, 2 submissions of one key, 2 hiccups, limit of 2 on 5xx answers | `JobSettles`, `ImplementsLifecycle` hold |
| Removal | fair, 1 delete of a job that is accepted, being downloaded or completed, 2 crashes | `RemovalCompletes`, `DeleteKept`, `PipelineOwner`, `ClaimsBacked` hold |
| Range | fair, 1 part, 3 files of lengths 3, 2 and 4, listed sizes 0, 2, 3 and 5, 2 failures, 1 crash | all hold |
| Remote | fair, 2 callers, capacity 2, 1 hiccup, four shapes | all hold |
| Sessions | 2 sessions, seconds of 9 ticks, 20 ticks, ttl 11 | all hold |
| TwoOwners | a delete in any state | `SingleOwner` violated |
| VerifyLoop | fair, 1 crash | `VerifySettles` violated |
| PartialComplete | 2 files, 1 crash | `CompletedWhole` violated |
| NzbLost | fair, usenet downloads known by auth id only | `Tracked` violated |
| AcceptedLost | fair, 1 fault | `AcceptedAdvances` violated |

Why the bounds are enough to be interesting. Two files make registration,
fetching and checking loops with a middle. One job already meets all five workers,
because the danger is between its own workers, handlers and crashes; two jobs are
needed for what is shared, the key and the batch. Each bounded kind of trouble can
strike at any step, and in Core all of them in one behaviour. Two hiccups reach
the limit on consecutive 5xx answers. In Removal the delete may find the job with its
submit handler, with the downloader at any of its steps, or with nobody, before, between
and after two crashes. In Range a shorter and a longer file follow
the first, so that a resume lands inside, at and beyond the end, and the listed size is
none, too small, right and too large. In Remote the two
callers empty a bucket of two and wait; the shapes in `Known` cover torrents and
usenet downloads, queue entries with and without the active id, alone and beside
another task. In Sessions the ttl is longer than a second and its end falls inside
one, and twenty ticks pass two ends of seconds.

What the runs do not show. `SingleOwner`, `DeleteSticks`, `ImplementsLifecycle` and
`NoLeftovers` need `DeleteWhen` to be settled states: TwoOwners shows what a delete of a
job that is being worked on does, and the same cause (a handler writes a row that a
worker has a copy of) breaks the other three. The clients' own deletes do come after
the end, but nothing in the handlers asks for it. What is left of ownership and deletes
then is `PipelineOwner` and `DeleteKept`, checked in Removal; what the remover and
the other worker do to the files is not.

Settles has two submissions but no deletes, and Core two deletes but one job: a delete
of a failed job whose key is active again is rejected by the index (the SABnzbd
handler answers status true all the same), which only the theorems cover.
`ClaimsBacked` needs statements that do not fail: when `GetJobsByIDs` fails after the
claims are committed, they stay until the next restart. `StrandedBound` says how many
that can be: with two jobs in a batch of two Batch shows that they are lost by one
worker only, and by none without a fault; that a batch is no larger than it should be
takes more jobs than TLC can carry here, and is proved.

`JobSettles` begins at submit_pending. The step before it is where a job can get
lost (AcceptedLost), and no passing run claims that it is taken.

`RightTask` holds for the shapes in `Known`: a bare `id`, in a queue entry or as the
whole answer of a create call that only queued the task, would be taken for an active
task (`parse.go:146`, `parse.go:31`). `DistinctIds` states the condition. `NotGivenUp` and
`Tracked` except jobs that had a call refused for good: a status 4xx, a network error
that is no timeout, a body that cannot be read or decoded, an error of the API
(`http_client.go:66-104`), a null list (`parse.go:39`). The first call that ends so
fails the job, whatever its task does (`poll.go:49-54`, `147-151`, `submit.go:132`), and
`refused` records that it happened. What is shown is that nothing else fails a job or
leaves it behind, in particular not a task that is between the lists.

`PartCompletes` excepts a part whose listed size is more than its file has: without a
length in the answer nothing corrects `ContentLength`, 416 leaves it as it is
(`downloader.go:81`), and the part is asked for again for ever.

The violated properties are findings: `PROJECT.json` quotes the line each contradicts.

### Fairness

Pipeline: weak fairness of each worker, of each request handler, of the clock and of
startup: workers are goroutines with tickers of their own (`runLoop`), handlers
are goroutines of the HTTP server, and the compose file restarts the container
(`restart: unless-stopped`). RangeDownload: of the downloader's step, as the worker
comes back to an incomplete part in every round. RemoteTracking: of the poller's
step, of a downloader that has its token going on, and of the refill goroutine. Not
assumed: that clients or TorBox do anything, that the pruner runs, that the link
stays or changes, that the operator shuts down or does not, that failures happen or
stop other than through the named bounds. With `MaxHiccups` finite, `JobSettles`
reads: after finitely many transient answers. It is checked without crashes, since
VerifyLoop shows what one can do.

## Proofs

All theorems hold for any values of the constants that satisfy the assumptions of the
modules: job ids, files and the batch size are positive numbers, bounds are natural
numbers, no file is empty, a bucket has room for a token, poller and downloader are
among its callers, and a shape (`ShapesAssumption`) has none but the fields that are
read and gives every active task one of the ids its source is known by. `Known` is a set
of such shapes, and each of them is `DistinctIds`, which TLC checks
(`KnownShapes`). What a theorem assumes beyond that is in its statement.

| theorem | module | says | assumes |
|---|---|---|---|
| `Typing` | `PipelineProofs` | `[]TypeOK` | – |
| `FewStranded` | `OwnershipProofs` | `[]StrandedBound` | – |
| `ClaimsHaveOwners` | `OwnershipProofs` | `[](faults = 0 => ClaimsBacked)` | – |
| `OneOwner` | `OwnershipProofs` | `[]SingleOwner` | `DeleteWhen \subseteq Ended` |
| `OnePipelineOwner` | `OwnershipProofs` | `[]PipelineOwner` | – |
| `DeletesKept` | `OwnershipProofs` | `DeleteKept` | – |
| `DeletesStick` (corollary) | `OwnershipProofs` | `DeleteSticks` | `DeleteWhen \subseteq Ended` |
| `LifecycleImplemented` | `LifecycleProofs` | `ImplementsLifecycle` | `DeleteWhen \subseteq Ended` |
| `TasksBounded` | `TaskProofs` | `[]RemoteTaskBound` | `DeleteWhen \subseteq Ended` |
| `NothingLeftOver` | `FileProofs` | `[]NoLeftovers` | `DeleteWhen \subseteq Ended` |
| `DonePartsOnDisk` | `FileProofs` | `[]PartsOnDisk` | `DeleteWhen \subseteq Ended` |
| `CompletedPartsOnDisk` | `FileProofs` | `[]CompletedOnDisk` | `DeleteWhen \subseteq Ended` |
| `ShownIsThere` | `FileProofs` | `[]ShownDone` | `DeleteWhen \subseteq Ended` |
| `EndIsLasting` | `FileProofs` | `EndSticks` | `DeleteWhen \subseteq Ended` |
| `CompletedIsWhole` | `FileProofs` | `[]WholeUnlessBroken` | `DeleteWhen \subseteq Ended` |
| `RangeTyping` | `RangeProofs` | `[]TypeOK` | – |
| `Counted` | `RangeProofs` | `[]CountedBytes` | – |
| `OneFileKept` | `RangeProofs` | `[]OneFile` | – |
| `PartFileImplemented` | `RangeProofs` | `ImplementsPartFile` | – |
| `RateKept` | `RemoteProofs` | `[]RateBound` | – |
| `RemoteTyping` | `RemoteProofs` | `[]TypeOK` | – |
| `RightTaskKept` | `RemoteProofs` | `[](DistinctIds(shape) => RightTask)` | – |
| `GivenUpRightly` | `RemoteProofs` | `[]NotGivenUp` | – |
| `SessionTyping` | `SessionProofs` | `[]TypeOK` | – |
| `LetInRight` | `SessionProofs` | `[]LetIn` | – |
| `SweptClean` | `SessionProofs` | `[]Swept` | – |
| `TextOrderRight` | `SessionProofs` | `[]TextOrder` | – |

`Ended` is completed, remote_failed and failed. The assumptions and conditions are
needed: a failed read after a claim leaves the claim in place, a delete of a job that
is being worked on is the subject of TwoOwners, a crash while parts are registered
that of PartialComplete, and what a bare `id` does is said above.

*Types.* `TypeOK` alone is not inductive: `Job(w)` is the least element of a batch
and means nothing if the batch is empty. `TypeInv` adds that a worker that is not
idle has a job (`Busy`), the downloader's inner labels a part (`PartAtHand`) and a
delete request that has read a row its job (`DeleteAtHand`). `FirstElement` is the
one place where well-foundedness of the natural numbers is used.

*Keys.* Every step moves rows out of the active states, or brings one row into them
past the unique index and writes no other (`PastIndex`), so that at most one job of a
key is active (`KeyInv`). That much only repeats the index; it is here because the
submitter's write succeeds for this reason (remote tasks) and the life cycle's
`Holder` rests on it.

*Claims.* `ClaimInv` says that an idle worker has no batch and a missing row no claim
(without the first a claim could overwrite a batch, without the second `GetJobsByIDs`
could drop a job that is still claimed), that a batch is as small as it should be
(`BatchesSmall`), and that few jobs are stranded (`StrandedFew`). A step that claims
nothing for anybody strands nobody (`ClaimFrame`); a fetch that fails strands its
batch, a release that fails its job, and both are counted (`MishapsCounted`). That
`DueBatch` has at most `BatchSize` jobs (`BatchBound`) is a count without induction: the
job of the batch with the most due jobs before it has all others of the batch there.

*Ownership.* `claimed_by` does not carry the argument, since every `UpdateJob` clears
it while its writer goes on. What does is `Owned`: a job a worker holds is in a state
that only this worker's query selects. For this to be inductive the intermediate
writes must stay within the worker's own states (`MidPoll`: what the poller is about
to write is remote_active; the downloader writes local_downloading), the remover
must write nothing but `removed` (`MidRemove`), and what requests in flight have read
must be out of every worker's reach (`Requests`, `DeleteTargets`). `Quiet` and
`Unreconciled` say that startup is alone and looks only at open jobs, so that it does
not bring a removed job back. The lemmas ending in `Works` reduce the steps of the
five workers to one statement, `Working(w)`: a step keeps the batch and writes at
most the row at hand, which it leaves in the worker's own states.

*Deletes at any time.* `Owned` fails when a delete finds the job in a worker's hands.
`HoldInv` is what stays: a job held by a worker of the pipeline is in that worker's
states or deleted (`HeldOrDeleted`), no two of them hold it, and a job whose request is
under way is in nobody's hands and has not left accepted except by a delete
(`Entering`). A worker's query selects no deleted job, so that a delete cannot bring a
second worker of the pipeline in, and a worker moves only rows it holds, out of its
own states only when it lets go of them (`HoldStep`). With `~ InOtherHands(j)` none of these writes is
about `j`, which is `DeletesKept`; that a job that has ended is in nobody's hands
gives the corollary.

*Life cycle.* What is written is a copy, so the edges must hold between copies and
rows. `CopyInv` says how far a copy may be from its row: the copies that wait in a
batch are in their row's state (`Waiting`), the one at hand too, except that it is
one edge ahead when it is about to be saved (`Follows`, by label). `Named` adds that a
row or copy names a completed path only when its job is completed or on its way out,
so that startup, which promotes whatever names a path that exists, promotes nothing
along an edge that is not there. The lemmas ending in `KeepsUp` show this worker by
worker. That an active state is entered only when no other job of the key holds one
(`Holder`) follows from `PastIndex`.

*Remote tasks.* `TaskInv`: a job that has still to be submitted, by its row and with no
answer in hand (`Unsubmitted`), has no more tasks than there has been trouble, and
any other at most one more. A job gets back to being unsubmitted only through a crash
or a failed write, which are counted, because the submitter's write is never
rejected: its job is in the table (`Owned`) and the only active one of its key
(`KeyInv`). No other worker, handler or startup step writes one of the submitter's
states.

*Files.* None of the three is inductive, because what is written is again a copy, and
because an operation on the disk and the write that records it are two steps.
`FileInv` says that every row that may yet be written fits the disk: those in the
table (`RowsFit`), the copies the workers hold (`CopiesFit`) and what delete requests
have read (`DeletesFit`). A row fits (`Fits`) when it names every path that exists, and
its state is right about the parts and the files. The exception is the directory that
has been renamed with no row to say so: its job is in one of the states in `Moved`, so
that it can only be sent round between downloader and finalizer, never be failed or
deleted. `Sound` is what holds of the disk whatever the row says. The rest is by label:
the parts the downloader has left are not done and the one at hand has its file
(`AtParts`), the finalizer has found the directory whole (`AtRename`), the remover's
copy names less and less (`AtRemoval`). The lemmas ending in `Files` go worker by
worker; `FileFrame` is where claims matter, since a step changes the files of a held
job only. `ShownIsThere` follows from `FileInv`, `EndIsLasting` from the
edges of the life cycle.

*Whole.* `WholeInv`: while nothing has gone wrong, the parts of a job are registered
all or none, except for the job the downloader is registering. Other workers do not
touch parts until they remove them all, and the downloader leaves the registration
only when nothing is missing. With `FileInv`, that a completed job has parts and each of
them on disk, this is `CompletedWhole`.

*Ranges.* `RangeInv` says where the body is in relation to the file (`Position`), that
a part at work is not completed (`Unfinished`), and that bytes come from files that
have been behind the link (`KnownBytes`), so that none of the next one's is there when
the link is switched. `PartFileImplemented` then goes by action: a 200 restarts, a
byte grows a prefix, and a part whose length is that of the file behind the link is
recorded only if it is whole, or stale.

*Rate.* `RateInv`: who waits, waits for an empty bucket, and what a period has handed
out and what is left in the bucket came from a full bucket and the ticks since.

*Remote tracking.* The first half is what the parse functions can take out of an item:
`firstString` returns the first of the names that the item has (`FirstStringIs`), so an
item of the task yields the task's ids (`ActiveItemSays`, `QueueItemSays`), another
task's item only that task's (`OtherItemSays`), and a lookup by ids of this task finds
this task or nothing (`FindsOwn`). The second half is `RemoteInv`: row and copy hold
ids of this task alone (`OwnIds`, which is stronger than `TypeOK`), the copy is the row
while a lookup is under way, and the row is true of the task (`Fits`). A row that
is remote_failed has a task that failed or a call that was refused, since nothing
takes either back.

*Sessions.* Two times have different texts because the digits of a number determine it
(`SameDigits`), and a zero is dropped only if none but zeros follow (`WrittenPlaces`).
Both, and that the recursive `Power` is a function at all (`PowersExist`,
`PowersAgree`), are inductions over numbers; since the prover cannot instantiate the
library's induction rules, each is the choice of a least counterexample
(`LeastElement`). The order of texts between seconds follows from the part that does
not vary in length. `Entry` then says of each session what login, logout, pruner and
clock can have made of it.

Out of the prover's reach, and so with TLC alone: the liveness properties (fairness
and `ENABLED`), which are `JobSettles`, `RemovalCompletes`, `AcceptedAdvances`,
`VerifySettles`, `PartCompletes`, `Tracked` and `ServedInTurn`. Every invariant and every
action property that a passing run checks is also the subject of a theorem, under the
conditions in the table.

## Not modelled

Configuration (read once), routing, request parsing and fingerprints, categories and
the config store, credentials and API keys, names, sizes and rates in listings,
logging, deployment, the mock client; random ids and hashes, which are taken to be
distinct; `MultiLimiter` and `ListJobsDue`, which nobody calls; `TokenBucket.Stop`,
which comes after the context is done; `failUnsafeRemoval`.

## What is left

- The payload of a submission that loses the race for its key (`router.go:168`) stays
  on disk without a row; no property is about it.
- Two parts of one job that have one relative path. `SharedPath` covers the second
  of them, which finds the bytes of the first; that the second may truncate a file
  the first has recorded as completed is outside `RangeDownload`'s one part.
- Time between seconds in the jobs table (`next_run_at`) is three values in
  `Pipeline`; its text order is checked in `Sessions` only.
