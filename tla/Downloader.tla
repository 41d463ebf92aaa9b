----------------------------- MODULE Downloader -----------------------------
(***************************************************************************)
(* internal/worker/download.go, with the parts of RangeDownloader.Download *)
(* that touch files.  The loop goes over its own list of parts, `left'.    *)
(*                                                                         *)
(* Byte counts are left out: a file is partial or full, and whether a      *)
(* response announces a length (which decides when the row is first shown  *)
(* as local_downloading) is a choice.  safeRelativePath yields no path     *)
(* that leaves the staging directory, so ensurePathWithinRoot holds.       *)
(***************************************************************************)
EXTENDS WorkerLoop

Downloading(label) == Up("downloader", label)

DlJob == Job("downloader")

DlCopy == Copy("downloader")

DownloaderFrame == UNCHANGED << tasks, outside, todo >>

TryAgain(row) == [Later(row) EXCEPT !.state = "local_downloading"]

(* The exits of processDownloadJob that write the row ...                  *)
Leave(row) ==
    /\ WriteBack("downloader", row)
    /\ UNCHANGED << jobs, parts, disk, left, faults >>
    /\ DownloaderFrame

(* ... and the ones that return an error.                                  *)
Abandon ==
    /\ GiveUp("downloader")
    /\ UNCHANGED << jobs, parts, left, hiccups >>
    /\ DownloaderFrame

(***************************************************************************)
(* MkdirAll(staging), ListTransferParts.                                   *)
(***************************************************************************)
Incomplete(j) == { a \in Assets : parts[j][a] = "registered" }

Prepare ==
    /\ Downloading("work")
    /\ disk' = [disk EXCEPT ![DlJob].staging = TRUE]
    /\ SetCopy("downloader", [DlCopy EXCEPT !.staging = TRUE])
    /\ Goto("downloader", IF Registered(DlJob) = {} THEN "links" ELSE "loop")
    /\ left' = Incomplete(DlJob)
    /\ UNCHANGED << jobs, parts, hiccups, faults >>
    /\ DownloaderFrame

PrepareFails ==
    /\ Downloading("work")
    /\ Fault
    /\ \/ UNCHANGED disk
       \/ disk' = [disk EXCEPT ![DlJob].staging = TRUE]
    /\ Abandon

(***************************************************************************)
(* GetDownloadLinks, and one UpsertTransferPart per asset: not one         *)
(* transaction.  An upsert for a row that is gone violates a foreign key.  *)
(***************************************************************************)
LinksError == Downloading("links") /\ Hiccup /\ Leave(TryAgain(DlCopy))

NoAssets ==
    /\ Downloading("links")
    /\ Leave([DlCopy EXCEPT !.state = "failed"])
    /\ UNCHANGED hiccups

GetDownloadLinks ==
    /\ Downloading("links")
    /\ Goto("downloader", "register")
    /\ UNCHANGED << jobs, parts, disk, snap, left, hiccups, faults >>
    /\ DownloaderFrame

(* Variant: the loop over the assets stops one short.                      *)
UnregisteredButLast(j) ==
    { a \in Assets \ Registered(j) : \E b \in Assets : a < b }

Unregistered(j) == Assets \ Registered(j)

Register ==
    LET a == First(Unregistered(DlJob))
    IN  /\ Downloading("register")
        /\ Unregistered(DlJob) # {}
        /\ Exists(jobs, DlJob)
        /\ parts' = [parts EXCEPT ![DlJob][a] = "registered"]
        /\ UNCHANGED << jobs, disk, pc, snap, left, hiccups, faults >>
        /\ DownloaderFrame

RegisterDone ==
    /\ Downloading("register")
    /\ Unregistered(DlJob) = {}
    /\ left' = Incomplete(DlJob)
    /\ Goto("downloader", "loop")
    /\ UNCHANGED << jobs, parts, disk, snap, hiccups, faults >>
    /\ DownloaderFrame

RegisterRejected ==
    /\ Downloading("register")
    /\ ~ Exists(jobs, DlJob)
    /\ UNCHANGED << disk, faults >>
    /\ Abandon

RegisterFails ==
    /\ Downloading("register")
    /\ Fault
    /\ UNCHANGED disk
    /\ Abandon

(***************************************************************************)
(* The loop over the parts.  One round: request the part, first progress   *)
(* callback, stream, last progress callback, record the part.  Either      *)
(* callback may write the row.                                             *)
(***************************************************************************)
Part == First(left)

Fetching == Downloading("loop") /\ left # {}

(* The part file is opened and its directory is made, whatever came of the *)
(* staging directory meanwhile.  A longer file than the row knows of       *)
(* clears the count of 5xx answers (reset5xxCount).                        *)
Opened(d, a) == [d EXCEPT !.staging = TRUE, !.file[a] = "partial"]

RequestOk ==
    /\ Fetching
    /\ disk' = [disk EXCEPT ![DlJob] = Opened(@, Part)]
    /\ \E r \in IF disk[DlJob].file[Part] = "absent"
                THEN {DlCopy.retry} ELSE {DlCopy.retry, 0} :
          SetCopy("downloader", [DlCopy EXCEPT !.retry = r])
    /\ Goto("downloader", "mark")
    /\ UNCHANGED << jobs, parts, left, hiccups, faults >>
    /\ DownloaderFrame

(* 416: there is nothing after the bytes the file already has.  Of a       *)
(* partial file the server may say so, too; then it is all there is if     *)
(* the part's row knows no length.                                         *)
(* Variant: the last buffer is not written out.                            *)
FilledInMemory(d, a) == d

Filled(d, a) ==
    IF d.file[a] = "partial" THEN [d EXCEPT !.file[a] = "full"] ELSE d

RequestBeyondEnd ==
    /\ Fetching
    /\ \/ disk[DlJob].file[Part] = "full" /\ UNCHANGED << disk, hiccups >>
       \/ /\ disk[DlJob].file[Part] = "partial"
          /\ Hiccup
          /\ disk' \in { disk, [disk EXCEPT ![DlJob] = Filled(@, Part)] }
    /\ Goto("downloader", "last")
    /\ UNCHANGED << jobs, parts, snap, left, faults >>
    /\ DownloaderFrame

Request404 ==
    /\ Fetching
    /\ \/ /\ UNCHANGED hiccups                        \* no fresh link
          /\ Leave([DlCopy EXCEPT !.retry = 0, !.run = "nil",
                                  !.state = "failed"])
       \/ /\ Hiccup                                   \* link refreshed
          /\ Leave(TryAgain([DlCopy EXCEPT !.retry = 0]))

Request5xx ==
    LET row == [DlCopy EXCEPT !.retry = @ + 1]
    IN  /\ Fetching
        /\ Hiccup
        /\ IF row.retry >= max5xxRetries
           THEN Leave([row EXCEPT !.run = "nil", !.state = "failed"])
           ELSE Leave(TryAgain(row))

(* Any other status, or no answer at all.                                  *)
RequestError ==
    /\ Fetching
    /\ Hiccup
    /\ Leave(TryAgain([DlCopy EXCEPT !.retry = 0]))

(* The first and the last progress callback.  visibleLocalDownload is      *)
(* false until a callback has been given a length: the announced one in    *)
(* the first, or else what was downloaded in the last.  Written or not,    *)
(* the part's progress is, which fails when the row is gone.               *)
Marking == Downloading("mark") \/ Downloading("last")

AfterMark == IF pc["downloader"] = "mark" THEN "stream" ELSE "commit"

Marked(row) == TryAgain(row)

MarkSkipped ==
    /\ Marking
    /\ Exists(jobs, DlJob)
    /\ Goto("downloader", AfterMark)
    /\ UNCHANGED << jobs, parts, disk, snap, left, hiccups, faults >>
    /\ DownloaderFrame

Mark ==
    /\ Marking
    /\ CanUpdate(jobs, DlJob, Marked(DlCopy))
    /\ jobs' = UpdateJob(jobs, DlJob, Marked(DlCopy))
    /\ SetCopy("downloader", Marked(DlCopy))
    /\ Goto("downloader", AfterMark)
    /\ UNCHANGED << parts, disk, left, hiccups, faults >>
    /\ DownloaderFrame

(* The callback's error ends the download like any other.                  *)
MarkError ==
    /\ WriteBack("downloader", [Marked(DlCopy) EXCEPT !.retry = 0])
    /\ UNCHANGED << parts, disk, left, hiccups >>
    /\ DownloaderFrame

MarkRejected ==
    /\ Marking
    /\ ~ CanUpdate(jobs, DlJob, Marked(DlCopy))
    /\ MarkError
    /\ UNCHANGED << jobs, faults >>

(* The row, or only the event that goes with it, is not written.           *)
MarkFails ==
    /\ Marking
    /\ MarkError
    /\ Fault
    /\ \/ UNCHANGED jobs
       \/ jobs' = UpdateJob(jobs, DlJob, Marked(DlCopy))

(* The body ends.  A file that was removed meanwhile stays removed; its    *)
(* bytes are counted all the same.                                         *)
StreamEnd ==
    /\ Downloading("stream")
    /\ disk' = [disk EXCEPT ![DlJob] = Filled(@, Part)]
    /\ Goto("downloader", "last")
    /\ UNCHANGED << jobs, parts, snap, left, hiccups, faults >>
    /\ DownloaderFrame

(* It ends before the length the row has, and without an error.            *)
StreamShort ==
    /\ Downloading("stream")
    /\ disk[DlJob].file[Part] # "full"
    /\ Hiccup
    /\ Goto("downloader", "last")
    /\ UNCHANGED << jobs, parts, disk, snap, left, faults >>
    /\ DownloaderFrame

StreamBroken ==
    /\ Downloading("stream")
    /\ disk[DlJob].file[Part] # "full"
    /\ Hiccup
    /\ Leave(TryAgain([DlCopy EXCEPT !.retry = 0]))

(* Download has returned.  part.Completed, and UpsertTransferPart: a part  *)
(* whose file has the bytes is done; one that fell short is left for the   *)
(* next round.  What was counted of a removed file may be either.          *)
Recorded(completed) ==
    /\ Exists(jobs, DlJob)
    /\ parts' = IF completed THEN [parts EXCEPT ![DlJob][Part] = "done"]
                             ELSE parts
    /\ SetCopy("downloader", [DlCopy EXCEPT !.retry = 0])
    /\ left' = left \ {Part}
    /\ Goto("downloader", "loop")
    /\ UNCHANGED << jobs, disk, hiccups, faults >>
    /\ DownloaderFrame

(* Variant: the length of the row is not looked at.                        *)
CommitAnyway == Downloading("commit") /\ Recorded(TRUE)

Commit ==
    /\ Downloading("commit")
    /\ disk[DlJob].file[Part] # "partial"
    /\ Recorded(TRUE)

CommitShort ==
    /\ Downloading("commit")
    /\ disk[DlJob].file[Part] # "full"
    /\ Recorded(FALSE)

CommitRejected ==
    /\ Downloading("commit")
    /\ ~ Exists(jobs, DlJob)
    /\ UNCHANGED << disk, faults >>
    /\ Abandon

CommitFails ==
    /\ Downloading("commit")
    /\ Fault
    /\ UNCHANGED disk
    /\ Abandon

(* After the loop.                                                         *)
Finish ==
    /\ Downloading("loop")
    /\ left = {}
    /\ Leave(IF allPartsCompleted(DlJob)
             THEN [DlCopy EXCEPT !.run = "due", !.state = "local_verify"]
             ELSE TryAgain(DlCopy))
    /\ UNCHANGED hiccups

FinishFails ==
    /\ Downloading("loop")
    /\ left = {}
    /\ Fault
    /\ UNCHANGED disk
    /\ Abandon

DownloaderStep ==
    \/ Prepare \/ LinksError \/ NoAssets \/ GetDownloadLinks
    \/ Register \/ RegisterDone \/ RegisterRejected
    \/ RequestOk \/ RequestBeyondEnd \/ Request404 \/ Request5xx
    \/ RequestError \/ MarkSkipped \/ Mark \/ MarkRejected
    \/ StreamEnd \/ StreamShort \/ StreamBroken
    \/ Commit \/ CommitShort \/ CommitRejected \/ Finish

DownloaderFault ==
    \/ PrepareFails \/ RegisterFails \/ MarkFails \/ CommitFails
    \/ FinishFails
=============================================================================
