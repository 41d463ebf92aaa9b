---------------------------- MODULE RangeDownload ----------------------------
(***************************************************************************)
(* RangeDownloader.Download (internal/files/downloader.go) with the        *)
(* progress callback and the completion test of processDownloadJob         *)
(* (internal/worker/download.go), for one part and down to its bytes.      *)
(*                                                                         *)
(* A byte << v, i >> is the i-th of the v-th file.  A request resumes      *)
(* where the part file ends, whatever the row says, and carries no         *)
(* If-Range; the answer is 200, 206 or 416, and its body may break off.    *)
(* Another error, or a statement that fails, is a Failure too.             *)
(***************************************************************************)
EXTENDS Integers, Sequences, SequencesExt

CONSTANTS
    Length,         \* the length of each file the link may lead to in turn
    Sizes,          \* what TorBox may list as a file's size, 0 if nothing
    MaxFailures,    \* bound: failed requests, broken bodies, failed statements
    MaxCrashes      \* bound: how often the process dies

ASSUME RangeAssumption ==
    /\ Length \in Seq(Nat \ {0}) /\ Len(Length) >= 2
    /\ Sizes \subseteq Nat
    /\ MaxFailures \in Nat /\ MaxCrashes \in Nat

VARIABLES
    link,       \* which file is behind the link now
    file,       \* the part file
    row,        \* the part's row: ContentLength, BytesDone, Completed
    part,       \* the downloader's copy of it
    at,         \* where the downloader is
    served,     \* the file the answer at hand is about
    total,      \* the length it announces, 0 if none
    current,    \* how far into that file the body is
    failures, crashes

vars ==
    << link, file, row, part, at, served, total, current, failures, crashes >>

Versions == 1..Len(Length)

Bytes(v) == [i \in 1..Length[v] |-> << v, i >>]

Row == [length : Nat, done : Nat, completed : BOOLEAN]

(* Paths of different files of a task may be the same (extractRemoteFiles  *)
(* takes short_name where there is no path): then the other file's bytes   *)
(* are where this part's are to go.                                        *)
OwnPath == link = 1 /\ file = << >>

SharedPath == link = 2 /\ file = Bytes(1)

(* The part is registered with asset.Size, right or wrong.                 *)
Init ==
    /\ OwnPath \/ SharedPath
    /\ \E size \in Sizes :
          row = [length |-> size, done |-> 0, completed |-> FALSE]
    /\ part = row
    /\ at = "idle"
    /\ served = link /\ total = 0 /\ current = 0
    /\ failures = 0 /\ crashes = 0

bounds == << failures, crashes >>

answer == << served, total, current >>

(***************************************************************************)
(* The loop of processDownloadJob comes to a part that is not completed.   *)
(* What the stat of the part file found is kept in part only as far as the *)
(* request goes: nothing else writes the file.                             *)
(***************************************************************************)
Request ==
    /\ at = "idle"
    /\ ~ row.completed
    /\ part' = row
    /\ at' = "request"
    /\ UNCHANGED << link, file, row, answer, bounds >>

(* TorBox or its CDN puts another file behind the link.                    *)
Replace ==
    /\ link < Len(Length)
    /\ link' = link + 1
    /\ UNCHANGED << file, row, part, at, answer, bounds >>

(***************************************************************************)
(* The answer.  contentLength: the total of Content-Range, or the offset   *)
(* plus Content-Length, or 0.                                              *)
(***************************************************************************)
(* Variant: an unknown Content-Length, which Go has as -1, is added.       *)
AnnouncedUnchecked(p, n) ==
    [p EXCEPT !.length = IF n > 0 THEN n ELSE Len(file) - 1]

Announced(p, n) == IF n > 0 THEN [p EXCEPT !.length = n] ELSE p

Open(content, from) ==
    /\ at = "request"
    /\ file' = content
    /\ served' = link
    /\ total' \in { 0, Length[link] }
    /\ current' = from
    /\ part' = Announced(part, total')
    /\ at' = "opened"
    /\ UNCHANGED << link, row, bounds >>

(* 200: no Range was sent, or the server ignores it.                       *)
(* Variant: the body is appended to what is there.                         *)
NotTruncated == Open(file, 0)

AnswerWhole == Open(<< >>, 0)

(* 206                                                                     *)
AnswerRest ==
    /\ Len(file) \in 1 .. Length[link] - 1
    /\ Open(file, Len(file))

(* Download's last assignments.                                            *)
AtEnd(p, n) == [p EXCEPT !.done = n, !.length = IF @ = 0 THEN n ELSE @]

(* 416: taken for the end of the file.                                     *)
AnswerBeyondEnd ==
    /\ at = "request"
    /\ file # << >>
    /\ Len(file) >= Length[link]
    /\ part' = AtEnd(part, Len(file))
    /\ row' = part'
    /\ at' = "record"
    /\ UNCHANGED << link, file, answer, bounds >>

(* The first progress callback always stores the part.                     *)
FirstProgress ==
    /\ at = "opened"
    /\ part' = [part EXCEPT !.done = current]
    /\ row' = part'
    /\ at' = "body"
    /\ UNCHANGED << link, file, answer, bounds >>

(* shouldCheckpointProgress: at the end, and when the last one is old.     *)
Checkpoint(p) ==
    row' \in IF p.done >= p.length THEN {p} ELSE { row, p }

(* A buffer is written; BytesDone is stored now and then.                  *)
Receive ==
    /\ at = "body"
    /\ current < Length[served]
    /\ current' = current + 1
    /\ file' = Append(file, << served, current' >>)
    /\ part' = [part EXCEPT !.done = current']
    /\ row' \in { row, part' }
    /\ UNCHANGED << link, at, served, total, bounds >>

(* io.EOF.  If no length was announced, a connection that is closed too    *)
(* early looks the same.                                                   *)
BodyEnds ==
    /\ at = "body"
    /\ current >= Length[served]
    /\ part' = AtEnd(part, current)
    /\ Checkpoint(part')
    /\ at' = "record"
    /\ UNCHANGED << link, file, answer, bounds >>

BodyCut ==
    /\ at = "body"
    /\ total = 0
    /\ current < Length[served]
    /\ failures < MaxFailures
    /\ failures' = failures + 1
    /\ part' = AtEnd(part, current)
    /\ Checkpoint(part')
    /\ at' = "record"
    /\ UNCHANGED << link, file, answer, crashes >>

(***************************************************************************)
(* Completed, and UpsertTransferPart.                                      *)
(***************************************************************************)
(* Variant: what was downloaded is complete.                               *)
CompletedAnyway(p) == [p EXCEPT !.completed = TRUE]

(* Variant: the length the body was announced with is not looked at.       *)
CompletedByCount(p) == [p EXCEPT !.completed = p.done > 0]

(* Variant: `more than' for `at least'.                                    *)
CompletedBeyond(p) == [p EXCEPT !.completed = p.done > p.length]

Completed(p) ==
    [p EXCEPT !.completed = p.length = 0 \/ p.done >= p.length]

Record ==
    /\ at = "record"
    /\ row' = Completed(part)
    /\ at' = "idle"
    /\ UNCHANGED << link, file, part, answer, bounds >>

(* refreshDownloadPartSourceURL, after a status 404 or 5xx: a length that  *)
(* is not known may come with the new link.                                *)
Refreshed(p) ==
    { p } \cup (IF at = "request" /\ p.length = 0
                THEN { [p EXCEPT !.length = size] : size \in Sizes } ELSE {})

(* Download returns an error; the error path stores the part as it is and  *)
(* carries on if that fails.  Or the statement of Record fails.            *)
Failure ==
    /\ at # "idle"
    /\ failures < MaxFailures
    /\ failures' = failures + 1
    /\ part' \in Refreshed(part)
    /\ row' \in { row, part' }
    /\ at' = "idle"
    /\ UNCHANGED << link, file, answer, crashes >>

Crash ==
    /\ at # "idle"
    /\ crashes < MaxCrashes
    /\ crashes' = crashes + 1
    /\ at' = "idle"
    /\ UNCHANGED << link, file, row, part, answer, failures >>

Step ==
    \/ Request \/ AnswerWhole \/ AnswerRest \/ AnswerBeyondEnd
    \/ FirstProgress \/ Receive \/ BodyEnds \/ BodyCut \/ Record \/ Failure

Next == Step \/ Replace \/ Crash

Spec == Init /\ [][Next]_vars

(* The downloader comes back to the part in its next rounds.               *)
FairSpec == Spec /\ WF_vars(Step)

-----------------------------------------------------------------------------
(***************************************************************************)
(* Properties                                                              *)
(***************************************************************************)

(* Where the downloader is, what it has in hand and what is stored.        *)
TypeOK ==
    /\ link \in Versions /\ served \in 1..link
    /\ file \in Seq(Versions \X Nat)
    /\ row \in Row /\ part \in Row
    /\ at \in { "idle", "request", "opened", "body", "record" }
    /\ total \in Nat /\ current \in Nat
    /\ failures \in 0..MaxFailures /\ crashes \in 0..MaxCrashes

(* A part recorded as completed has exactly as many bytes on disk as its   *)
(* row counts, and at least as many as its length, whatever was truncated, *)
(* resumed, answered with 416 or lost in a crash on the way.               *)
CountedBytes ==
    row.completed => row.done = Len(file) /\ row.done >= row.length

(* While the link has led to one file only, the part file is a prefix of   *)
(* it: a 206 continues it and a 200 starts again (downloader.go, the two   *)
(* OpenFile calls).                                                        *)
OneFile == link = 1 => IsPrefix(file, Bytes(1))

(* The promise of PartFile.                                                *)
Length0 == IF at = "idle" THEN row.length ELSE part.length

IsCut(s, v) == s # << >> /\ IsStrictPrefix(s, Bytes(v))

Content ==
    CASE file = << >>            -> "empty"
      [] file = Bytes(link)      -> "whole"
      [] IsCut(file, link)       -> "prefix"
      [] OTHER                   -> "stale"

PF == INSTANCE PartFile
      WITH content <- Content, sized <- Length0 = Length[link],
           switched <- link > 1, recorded <- row.completed

(* Each step of a download is one PartFile allows: a part is recorded only *)
(* if the file is whole, or the link has led elsewhere, or nobody has      *)
(* announced the length.                                                   *)
ImplementsPartFile == PF!Spec

(* As long as the link leads to one file the part is completed, after      *)
(* finitely many failures; 416 after a crash between the last byte and the *)
(* row is what ends the resume.  Not if TorBox lists more than the file    *)
(* has: 416 then leaves the length as it is (downloader.go), and the part  *)
(* short of it for ever.                                                   *)
PartCompletes ==
    <>(row.completed \/ link > 1 \/ row.length > Length[link])
=============================================================================
