----------------------------- MODULE RangeProofs -----------------------------
(***************************************************************************)
(* The invariants of RangeDownload, and that it implements PartFile, for   *)
(* files of any lengths, replaced any number of times, with any number of  *)
(* failures and crashes.                                                   *)
(***************************************************************************)
EXTENDS RangeDownload, TLAPS

(* While the downloader is at work the part is not completed, in the row   *)
(* or in its copy.                                                         *)
Unfinished == at # "idle" => ~ row.completed /\ ~ part.completed

(* The body is where the part file ends, and what is recorded is counted.  *)
Position ==
    /\ at \in { "opened", "body" } => current = Len(file)
    /\ at = "record" => part.done = Len(file)

(* Bytes come from files that were behind the link.                        *)
KnownBytes == \A i \in 1..Len(file) : file[i][1] <= link

(* Are the bytes there are those of file v?                                *)
Begins(s, v) ==
    Len(s) <= Length[v] /\ \A i \in 1..Len(s) : s[i] = << v, i >>

OnlyFile == link = 1 => Begins(file, 1)

RangeInv ==
    /\ TypeOK /\ Unfinished /\ Position /\ CountedBytes
    /\ KnownBytes /\ OnlyFile

(***************************************************************************)
(* Prefixes, byte by byte.                                                 *)
(***************************************************************************)
(* No file is empty.                                                       *)
LEMMA Lengths ==
    ASSUME NEW v \in Versions
    PROVE  Length[v] \in Nat \ {0}
    BY RangeAssumption DEF Versions

(* The bytes of a file are a sequence of its length.                       *)
LEMMA BytesSeq ==
    ASSUME NEW v \in Versions
    PROVE  /\ Bytes(v) \in Seq(Versions \X Nat)
           /\ Len(Bytes(v)) = Length[v]
           /\ \A i \in 1..Length[v] : Bytes(v)[i] = << v, i >>
<1>1. Length[v] \in Nat /\ Versions \subseteq Nat
    BY Lengths, RangeAssumption DEF Versions
<1>2. QED
    BY <1>1 DEF Bytes

(* The prefix order of the community modules, byte by byte.                *)
LEMMA PrefixBytes ==
    ASSUME NEW v \in Versions, NEW s \in Seq(Versions \X Nat)
    PROVE  IsPrefix(s, Bytes(v)) <=> Begins(s, v)
<1>1. Len(s) \in Nat /\ Length[v] \in Nat
    BY Lengths
<1>2. SubSeq(s, 1, Len(s)) = s
    OBVIOUS
<1>3. ASSUME Len(s) <= Length[v]
      PROVE  SubSeq(Bytes(v), 1, Len(s)) = [i \in 1..Len(s) |-> << v, i >>]
    <2> DEFINE b == Bytes(v)
               n == Len(s)
    <2>1. /\ b \in Seq(Versions \X Nat) /\ Len(b) = Length[v]
          /\ \A i \in 1..Length[v] : b[i] = << v, i >>
        BY BytesSeq
    <2>2. n \in Nat /\ n <= Len(b)
        BY <1>1, <1>3, <2>1
    <2> HIDE DEF b, n
    <2>3. SubSeq(b, 1, n) = [i \in 1..n |-> b[i]]
        BY <2>1, <2>2
    <2>4. \A i \in 1..n : b[i] = << v, i >>
        BY <1>1, <2>1, <2>2
    <2> QED
        BY <2>3, <2>4 DEF b, n
<1>4. s = [i \in 1..Len(s) |-> << v, i >>]
      <=> \A i \in 1..Len(s) : s[i] = << v, i >>
    OBVIOUS
<1>5. QED
    BY <1>2, <1>3, <1>4, BytesSeq DEF IsPrefix, Begins

(* A beginning as long as the file is the file.                            *)
LEMMA WholeBytes ==
    ASSUME NEW v \in Versions, NEW s \in Seq(Versions \X Nat)
    PROVE  s = Bytes(v) <=> Begins(s, v) /\ Len(s) = Length[v]
<1>1. Length[v] \in Nat /\ Len(s) \in Nat
    BY Lengths
<1>2. s = Bytes(v) => Begins(s, v) /\ Len(s) = Length[v]
    BY <1>1, BytesSeq DEF Begins
<1>3. ASSUME Begins(s, v), Len(s) = Length[v]
      PROVE  s = Bytes(v)
    <2>1. s = [i \in 1..Len(s) |-> << v, i >>]
        BY <1>3 DEF Begins
    <2>2. QED
        BY <2>1, <1>3 DEF Bytes
<1>4. QED
    BY <1>2, <1>3

(***************************************************************************)
(* The invariant.                                                          *)
(***************************************************************************)
(* There are two files at least.                                           *)
LEMMA Constants ==
    /\ Versions \subseteq Nat /\ 1 \in Versions /\ 2 \in Versions
    /\ MaxFailures \in Nat /\ MaxCrashes \in Nat /\ Sizes \subseteq Nat
    BY RangeAssumption DEF Versions

(* An empty file, or another part's file behind the same path.             *)
LEMMA RangeInit == Init => RangeInv
<1> SUFFICES ASSUME Init
             PROVE  RangeInv
    OBVIOUS
<1>1. file \in Seq(Versions \X Nat) /\ KnownBytes /\ OnlyFile
    <2>1. CASE OwnPath
        <3>1. link = 1 /\ file = << >> /\ Len(file) = 0
            BY <2>1 DEF OwnPath
        <3>2. Length[1] \in Nat
            BY Lengths, Constants
        <3>3. KnownBytes /\ OnlyFile
            BY <3>1, <3>2 DEF KnownBytes, OnlyFile, Begins
        <3>4. file \in Seq(Versions \X Nat)
            BY <2>1 DEF OwnPath
        <3>5. QED
            BY <3>3, <3>4
    <2>2. CASE SharedPath
        <3>1. link = 2 /\ file = Bytes(1)
            BY <2>2 DEF SharedPath
        <3>2. /\ file \in Seq(Versions \X Nat)
              /\ \A i \in 1..Len(file) : file[i] = << 1, i >>
            BY <3>1, BytesSeq, Constants
        <3>3. KnownBytes
            BY <3>1, <3>2 DEF KnownBytes
        <3>4. OnlyFile
            BY <3>1 DEF OnlyFile
        <3>5. QED
            BY <3>2, <3>3, <3>4
    <2>3. QED
        BY <2>1, <2>2 DEF Init
<1>2. link \in Versions /\ Length[link] \in Nat
    BY Lengths, Constants DEF Init, OwnPath, SharedPath
<1>3. row \in Row /\ ~ row.completed
    BY Constants DEF Init, Row
<1>4. TypeOK
    <2>1. link \in 1..link /\ served = link /\ part = row
        BY <1>2 DEF Init, Versions
    <2>2. at = "idle" /\ total = 0 /\ current = 0 /\ failures = 0
          /\ crashes = 0
        BY DEF Init
    <2>3. QED
        BY <1>1, <1>2, <1>3, <2>1, <2>2, Constants DEF TypeOK
<1>5. Unfinished /\ Position /\ CountedBytes
    BY <1>3 DEF Init, Unfinished, Position, CountedBytes
<1>6. QED
    BY <1>1, <1>4, <1>5 DEF RangeInv

(* The answers: the part file stays, or starts again.                      *)
LEMMA OpenKeeps ==
    ASSUME RangeInv, NEW content, NEW from \in Nat, Open(content, from),
           from = Len(content), content \in { file, << >> }
    PROVE  RangeInv'
<1>1. link \in Versions /\ Length[link] \in Nat /\ link \in Nat
    BY Lengths, Constants DEF RangeInv, TypeOK
<1>2. part' \in Row /\ part'.completed = part.completed
    <2>1. part \in Row /\ total' \in Nat /\ part' = Announced(part, total')
        BY <1>1 DEF RangeInv, TypeOK, Open
    <2>2. QED
        BY <2>1 DEF Announced, Row
<1>3. TypeOK'
    <2>1. /\ link' = link /\ served' = link /\ row' = row /\ at' = "opened"
          /\ file' = content /\ current' = from /\ total' \in Nat
          /\ failures' = failures /\ crashes' = crashes
        BY <1>1 DEF Open, bounds
    <2>2. << >> \in Seq(Versions \X Nat)
        OBVIOUS
    <2>3. content \in Seq(Versions \X Nat)
        BY <2>2 DEF RangeInv, TypeOK
    <2>4. link \in 1..link
        BY <1>1 DEF Versions
    <2>5. QED
        BY <2>1, <2>3, <2>4, <1>1, <1>2 DEF RangeInv, TypeOK
<1>4. Unfinished' /\ Position' /\ CountedBytes'
    BY <1>2 DEF RangeInv, Open, Unfinished, Position, CountedBytes
<1>5. KnownBytes' /\ OnlyFile'
    BY <1>1 DEF RangeInv, Open, KnownBytes, OnlyFile, Begins
<1>6. QED
    BY <1>3, <1>4, <1>5 DEF RangeInv

(* Steps that leave the part file and the link alone.                      *)
LEMMA SameFile ==
    ASSUME RangeInv, UNCHANGED << link, file >>
    PROVE  KnownBytes' /\ OnlyFile'
    BY DEF RangeInv, KnownBytes, OnlyFile, Begins

(* Download's last assignments count and complete nothing.                 *)
LEMMA AtEndTyped ==
    ASSUME NEW p \in Row, NEW n \in Nat
    PROVE  /\ AtEnd(p, n) \in Row
           /\ AtEnd(p, n).completed = p.completed
           /\ AtEnd(p, n).done = n
    BY DEF AtEnd, Row

(* A byte of the body continues the part file.                             *)
LEMMA ReceiveKeeps ==
    ASSUME RangeInv, Receive
    PROVE  RangeInv'
<1>1. /\ link \in Versions /\ served \in 1..link /\ link \in Nat
      /\ served \in Versions /\ current \in Nat
      /\ file \in Seq(Versions \X Nat) /\ current = Len(file)
    BY Constants DEF RangeInv, TypeOK, Receive, Position, Versions
<1>2. << served, current + 1 >> \in Versions \X Nat
    BY <1>1
<1>3. /\ file' \in Seq(Versions \X Nat)
      /\ Len(file') = current + 1
      /\ \A i \in 1..Len(file) : file'[i] = file[i]
      /\ file'[Len(file) + 1] = << served, current + 1 >>
    BY <1>1, <1>2 DEF Receive
<1>4. part' \in Row /\ ~ part'.completed
    <2>1. part \in Row /\ ~ part.completed /\ current + 1 \in Nat
        BY <1>1 DEF RangeInv, TypeOK, Receive, Unfinished
    <2>2. part' = [part EXCEPT !.done = current + 1]
        BY DEF Receive
    <2>3. QED
        BY <2>1, <2>2 DEF Row
<1>5. row' \in Row /\ ~ row'.completed
    BY <1>4 DEF RangeInv, TypeOK, Receive, Unfinished
<1>6. TypeOK'
    BY <1>1, <1>3, <1>4, <1>5 DEF RangeInv, TypeOK, Receive, bounds
<1>7. Unfinished' /\ Position' /\ CountedBytes'
    BY <1>3, <1>4, <1>5 DEF Receive, Unfinished, Position, CountedBytes
<1>8. KnownBytes'
    <2>1. ASSUME NEW i \in 1..Len(file')
          PROVE  file'[i][1] <= link'
        <3>1. CASE i \in 1..Len(file)
            BY <3>1, <1>3 DEF RangeInv, KnownBytes, Receive
        <3>2. CASE i = Len(file) + 1
            BY <3>2, <1>1, <1>3 DEF Receive
        <3>3. QED
            BY <2>1, <3>1, <3>2, <1>1, <1>3
    <2>2. QED
        BY <2>1 DEF KnownBytes
<1>9. OnlyFile'
    <2>1. SUFFICES ASSUME link = 1
                   PROVE  Begins(file', 1)
        BY DEF OnlyFile, Begins, Receive
    <2>2. served = 1 /\ Begins(file, 1) /\ Length[1] \in Nat
        BY <2>1, <1>1, Lengths, Constants DEF RangeInv, OnlyFile
    <2>3. Len(file') <= Length[1]
        BY <2>2, <1>1, <1>3 DEF Receive
    <2>4. ASSUME NEW i \in 1..Len(file')
          PROVE  file'[i] = << 1, i >>
        <3>1. CASE i \in 1..Len(file)
            BY <3>1, <1>3, <2>2 DEF Begins
        <3>2. CASE i = Len(file) + 1
            BY <3>2, <1>1, <1>3, <2>2
        <3>3. QED
            BY <2>4, <3>1, <3>2, <1>1, <1>3
    <2>5. QED
        BY <2>3, <2>4 DEF Begins
<1>10. QED
    BY <1>6, <1>7, <1>8, <1>9 DEF RangeInv

(* The body ends, or seems to: nothing is completed yet.                   *)
LEMMA EndKeeps ==
    ASSUME RangeInv, NEW n \in Nat, n = Len(file),
           at # "idle", at' = "record", part' = AtEnd(part, n),
           row' \in { row, part' },
           failures' \in 0..MaxFailures,
           UNCHANGED << link, file, answer, crashes >>
    PROVE  RangeInv'
<1>1. part' \in Row /\ ~ part'.completed /\ part'.done = n
    <2>1. part \in Row /\ ~ part.completed
        BY DEF RangeInv, TypeOK, Unfinished
    <2>2. AtEnd(part, n) \in Row /\ AtEnd(part, n).done = n
        BY <2>1, AtEndTyped
    <2>3. AtEnd(part, n).completed = part.completed
        BY <2>1, AtEndTyped
    <2> QED
        BY <2>1, <2>2, <2>3
<1>2. row' \in Row /\ ~ row'.completed
    <2>1. row \in Row /\ ~ row.completed
        BY DEF RangeInv, TypeOK, Unfinished
    <2> QED
        BY <1>1, <2>1
<1>3. TypeOK'
    BY <1>1, <1>2 DEF RangeInv, TypeOK, answer
<1>4. Unfinished' /\ Position' /\ CountedBytes'
    BY <1>1, <1>2 DEF Unfinished, Position, CountedBytes
<1>5. QED
    BY <1>3, <1>4, SameFile DEF RangeInv

(* A part becomes completed here, and the count is that of the file.       *)
LEMMA RecordKeeps ==
    ASSUME RangeInv, Record
    PROVE  RangeInv'
<1>1. /\ row' \in Row /\ row'.done = part.done /\ row'.length = part.length
      /\ row'.completed = (part.length = 0 \/ part.done >= part.length)
      /\ part.done \in Nat /\ part.length \in Nat
    BY DEF RangeInv, TypeOK, Record, Completed, Row
<1>2. TypeOK'
    BY <1>1 DEF RangeInv, TypeOK, Record, answer, bounds
<1>3. Unfinished' /\ Position'
    BY DEF Record, Unfinished, Position
<1>4. CountedBytes'
    <2>1. row'.done = Len(file')
        BY <1>1 DEF RangeInv, Record, Position
    <2>2. row'.completed => part.length = 0 \/ part.done >= part.length
        BY <1>1
    <2>3. part.length = 0 => part.done >= part.length
        BY <1>1
    <2>4. row'.completed => row'.done >= row'.length
        BY <1>1, <2>2, <2>3, Zenon
    <2>5. QED
        BY <2>1, <2>4 DEF CountedBytes
<1>5. QED
    BY <1>2, <1>3, <1>4, SameFile DEF RangeInv, Record

(* A refreshed part is no more complete than before.                       *)
LEMMA RefreshedTyped ==
    ASSUME NEW p \in Row, ~ p.completed, NEW q \in Refreshed(p)
    PROVE  q \in Row /\ ~ q.completed
    BY Constants DEF Refreshed, Row

(* Giving up leaves the part as it was or as it is in the copy, but maybe  *)
(* with another length.                                                    *)
LEMMA IdleKeeps ==
    ASSUME RangeInv, at # "idle", at' = "idle", part' \in Refreshed(part),
           row' \in { row, part' },
           failures' \in 0..MaxFailures, crashes' \in 0..MaxCrashes,
           UNCHANGED << link, file, answer >>
    PROVE  RangeInv'
<1>1. part' \in Row /\ ~ part'.completed /\ row' \in Row /\ ~ row'.completed
    <2>1. part \in Row /\ ~ part.completed /\ row \in Row /\ ~ row.completed
        BY DEF RangeInv, TypeOK, Unfinished
    <2>2. part' \in Row /\ ~ part'.completed
        BY <2>1, RefreshedTyped
    <2>3. QED
        BY <2>1, <2>2
<1>2. TypeOK'
    BY <1>1 DEF RangeInv, TypeOK, answer
<1>3. Unfinished' /\ Position' /\ CountedBytes'
    BY <1>1 DEF Unfinished, Position, CountedBytes
<1>4. QED
    BY <1>2, <1>3, SameFile DEF RangeInv

(* No byte of the next file is in the part file yet.                       *)
LEMMA ReplaceKeeps ==
    ASSUME RangeInv, Replace
    PROVE  RangeInv'
<1>1. link' \in Versions /\ link \in Nat /\ link' = link + 1
    BY Constants, RangeAssumption DEF RangeInv, TypeOK, Replace, Versions
<1>2. TypeOK'
    BY <1>1 DEF RangeInv, TypeOK, Replace, answer, bounds, Versions
<1>3. Unfinished' /\ Position' /\ CountedBytes'
    BY DEF RangeInv, Replace, answer, Unfinished, Position, CountedBytes
<1>4. file' = file /\ Len(file) \in Nat
      /\ \A i \in 1..Len(file) : file[i][1] \in Nat
    <2>1. file \in Seq(Versions \X Nat) /\ file' = file
        BY DEF RangeInv, TypeOK, Replace
    <2>2. ASSUME NEW i \in 1..Len(file)
          PROVE  file[i][1] \in Nat
        <3>1. file[i] \in Versions \X Nat
            BY <2>1, <2>2
        <3>2. QED
            BY <3>1, Constants
    <2>3. QED
        BY <2>1, <2>2
<1>5. KnownBytes'
    BY <1>1, <1>4 DEF RangeInv, KnownBytes
<1>6. OnlyFile'
    BY <1>1 DEF RangeInv, TypeOK, OnlyFile, Versions
<1>7. QED
    BY <1>2, <1>3, <1>5, <1>6 DEF RangeInv

(* Every step keeps the invariant.                                         *)
LEMMA RangeStep == RangeInv /\ [Next]_vars => RangeInv'
<1> SUFFICES ASSUME RangeInv, [Next]_vars
             PROVE  RangeInv'
    OBVIOUS
<1>1. Len(file) \in Nat /\ current \in Nat /\ MaxFailures \in Nat
      /\ failures \in 0..MaxFailures /\ crashes \in 0..MaxCrashes
      /\ row \in Row /\ part \in Row /\ MaxCrashes \in Nat
    BY Constants DEF RangeInv, TypeOK
<1>2. CASE Request
    <2>1. TypeOK'
        BY <1>2 DEF RangeInv, TypeOK, Request, answer, bounds
    <2>2. Unfinished' /\ Position' /\ CountedBytes'
        BY <1>2 DEF RangeInv, Request, answer, Unfinished, Position,
                    CountedBytes
    <2>3. QED
        BY <2>1, <2>2, SameFile, <1>2 DEF RangeInv, Request
<1>3. CASE AnswerWhole
    BY <1>3, OpenKeeps DEF AnswerWhole
<1>4. CASE AnswerRest
    BY <1>1, <1>4, OpenKeeps DEF AnswerRest
<1>5. CASE AnswerBeyondEnd
    BY <1>1, <1>5, EndKeeps DEF AnswerBeyondEnd, bounds
<1>6. CASE FirstProgress
    <2>1. current = Len(file) /\ ~ part.completed
        BY <1>6 DEF RangeInv, FirstProgress, Position, Unfinished
    <2>2. part' \in Row /\ ~ part'.completed
        BY <1>1, <1>6, <2>1 DEF FirstProgress, Row
    <2>3. TypeOK'
        BY <1>6, <2>2 DEF RangeInv, TypeOK, FirstProgress, answer, bounds
    <2>4. Unfinished' /\ Position' /\ CountedBytes'
        BY <1>6, <2>1, <2>2 DEF FirstProgress, answer, Unfinished, Position,
                                CountedBytes
    <2>5. QED
        BY <2>3, <2>4, SameFile, <1>6 DEF RangeInv, FirstProgress
<1>7. CASE Receive
    BY <1>7, ReceiveKeeps
<1>8. CASE BodyEnds
    BY <1>1, <1>8, EndKeeps
    DEF BodyEnds, Checkpoint, bounds, RangeInv, Position
<1>9. CASE BodyCut
    BY <1>1, <1>9, EndKeeps DEF BodyCut, Checkpoint, RangeInv, Position
<1>10. CASE Record
    BY <1>10, RecordKeeps
<1>11. CASE Failure
    BY <1>1, <1>11, IdleKeeps DEF Failure
<1>12. CASE Crash
    BY <1>1, <1>12, IdleKeeps DEF Crash, Refreshed
<1>13. CASE Replace
    BY <1>13, ReplaceKeeps
<1>14. CASE UNCHANGED vars
    <2>1. TypeOK' /\ Unfinished' /\ Position' /\ CountedBytes'
        BY <1>14 DEF RangeInv, vars, TypeOK, Unfinished, Position,
                     CountedBytes
    <2>2. QED
        BY <2>1, SameFile, <1>14 DEF RangeInv, vars
<1>15. QED
    BY <1>2, <1>3, <1>4, <1>5, <1>6, <1>7, <1>8, <1>9, <1>10, <1>11, <1>12,
       <1>13, <1>14
    DEF Next, Step

(* The part file and its row stay in step (downloader.go, Download).       *)
THEOREM RangeInvariant == Spec => []RangeInv
    BY RangeInit, RangeStep, PTL DEF Spec

(* The answer in hand is about a file the link has led to, and no count or *)
(* length is negative: an unknown Content-Length, which Go has as -1, gets *)
(* into neither the copy nor the row (downloader.go, contentLength).       *)
THEOREM RangeTyping == Spec => []TypeOK
<1>1. RangeInv => TypeOK
    BY DEF RangeInv
<1>2. QED
    BY <1>1, RangeInvariant, PTL

(* A part recorded as completed has the bytes its row counts.              *)
THEOREM Counted == Spec => []CountedBytes
<1>1. RangeInv => CountedBytes
    BY DEF RangeInv
<1>2. QED
    BY <1>1, RangeInvariant, PTL

(* While there is one file behind the link, the part file begins as it.    *)
THEOREM OneFileKept == Spec => []OneFile
<1>1. RangeInv => OneFile
    BY PrefixBytes, Constants DEF RangeInv, TypeOK, OnlyFile, OneFile
<1>2. QED
    BY <1>1, RangeInvariant, PTL

(***************************************************************************)
(* The refinement of PartFile.                                             *)
(***************************************************************************)
Judged(s, v) ==
    CASE s = << >>       -> "empty"
      [] s = Bytes(v)    -> "whole"
      [] IsCut(s, v)     -> "prefix"
      [] OTHER           -> "stale"

(* What PartFile calls content is the part file judged by the link.        *)
LEMMA ContentIs ==
    /\ Content = Judged(file, link)
    /\ Content' = Judged(file', link')
    BY DEF Content, Judged, Bytes, IsCut

(* The judgement, from the length and the bytes ...                        *)
LEMMA Judge ==
    ASSUME NEW v \in Versions, NEW s \in Seq(Versions \X Nat)
    PROVE  /\ s = << >> => Judged(s, v) = "empty"
           /\ s # << >> /\ Begins(s, v) /\ Len(s) = Length[v]
              => Judged(s, v) = "whole"
           /\ s # << >> /\ Begins(s, v) /\ Len(s) # Length[v]
              => Judged(s, v) = "prefix"
           /\ ~ Begins(s, v) => Judged(s, v) = "stale"
<1>1. Length[v] \in Nat \ {0} /\ Len(s) \in Nat
    BY Lengths
<1>2. s = << >> => Begins(s, v) /\ Len(s) # Length[v]
    BY <1>1 DEF Begins
<1>3. /\ IsPrefix(s, Bytes(v)) <=> Begins(s, v)
      /\ s = Bytes(v) <=> Begins(s, v) /\ Len(s) = Length[v]
    BY PrefixBytes, WholeBytes
<1>4. IsCut(s, v) <=> s # << >> /\ Begins(s, v) /\ Len(s) # Length[v]
    BY <1>3 DEF IsCut, IsStrictPrefix
<1>5. ASSUME s = << >>
      PROVE  Judged(s, v) = "empty"
    BY <1>2, <1>3, <1>4, <1>5 DEF Judged
<1>6. ASSUME s # << >>, Begins(s, v), Len(s) = Length[v]
      PROVE  Judged(s, v) = "whole"
    <2>1. s = Bytes(v) /\ ~ IsCut(s, v)
        BY <1>3, <1>4, <1>6
    <2>2. QED
        BY <1>6, <2>1 DEF Judged
<1>7. ASSUME s # << >>, Begins(s, v), Len(s) # Length[v]
      PROVE  Judged(s, v) = "prefix"
    <2>1. s # Bytes(v) /\ IsCut(s, v)
        BY <1>3, <1>4, <1>7
    <2>2. QED
        BY <1>7, <2>1 DEF Judged
<1>8. ASSUME ~ Begins(s, v)
      PROVE  Judged(s, v) = "stale"
    <2>1. s # << >> /\ s # Bytes(v) /\ ~ IsCut(s, v)
        BY <1>2, <1>3, <1>4, <1>8
    <2>2. QED
        BY <2>1 DEF Judged
<1>9. QED
    BY <1>5, <1>6, <1>7, <1>8

(* ... and back.                                                           *)
LEMMA JudgedBack ==
    ASSUME NEW v \in Versions, NEW s \in Seq(Versions \X Nat)
    PROVE  /\ Judged(s, v) = "empty" <=> s = << >>
           /\ Judged(s, v) = "whole" => Begins(s, v) /\ Len(s) = Length[v]
           /\ Judged(s, v) = "stale" => ~ Begins(s, v)
           /\ Judged(s, v) = "prefix" => Begins(s, v) /\ Len(s) < Length[v]
           /\ Judged(s, v) \in { "empty", "prefix", "whole", "stale" }
<1>1. Length[v] \in Nat /\ Len(s) \in Nat
    BY Lengths
<1>2. Begins(s, v) => Len(s) <= Length[v]
    BY DEF Begins
<1>3. QED
    BY <1>1, <1>2, Judge

(* The initial states are those of PartFile.                               *)
LEMMA PartFileInit == Init => PF!Init
<1> SUFFICES ASSUME Init
             PROVE  PF!Init
    OBVIOUS
<1>1. RangeInv
    BY RangeInit
<1>2. row.completed = FALSE
    BY DEF Init
<1>3. CASE OwnPath
    <2>1. Content = "empty" /\ link = 1
        BY <1>1, <1>3, ContentIs, Judge DEF OwnPath, RangeInv, TypeOK
    <2>2. QED
        BY <1>2, <2>1 DEF PF!Init
<1>4. CASE SharedPath
    <2>1. link = 2 /\ file = Bytes(1) /\ file[1] = << 1, 1 >>
          /\ Len(file) >= 1 /\ Len(file) \in Nat
        <3>1. link = 2 /\ file = Bytes(1)
            BY <1>4 DEF SharedPath
        <3>2. 1 \in Versions /\ Length[1] \in Nat /\ Length[1] >= 1
            BY Lengths, Constants
        <3>3. Len(Bytes(1)) = Length[1] /\ Bytes(1)[1] = << 1, 1 >>
            BY <3>2, BytesSeq
        <3> QED
            BY <3>1, <3>2, <3>3
    <2>2. ~ Begins(file, link)
        BY <2>1 DEF Begins
    <2>3. Content = "stale"
        BY <1>1, <2>2, ContentIs, Judge DEF RangeInv, TypeOK
    <2>4. (link > 1) = TRUE
        BY <2>1
    <2>5. QED
        BY <1>2, <2>3, <2>4 DEF PF!Init
<1>5. QED
    BY <1>3, <1>4 DEF Init

(* A step that completes nothing and does not touch the part file.         *)
LEMMA Looks ==
    ASSUME RangeInv, RangeInv', UNCHANGED << link, file >>,
           ~ row.completed, ~ row'.completed
    PROVE  PF!Next
<1>1. row'.completed = row.completed
    BY DEF RangeInv, TypeOK, Row
<1>2. Content' = Content
    BY ContentIs
<1>3. PF!Look
    BY <1>1, <1>2 DEF PF!Look, PF!Working
<1>4. QED
    BY <1>3 DEF PF!Next

(* A 200 empties the part file.                                            *)
LEMMA Restarts ==
    ASSUME RangeInv, RangeInv', AnswerWhole
    PROVE  PF!Next
<1>1. ~ row.completed /\ row' = row /\ link' = link /\ file' = << >>
    BY DEF RangeInv, Unfinished, AnswerWhole, Open
<1>2. Content' = "empty"
    BY <1>1, ContentIs, Judge DEF RangeInv, TypeOK
<1>3. PF!Restart
    BY <1>1, <1>2 DEF PF!Restart, PF!Working
<1>4. QED
    BY <1>3 DEF PF!Next

(* A byte leads from a prefix to a prefix or to the whole.                 *)
LEMMA Grows ==
    ASSUME RangeInv, RangeInv', Receive
    PROVE  PF!Next
<1>1. /\ link \in Versions /\ link' = link /\ link \in Nat
      /\ file \in Seq(Versions \X Nat) /\ file' \in Seq(Versions \X Nat)
      /\ Length[link] \in Nat
    BY Lengths, Constants DEF RangeInv, TypeOK, Receive
<1>2. /\ Len(file) \in Nat /\ Len(file') = Len(file) + 1
      /\ \A i \in 1..Len(file) : file'[i] = file[i]
      /\ file' # << >>
    <2>1. /\ served \in Versions /\ current \in Nat
          /\ current' = current + 1
          /\ file' = Append(file, << served, current' >>)
        BY Constants DEF RangeInv, TypeOK, Receive, Versions
    <2>2. << served, current' >> \in Versions \X Nat
        BY <2>1
    <2>3. QED
        BY <1>1, <2>1, <2>2
<1>3. Begins(file', link) => Begins(file, link) /\ Len(file) < Length[link]
    <2> SUFFICES ASSUME Begins(file', link)
                 PROVE  Begins(file, link) /\ Len(file) < Length[link]
        OBVIOUS
    <2>1. /\ Len(file') <= Length[link]
          /\ \A i \in 1..Len(file') : file'[i] = << link, i >>
        BY DEF Begins
    <2>2. Len(file) < Length[link] /\ Len(file) <= Length[link]
        BY <1>1, <1>2, <2>1
    <2>3. \A i \in 1..Len(file) : file[i] = << link, i >>
        BY <1>2, <2>1
    <2> QED
        BY <2>2, <2>3 DEF Begins
<1>4. Content \in { "stale", "whole" } => Content' = "stale"
    <2>1. Content \in { "stale", "whole" } => ~ Begins(file', link)
        BY <1>1, <1>2, <1>3, ContentIs, JudgedBack
    <2>2. QED
        BY <1>1, <2>1, ContentIs, Judge
<1>5. Content' \in { "prefix", "whole", "stale" }
    BY <1>1, <1>2, ContentIs, JudgedBack
<1>6. ~ (link > 1) => Content' # "stale"
    <2>1. ~ (link > 1) => link = 1
        BY <1>1 DEF Versions
    <2>2. link = 1 => Begins(file', link')
        BY <1>1 DEF RangeInv, OnlyFile, Begins
    <2>3. QED
        BY <1>1, <2>1, <2>2, ContentIs, JudgedBack
<1>7. Content' \in { "prefix", "whole" } \cup
                   (IF link > 1 THEN { "stale" } ELSE {})
    BY <1>5, <1>6
<1>8. ~ row.completed /\ row'.completed = row.completed
    BY DEF RangeInv, TypeOK, Row, Unfinished, Receive
<1>9. PF!Grow
    BY <1>1, <1>4, <1>7, <1>8 DEF PF!Grow, PF!Working
<1>10. QED
    BY <1>9 DEF PF!Next

(* A part is recorded if it is whole, or stale, or of unknown length.      *)
LEMMA Records ==
    ASSUME RangeInv, RangeInv', Record
    PROVE  PF!Next
<1>1. /\ link' = link /\ file' = file /\ ~ row.completed
      /\ row \in Row /\ row' \in Row
    BY DEF RangeInv, TypeOK, Unfinished, Record
<1>2. CASE ~ row'.completed
    BY <1>1, <1>2, Looks
<1>3. CASE row'.completed
    <2>1. row'.completed = TRUE
        BY <1>1, <1>3 DEF Row
    <2>2. Content' = Content
        BY <1>1, ContentIs
    <2>3. Length0' = Length0 /\ Length0 = row'.length
        <3>1. /\ Length0 = part.length /\ Length0' = row'.length
              /\ part \in Row /\ row' = Completed(part)
            BY DEF RangeInv, TypeOK, Record, Length0
        <3>2. QED
            BY <3>1 DEF Completed, Row
    <2>4. Length0 = Length[link] => Content \in { "whole", "stale" }
        <3>1. SUFFICES ASSUME row'.length = Length[link]
                       PROVE  Content \in { "whole", "stale" }
            BY <2>3
        <3>2. /\ Len(file) >= Length[link] /\ Length[link] \in Nat \ {0}
              /\ file \in Seq(Versions \X Nat) /\ link \in Versions
            BY <1>1, <1>3, <3>1, Lengths DEF RangeInv, TypeOK, CountedBytes
        <3>3. file # << >> /\ Len(file) \in Nat
            BY <3>2
        <3>4. QED
            BY <3>2, <3>3, ContentIs, JudgedBack
    <2>5. PF!Record
        BY <1>1, <2>1, <2>2, <2>3, <2>4 DEF PF!Record
    <2>6. QED
        BY <2>5 DEF PF!Next
<1>4. QED
    BY <1>2, <1>3

(* The bytes of the old file are none of the new one.                      *)
LEMMA Switches ==
    ASSUME RangeInv, RangeInv', Replace
    PROVE  PF!Next
<1>1. /\ link \in Versions /\ link \in Nat /\ link >= 1
      /\ link' \in Versions /\ link' = link + 1
      /\ file \in Seq(Versions \X Nat) /\ file' = file /\ row' = row
    BY Constants DEF RangeInv, TypeOK, Replace, Versions
<1>2. Content = "empty" => Content' = "empty"
    BY <1>1, ContentIs, Judge, JudgedBack
<1>3. ASSUME Content # "empty"
      PROVE  Content' = "stale"
    <2>1. file # << >> /\ Len(file) \in Nat /\ Len(file) >= 1
        BY <1>1, <1>3, ContentIs, JudgedBack
    <2>2. file[1][1] <= link
        BY <2>1 DEF RangeInv, KnownBytes
    <2>3. file[1] # << link + 1, 1 >>
        BY <1>1, <2>2
    <2>4. ~ Begins(file', link')
        BY <1>1, <2>1, <2>3 DEF Begins
    <2>5. QED
        BY <1>1, <2>4, ContentIs, Judge
<1>4. (link' > 1) = TRUE
    BY <1>1
<1>5. PF!Switch
    BY <1>1, <1>2, <1>3, <1>4 DEF PF!Switch
<1>6. QED
    BY <1>5 DEF PF!Next

(* Every step is one of PartFile, or none.                                 *)
LEMMA PartFileStep ==
    RangeInv /\ RangeInv' /\ [Next]_vars
    => [PF!Next]_<< Content, Length0 = Length[link], link > 1, row.completed >>
<1> SUFFICES ASSUME RangeInv, RangeInv', [Next]_vars
             PROVE  \/ PF!Next
                    \/ UNCHANGED << Content, Length0 = Length[link], link > 1,
                                    row.completed >>
    OBVIOUS
<1>1. CASE Request
    BY <1>1, Looks DEF Request
<1>2. CASE AnswerWhole
    BY <1>2, Restarts
<1>3. CASE AnswerRest
    BY <1>3, Looks DEF AnswerRest, Open, RangeInv, Unfinished
<1>4. CASE AnswerBeyondEnd
    BY <1>4, Looks DEF AnswerBeyondEnd, RangeInv, Unfinished
<1>5. CASE FirstProgress
    BY <1>5, Looks DEF FirstProgress, RangeInv, Unfinished
<1>6. CASE Receive
    BY <1>6, Grows
<1>7. CASE BodyEnds
    BY <1>7, Looks DEF BodyEnds, RangeInv, Unfinished
<1>8. CASE BodyCut
    BY <1>8, Looks DEF BodyCut, RangeInv, Unfinished
<1>9. CASE Record
    BY <1>9, Records
<1>10. CASE Failure
    <2>1. /\ part \in Row /\ ~ part.completed /\ ~ row.completed
          /\ UNCHANGED << link, file >>
          /\ part' \in Refreshed(part) /\ row' \in { row, part' }
        BY <1>10 DEF Failure, RangeInv, TypeOK, Unfinished
    <2>2. ~ row'.completed
        BY <2>1, RefreshedTyped
    <2>3. QED
        BY <2>1, <2>2, Looks
<1>11. CASE Crash
    BY <1>11, Looks DEF Crash, RangeInv, Unfinished
<1>12. CASE Replace
    BY <1>12, Switches
<1>13. CASE UNCHANGED vars
    <2>1. Content' = Content
        BY <1>13, ContentIs DEF vars
    <2>2. UNCHANGED << Length0 = Length[link], link > 1, row.completed >>
        BY <1>13 DEF vars, Length0
    <2>3. QED
        BY <2>1, <2>2
<1>14. QED
    BY <1>1, <1>2, <1>3, <1>4, <1>5, <1>6, <1>7, <1>8, <1>9, <1>10, <1>11,
       <1>12, <1>13
    DEF Next, Step

(* Downloading a part implements PartFile, for files of any lengths: a     *)
(* part is recorded only if the file is whole, or the link has led to      *)
(* another one, or no answer announced its length.                         *)
THEOREM PartFileImplemented == Spec => ImplementsPartFile
<1>1. Spec => PF!Init /\ [][PF!Next]_<< Content, Length0 = Length[link],
                                        link > 1, row.completed >>
    BY PartFileInit, PartFileStep, RangeInvariant, PTL DEF Spec
<1>2. QED
    BY <1>1 DEF ImplementsPartFile, PF!Spec
=============================================================================
