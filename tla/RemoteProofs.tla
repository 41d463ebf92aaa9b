----------------------------- MODULE RemoteProofs ----------------------------
(***************************************************************************)
(* RemoteTracking for any capacity of the bucket and whatever fields       *)
(* TorBox's answers have.  First the bucket: who may be in its line, and   *)
(* how many tokens there can be.  Then the items: what each of the parse   *)
(* functions can take out of an item of this task, of its queue entry or   *)
(* of another task.  From that follows what a lookup can find, and what    *)
(* the row becomes.                                                        *)
(***************************************************************************)
EXTENDS RemoteTracking, WellFoundedInduction, TLAPS

(***************************************************************************)
(* The bucket.                                                             *)
(***************************************************************************)

(* Who waits, waits for an empty bucket; and what has been handed out in a *)
(* period and what is left came out of a full bucket and the ticks since.  *)
RateInv ==
    /\ BucketTypeOK
    /\ line # << >> => tokens = 0
    /\ passed + tokens <= Capacity + window

(* A sequence without its i-th element.                                    *)
LEMMA WithoutOne ==
    ASSUME NEW S, NEW s \in Seq(S), IsInjective(s), NEW i \in DOMAIN s
    PROVE  RemoveAt(s, i) \in Seq(S) /\ IsInjective(RemoveAt(s, i))
<1> DEFINE r == RemoveAt(s, i)
           Old(j) == IF j < i THEN j ELSE j + 1
<1>1. Len(s) \in Nat /\ i \in 1..Len(s) /\ DOMAIN s = 1..Len(s)
    OBVIOUS
<1>2. /\ SubSeq(s, 1, i - 1) \in Seq(S)
      /\ Len(SubSeq(s, 1, i - 1)) = i - 1
      /\ \A j \in 1..i - 1 : SubSeq(s, 1, i - 1)[j] = s[j]
    BY <1>1
<1>3. /\ SubSeq(s, i + 1, Len(s)) \in Seq(S)
      /\ Len(SubSeq(s, i + 1, Len(s))) = Len(s) - i
      /\ \A j \in 1 .. Len(s) - i : SubSeq(s, i + 1, Len(s))[j] = s[j + i]
    BY <1>1
<1>4. ASSUME NEW a \in Seq(S), NEW b \in Seq(S)
      PROVE  /\ a \o b \in Seq(S)
             /\ Len(a \o b) = Len(a) + Len(b)
             /\ \A j \in 1 .. Len(a) + Len(b) :
                   (a \o b)[j] = IF j <= Len(a) THEN a[j]
                                                ELSE b[j - Len(a)]
    OBVIOUS
<1>5. /\ r \in Seq(S) /\ Len(r) = Len(s) - 1
      /\ \A j \in 1 .. Len(s) - 1 : r[j] = s[Old(j)]
    <2> DEFINE a == SubSeq(s, 1, i - 1)
               b == SubSeq(s, i + 1, Len(s))
    <2>1. r = a \o b
        BY DEF RemoveAt
    <2> HIDE DEF a, b, r
    <2>2. /\ a \in Seq(S) /\ Len(a) = i - 1
          /\ b \in Seq(S) /\ Len(b) = Len(s) - i
          /\ \A j \in 1 .. i - 1 : a[j] = s[j]
          /\ \A j \in 1 .. Len(s) - i : b[j] = s[j + i]
        BY <1>2, <1>3 DEF a, b
    <2>3. r \in Seq(S) /\ Len(r) = Len(s) - 1
        <3>1. a \o b \in Seq(S) /\ Len(a \o b) = Len(a) + Len(b)
            BY <1>4, <2>2
        <3>2. (i - 1) + (Len(s) - i) = Len(s) - 1
            BY <1>1
        <3>3. QED
            BY <2>1, <2>2, <3>1, <3>2
    <2>4. ASSUME NEW j \in 1 .. Len(s) - 1
          PROVE  r[j] = s[Old(j)]
        <3>1. r[j] = IF j <= Len(a) THEN a[j] ELSE b[j - Len(a)]
            BY <1>1, <1>4, <2>1, <2>2
        <3>2. CASE j < i
            BY <1>1, <2>2, <3>1, <3>2
        <3>3. CASE ~ (j < i)
            <4>1. j - Len(a) \in 1 .. Len(s) - i /\ (j - Len(a)) + i = j + 1
                BY <1>1, <2>2, <3>3
            <4>2. r[j] = b[j - Len(a)]
                BY <1>1, <2>2, <3>1, <3>3
            <4>3. QED
                BY <2>2, <4>1, <4>2, <3>3
        <3>4. QED
            BY <3>2, <3>3
    <2>5. QED
        BY <2>3, <2>4
<1>6. \A j, k \in 1 .. Len(s) - 1 : s[Old(j)] = s[Old(k)] => j = k
    BY <1>1 DEF IsInjective
<1>7. DOMAIN r = 1 .. Len(s) - 1
    BY <1>1, <1>5
<1> HIDE DEF r, Old
<1>8. IsInjective(r)
    BY <1>5, <1>6, <1>7 DEF IsInjective
<1> QED
    BY <1>5, <1>8 DEF r

(* NewTokenBucket                                                          *)
LEMMA RateInit == Init => RateInv
<1>1. << >> \in Seq(Callers) /\ IsInjective(<< >>)
    BY DEF IsInjective
<1>2. ASSUME BucketInit
      PROVE  RateInv
    <2>1. line \in Seq(Callers) /\ IsInjective(line)
        BY <1>1, <1>2, Zenon DEF BucketInit
    <2>2. tokens = Capacity /\ window = 0 /\ passed = 0 /\ granted = {}
          /\ cancelled \in BOOLEAN /\ line = << >>
        BY <1>2 DEF BucketInit
    <2>3. tokens \in 0..Capacity /\ window \in 0 .. Capacity - 1
          /\ passed \in Nat /\ passed + tokens <= Capacity + window
        BY <2>2, RateAssumption
    <2>4. granted \subseteq Callers
        BY <2>2
    <2>5. QED
        BY <2>1, <2>2, <2>3, <2>4, Zenon DEF BucketTypeOK, RateInv
<1>3. QED
    BY <1>2 DEF Init

(* Every step of TokenBucket keeps the balance.                            *)
LEMMA TakeTokenRate ==
    ASSUME RateInv, NEW c \in Callers, TakeToken(c)
    PROVE  RateInv'
    BY RateAssumption DEF RateInv, BucketTypeOK, TakeToken

(* Who joins the line has found the bucket empty, and is not in it yet.    *)
LEMMA JoinLineRate ==
    ASSUME RateInv, NEW c \in Callers, JoinLine(c)
    PROVE  RateInv'
<1>1. /\ line \in Seq(Callers) /\ IsInjective(line)
      /\ line' = Append(line, c) /\ ~ Contains(line, c)
    BY DEF RateInv, BucketTypeOK, JoinLine, Outside
<1>2. /\ Len(line) \in Nat /\ line' \in Seq(Callers)
      /\ DOMAIN line = 1..Len(line) /\ DOMAIN line' = 1 .. Len(line) + 1
      /\ \A i \in 1..Len(line) : line'[i] = line[i] /\ line'[i] # c
      /\ line'[Len(line) + 1] = c
    BY <1>1 DEF Contains
<1>3. IsInjective(line')
    <2>1. ASSUME NEW i \in DOMAIN line', NEW k \in DOMAIN line',
                 line'[i] = line'[k]
          PROVE  i = k
        <3>1. \/ i = Len(line) + 1 /\ k = Len(line) + 1
              \/ i \in 1..Len(line) /\ k \in 1..Len(line)
            BY <1>2, <2>1
        <3>2. QED
            BY <1>1, <1>2, <2>1, <3>1 DEF IsInjective
    <2>2. QED
        BY <2>1 DEF IsInjective
<1>4. QED
    BY <1>2, <1>3, RateAssumption DEF RateInv, BucketTypeOK, JoinLine

(* Nobody leaves an empty line.                                            *)
LEMMA GiveUpWaitingRate ==
    ASSUME RateInv, NEW c, GiveUpWaiting(c)
    PROVE  RateInv'
<1>1. line # << >>
    BY DEF GiveUpWaiting
<1>2. line' \in Seq(Callers) /\ IsInjective(line')
    BY WithoutOne DEF RateInv, BucketTypeOK, GiveUpWaiting
<1>3. QED
    BY <1>1, <1>2, RateAssumption
    DEF RateInv, BucketTypeOK, GiveUpWaiting

(* A tick hands out a token or puts one back.                              *)
LEMMA TickRate ==
    ASSUME RateInv, Tick
    PROVE  RateInv'
<1>1. CASE line = << >>
    BY <1>1, RateAssumption
    DEF RateInv, BucketTypeOK, Tick, Period, Refilled
<1>2. CASE line # << >>
    <2>1. /\ line \in Seq(Callers) /\ IsInjective(line)
          /\ line' = Tail(line) /\ granted' = granted \cup { Head(line) }
        BY <1>2 DEF RateInv, BucketTypeOK, Tick, InLine
    <2>2. /\ Head(line) \in Callers /\ Tail(line) \in Seq(Callers)
          /\ \A i \in DOMAIN Tail(line) :
                i + 1 \in DOMAIN line /\ Tail(line)[i] = line[i + 1]
          /\ DOMAIN Tail(line) \subseteq Nat
        BY <1>2, <2>1
    <2>3. IsInjective(line')
        BY <2>1, <2>2 DEF IsInjective
    <2>4. QED
        BY <1>2, <2>1, <2>2, <2>3, RateAssumption
        DEF RateInv, BucketTypeOK, Tick, Period
<1>3. QED
    BY <1>1, <1>2

(* The request itself touches no token.                                    *)
LEMMA SpendRate ==
    ASSUME RateInv, NEW c, Spend(c)
    PROVE  RateInv'
    BY RateAssumption DEF RateInv, BucketTypeOK, Spend

(* Nor do steps elsewhere.                                                 *)
LEMMA SameBucketRate ==
    ASSUME RateInv, UNCHANGED bucket
    PROVE  RateInv'
    BY DEF RateInv, BucketTypeOK, bucket

(* The poller's steps use the bucket like any other caller.                *)
LEMMA PollerStepRate ==
    ASSUME RateInv, PollerStep
    PROVE  RateInv'
<1>1. "poller" \in Callers
    BY TrackingAssumption
<1>2. CASE Begin
    BY <1>2, SameBucketRate DEF Begin
<1>3. CASE PollerWaits
    BY <1>1, <1>3, TakeTokenRate, JoinLineRate DEF PollerWaits
<1>4. CASE PollerStops
    BY <1>4, GiveUpWaitingRate, SpendRate, SameBucketRate DEF PollerStops
<1>5. CASE PollQueue
    BY <1>5, SpendRate DEF PollQueue, Calling
<1>6. CASE PollRecover
    BY <1>6, SpendRate DEF PollRecover, Lookup, Calling
<1>7. CASE PollFind
    BY <1>7, SpendRate DEF PollFind, Calling
<1>8. CASE PollStatus
    BY <1>8, SpendRate DEF PollStatus, Lookup, Calling
<1>9. QED
    BY <1>2, <1>3, <1>4, <1>5, <1>6, <1>7, <1>8 DEF PollerStep

(* Every step keeps the invariant.                                         *)
LEMMA RateStep == RateInv /\ [Next]_vars => RateInv'
<1> SUFFICES ASSUME RateInv, [Next]_vars
             PROVE  RateInv'
    OBVIOUS
<1>1. "downloader" \in Callers
    BY TrackingAssumption
<1>2. CASE TorBoxStep
    BY <1>2, SameBucketRate DEF TorBoxStep
<1>3. CASE Submit
    BY <1>3, SameBucketRate DEF Submit
<1>4. CASE PollerStep
    BY <1>4, PollerStepRate
<1>5. CASE DownloaderCalls
    BY <1>1, <1>5, TakeTokenRate, JoinLineRate DEF DownloaderCalls
<1>6. CASE DownloaderGoesOn
    BY <1>6, SpendRate, GiveUpWaitingRate DEF DownloaderGoesOn
<1>7. CASE Refill
    BY <1>7, TickRate DEF Refill
<1>8. CASE Shutdown
    BY <1>8 DEF Shutdown, Cancel, RateInv, BucketTypeOK
<1>9. CASE UNCHANGED vars
    BY <1>9, SameBucketRate DEF vars
<1>10. QED
    BY <1>2, <1>3, <1>4, <1>5, <1>6, <1>7, <1>8, <1>9 DEF Next

(* TokenBucket's tokens and line (limiter.go).                             *)
LEMMA RateInvHolds == Spec => []RateInv
    BY RateInit, RateStep, PTL DEF Spec

(* TorBox is never asked more often than its rate limit is configured for, *)
(* give or take the burst of one full bucket (limiter.go).                 *)
THEOREM RateKept == Spec => []RateBound
<1>1. RateInv => RateBound
    BY RateAssumption DEF RateInv, BucketTypeOK, RateBound
<1>2. QED
    BY RateInvHolds, <1>1, PTL

(***************************************************************************)
(* Items.                                                                  *)
(***************************************************************************)

(* A set of natural numbers has a least member, and Min is it.             *)
LEMMA MinIn ==
    ASSUME NEW S \in SUBSET Nat, S # {}
    PROVE  Min(S) \in S
<1> DEFINE R == OpToRel(<, Nat)
<1>1. IsWellFoundedOn(R, Nat)
    BY NatLessThanWellFounded
<1>2. \A x, y \in Nat : x < y => << x, y >> \in R
    BY DEF OpToRel
<1> HIDE DEF R
<1>3. PICK n \in S : \A m \in S : ~ (<< m, n >> \in R)
    BY <1>1, WFMin
<1>4. ASSUME NEW m \in S
      PROVE  n <= m
    <2>1. m \in Nat /\ n \in Nat
        OBVIOUS
    <2>2. ~ (m < n)
        BY <1>2, <1>3, <2>1, Zenon
    <2>3. QED
        BY <2>1, <2>2
<1>5. \E x \in S : \A y \in S : x <= y
    BY <1>4
<1>6. QED
    BY <1>5 DEF Min

(* firstString gives a value that one of the keys has, and nothing only if *)
(* none of them has any.                                                   *)
LEMMA FirstStringIs ==
    ASSUME NEW item, NEW keys, DOMAIN keys \subseteq Nat
    PROVE  \/ /\ firstString(item, keys) = ""
              /\ \A k \in Range(keys) \cap DOMAIN item : item[k] = ""
           \/ \E k \in Range(keys) \cap DOMAIN item :
                 item[k] # "" /\ firstString(item, keys) = item[k]
<1> DEFINE hits == { i \in DOMAIN keys :
                        keys[i] \in DOMAIN item /\ item[keys[i]] # "" }
<1>1. firstString(item, keys) =
         IF hits = {} THEN "" ELSE item[keys[Min(hits)]]
    BY DEF firstString
<1>2. hits \in SUBSET Nat
    <2>1. hits \subseteq DOMAIN keys
        OBVIOUS
    <2>2. QED
        BY <2>1
<1>3. CASE hits = {}
    BY <1>1, <1>3 DEF Range
<1>4. CASE hits # {}
    <2>1. Min(hits) \in hits
        BY <1>2, <1>4, MinIn
    <2>2. QED
        BY <1>1, <1>4, <2>1 DEF Range
<1>5. QED
    BY <1>3, <1>4

(* What firstString may give.                                              *)
LEMMA OneOf ==
    ASSUME NEW item, NEW keys, DOMAIN keys \subseteq Nat, NEW V, "" \in V,
           \A k \in Range(keys) \cap DOMAIN item : item[k] \in V
    PROVE  firstString(item, keys) \in V
    BY FirstStringIs

(* What it must give if all the keys there are have the same value.        *)
LEMMA TheOne ==
    ASSUME NEW item, NEW keys, DOMAIN keys \subseteq Nat, NEW v, v # "",
           \A k \in Range(keys) \cap DOMAIN item : item[k] = v,
           Range(keys) \cap DOMAIN item # {}
    PROVE  firstString(item, keys) = v
    BY FirstStringIs

IdFields ==
    { "id", "torrent_id", "download_id", "usenet_id", "usenetdownload_id" }

(* Lists of keys: one,                                                     *)
LEMMA OneKey ==
    ASSUME NEW a
    PROVE  /\ DOMAIN << a >> \subseteq Nat
           /\ Range(<< a >>) = { a }
<1>1. DOMAIN << a >> = { 1 }
    OBVIOUS
<1>2. << a >>[1] = a
    OBVIOUS
<1>3. QED
    BY <1>1, <1>2 DEF Range

(* two,                                                                    *)
LEMMA TwoKeys ==
    ASSUME NEW a, NEW b
    PROVE  /\ DOMAIN << a, b >> \subseteq Nat
           /\ Range(<< a, b >>) = { a, b }
<1>1. DOMAIN << a, b >> = { 1, 2 }
    OBVIOUS
<1>2. << a, b >>[1] = a /\ << a, b >>[2] = b
    OBVIOUS
<1>3. QED
    BY <1>1, <1>2 DEF Range

(* three                                                                   *)
LEMMA ThreeKeys ==
    ASSUME NEW a, NEW b, NEW c
    PROVE  /\ DOMAIN << a, b, c >> \subseteq Nat
           /\ Range(<< a, b, c >>) = { a, b, c }
<1>1. DOMAIN << a, b, c >> = { 1, 2, 3 }
    OBVIOUS
<1>2. /\ << a, b, c >>[1] = a
      /\ << a, b, c >>[2] = b
      /\ << a, b, c >>[3] = c
    OBVIOUS
<1>3. QED
    BY <1>1, <1>2 DEF Range

(* and five of them.                                                       *)
LEMMA FiveKeys ==
    ASSUME NEW a, NEW b, NEW c, NEW d, NEW e
    PROVE  /\ DOMAIN << a, b, c, d, e >> \subseteq Nat
           /\ Range(<< a, b, c, d, e >>) = { a, b, c, d, e }
<1>1. DOMAIN << a, b, c, d, e >> = { 1, 2, 3, 4, 5 }
    OBVIOUS
<1>2. /\ << a, b, c, d, e >>[1] = a
      /\ << a, b, c, d, e >>[2] = b
      /\ << a, b, c, d, e >>[3] = c
      /\ << a, b, c, d, e >>[4] = d
      /\ << a, b, c, d, e >>[5] = e
    OBVIOUS
<1>3. QED
    BY <1>1, <1>2 DEF Range

(* The names that are looked for when an id is wanted.                     *)
LEMMA IdKeys ==
    ASSUME NEW source
    PROVE  /\ DOMAIN ActiveKeys(source) \subseteq Nat
           /\ Range(ActiveKeys(source)) \subseteq IdFields
<1>1. CASE source = "torrent"
    <2>1. ActiveKeys(source) = << "torrent_id", "download_id", "id" >>
        BY <1>1 DEF ActiveKeys
    <2>2. Range(ActiveKeys(source)) = { "torrent_id", "download_id", "id" }
        BY <2>1, ThreeKeys, Zenon
    <2>3. DOMAIN ActiveKeys(source) \subseteq Nat
        BY <2>1, ThreeKeys
    <2>4. QED
        BY <2>2, <2>3 DEF IdFields
<1>2. CASE source \in { "nzb", "usenet" }
    <2>1. ActiveKeys(source) = << "usenetdownload_id", "usenet_id", "id" >>
        BY <1>2 DEF ActiveKeys
    <2>2. Range(ActiveKeys(source))
              = { "usenetdownload_id", "usenet_id", "id" }
        BY <2>1, ThreeKeys, Zenon
    <2>3. DOMAIN ActiveKeys(source) \subseteq Nat
        BY <2>1, ThreeKeys
    <2>4. QED
        BY <2>2, <2>3 DEF IdFields
<1>3. CASE source \notin { "torrent", "nzb", "usenet" }
    <2>1. ActiveKeys(source) = << "torrent_id", "usenetdownload_id",
                                  "usenet_id", "download_id", "id" >>
        BY <1>3 DEF ActiveKeys
    <2>2. Range(ActiveKeys(source)) = { "torrent_id", "usenetdownload_id",
                                        "usenet_id", "download_id", "id" }
        <3>1. Range(<< "torrent_id", "usenetdownload_id", "usenet_id",
                       "download_id", "id" >>)
                  = { "torrent_id", "usenetdownload_id", "usenet_id",
                      "download_id", "id" }
            BY FiveKeys
        <3>2. QED
            BY <2>1, <3>1
    <2>3. DOMAIN ActiveKeys(source) \subseteq Nat
        BY <2>1, FiveKeys
    <2>4. QED
        BY <2>2, <2>3 DEF IdFields
<1>4. QED
    BY <1>1, <1>2, <1>3

(* The same, key by key.                                                   *)
LEMMA OneOfOne ==
    ASSUME NEW item, NEW a, NEW V, "" \in V,
           a \in DOMAIN item => item[a] \in V
    PROVE  firstString(item, << a >>) \in V
<1>1. \A k \in Range(<< a >>) \cap DOMAIN item : item[k] \in V
    <2>1. Range(<< a >>) = { a }
        BY OneKey
    <2>2. QED
        BY <2>1
<1>2. DOMAIN << a >> \subseteq Nat
    BY OneKey
<1>3. QED
    BY <1>1, <1>2, OneOf, Zenon

(* Of two keys,                                                            *)
LEMMA OneOfTwo ==
    ASSUME NEW item, NEW a, NEW b, NEW V, "" \in V,
           a \in DOMAIN item => item[a] \in V,
           b \in DOMAIN item => item[b] \in V
    PROVE  firstString(item, << a, b >>) \in V
<1>1. \A k \in Range(<< a, b >>) \cap DOMAIN item : item[k] \in V
    <2>1. Range(<< a, b >>) = { a, b }
        BY TwoKeys
    <2>2. QED
        BY <2>1
<1>2. DOMAIN << a, b >> \subseteq Nat
    BY TwoKeys
<1>3. QED
    BY <1>1, <1>2, OneOf, Zenon

(* of three.                                                               *)
LEMMA OneOfThree ==
    ASSUME NEW item, NEW a, NEW b, NEW c, NEW V, "" \in V,
           a \in DOMAIN item => item[a] \in V,
           b \in DOMAIN item => item[b] \in V,
           c \in DOMAIN item => item[c] \in V
    PROVE  firstString(item, << a, b, c >>) \in V
<1>1. \A k \in Range(<< a, b, c >>) \cap DOMAIN item : item[k] \in V
    <2>1. Range(<< a, b, c >>) = { a, b, c }
        BY ThreeKeys
    <2>2. QED
        BY <2>1
<1>2. DOMAIN << a, b, c >> \subseteq Nat
    BY ThreeKeys
<1>3. QED
    BY <1>1, <1>2, OneOf, Zenon

(* A queue item has the id of the queue entry, and maybe the task's.       *)
LEMMA QueueItemSays ==
    ASSUME NEW source, NEW fields, fields \subseteq QueueFields,
           NEW item, item = [f \in fields |-> QueueField(f)]
    PROVE  /\ extractActiveID(source, item) \in { "", "t", "q" }
           /\ extractQueuedID(item) \in { "", "q" }
           /\ extractQueueAuthID(source, item) \in { "", "a" }
           /\ firstString(item, << "hash" >>) \in { "", "h" }
<1>1. /\ DOMAIN item \subseteq QueueFields
      /\ \A f \in DOMAIN item : item[f] = QueueField(f)
    OBVIOUS
<1>2. \A f \in IdFields \cap QueueFields : QueueField(f) \in { "t", "q" }
    BY DEF IdFields, QueueFields, QueueField
<1>3. /\ QueueField("queued_id") = "q" /\ QueueField("queue_id") = "q"
      /\ QueueField("id") = "q" /\ QueueField("auth_id") = "a"
      /\ QueueField("torrent_file") = "a" /\ QueueField("hash") = "h"
    BY DEF QueueField
<1>4. extractActiveID(source, item) \in { "", "t", "q" }
    <2>1. \A k \in Range(ActiveKeys(source)) \cap DOMAIN item :
             item[k] \in { "", "t", "q" }
        BY <1>1, <1>2, IdKeys
    <2>2. QED
        BY <2>1, IdKeys, OneOf DEF extractActiveID
<1>5. extractQueuedID(item) \in { "", "q" }
    <2>1. /\ "queued_id" \in DOMAIN item => item["queued_id"] \in { "", "q" }
          /\ "queue_id" \in DOMAIN item => item["queue_id"] \in { "", "q" }
          /\ "id" \in DOMAIN item => item["id"] \in { "", "q" }
          /\ "" \in { "", "q" }
        BY <1>1, <1>3
    <2>2. QED
        BY <2>1, OneOfThree, Zenon DEF extractQueuedID
<1>6. extractQueueAuthID(source, item) \in { "", "a" }
    <2>1. /\ "auth_id" \in DOMAIN item => item["auth_id"] \in { "", "a" }
          /\ "torrent_file" \in DOMAIN item
                => item["torrent_file"] \in { "", "a" }
          /\ "" \in { "", "a" }
        BY <1>1, <1>3
    <2>2. firstString(item, << "auth_id", "torrent_file" >>) \in { "", "a" }
        BY <2>1, OneOfTwo, Zenon
    <2>3. firstString(item, << "auth_id" >>) \in { "", "a" }
        BY <2>1, OneOfOne, Zenon
    <2>4. QED
        BY <2>2, <2>3, Zenon DEF extractQueueAuthID
<1>7. firstString(item, << "hash" >>) \in { "", "h" }
    <2>1. /\ "hash" \in DOMAIN item => item["hash"] \in { "", "h" }
          /\ "" \in { "", "h" }
        BY <1>1, <1>3
    <2>2. QED
        BY <2>1, OneOfOne, Zenon
<1>8. QED
    BY <1>4, <1>5, <1>6, <1>7

(* An item of the active list has the task's id, says that the content is  *)
(* there only if it is, and that the task has failed only if it has.       *)
LEMMA ActiveItemSays ==
    ASSUME NEW source, NEW fields, fields \subseteq ActiveFields,
           NEW item, item = [f \in fields |-> ActiveField(f)]
    PROVE  /\ extractActiveID(source, item) \in { "", "t" }
           /\ Range(ActiveKeys(source)) \cap fields # {}
                 => extractActiveID(source, item) = "t"
           /\ extractQueuedID(item) \in { "", "t" }
           /\ extractQueueAuthID(source, item) \in { "", "a" }
           /\ firstString(item, << "hash" >>) \in { "", "h" }
           /\ DownloadReady(item) => task.status = "ready"
           /\ Failed(item) \/ Inactive(item) => task.status = "failed"
<1>1. /\ DOMAIN item = fields /\ fields \subseteq ActiveFields
      /\ \A f \in DOMAIN item : item[f] = ActiveField(f)
    OBVIOUS
<1>2. \A f \in IdFields : ActiveField(f) = "t"
    BY DEF IdFields, ActiveField
<1>3. /\ ActiveField("auth_id") = "a" /\ ActiveField("hash") = "h"
      /\ ActiveField("id") = "t"
    BY DEF ActiveField
<1>4. /\ ActiveField("download_present") = Flag(task.status = "ready")
      /\ ActiveField("download_label")
            = IF task.status = "ready" THEN "cached" ELSE "downloading"
      /\ ActiveField("download_state")
            = IF task.status = "failed" THEN "failed" ELSE "completed"
    BY DEF ActiveField
<1>5. { "queued_id", "queue_id", "torrent_file", "download_ready", "label",
        "status", "state", "inactive" } \cap DOMAIN item = {}
    BY <1>1 DEF ActiveFields
<1>6. /\ extractActiveID(source, item) \in { "", "t" }
      /\ Range(ActiveKeys(source)) \cap fields # {}
            => extractActiveID(source, item) = "t"
    <2> DEFINE keys == ActiveKeys(source)
    <2>1. \A k \in Range(keys) \cap DOMAIN item : item[k] = "t"
        BY <1>1, <1>2, IdKeys
    <2>2. DOMAIN keys \subseteq Nat
        BY IdKeys
    <2>3. extractActiveID(source, item) = firstString(item, keys)
        BY DEF extractActiveID
    <2> HIDE DEF keys
    <2>4. firstString(item, keys) \in { "", "t" }
        <3>1. /\ "" \in { "", "t" }
              /\ \A k \in Range(keys) \cap DOMAIN item : item[k] \in { "", "t" }
            BY <2>1
        <3> QED
            BY <2>2, <3>1, OneOf, Zenon
    <2>5. Range(keys) \cap DOMAIN item # {} => firstString(item, keys) = "t"
        <3>1. "t" # ""
            OBVIOUS
        <3> QED
            BY <2>1, <2>2, <3>1, TheOne, Zenon
    <2>6. Range(keys) \cap fields # {} => firstString(item, keys) = "t"
        BY <1>1, <2>5
    <2> QED
        BY <2>3, <2>4, <2>6 DEF keys
<1>7. extractQueuedID(item) \in { "", "t" }
    <2>1. /\ "queued_id" \in DOMAIN item => item["queued_id"] \in { "", "t" }
          /\ "queue_id" \in DOMAIN item => item["queue_id"] \in { "", "t" }
          /\ "id" \in DOMAIN item => item["id"] \in { "", "t" }
          /\ "" \in { "", "t" }
        BY <1>1, <1>3, <1>5
    <2>2. QED
        BY <2>1, OneOfThree, Zenon DEF extractQueuedID
<1>8. extractQueueAuthID(source, item) \in { "", "a" }
    <2>1. /\ "auth_id" \in DOMAIN item => item["auth_id"] \in { "", "a" }
          /\ "torrent_file" \in DOMAIN item
                => item["torrent_file"] \in { "", "a" }
          /\ "" \in { "", "a" }
        BY <1>1, <1>3, <1>5
    <2>2. firstString(item, << "auth_id", "torrent_file" >>) \in { "", "a" }
        BY <2>1, OneOfTwo, Zenon
    <2>3. firstString(item, << "auth_id" >>) \in { "", "a" }
        BY <2>1, OneOfOne, Zenon
    <2>4. QED
        BY <2>2, <2>3, Zenon DEF extractQueueAuthID
<1>9. firstString(item, << "hash" >>) \in { "", "h" }
    <2>1. /\ "hash" \in DOMAIN item => item["hash"] \in { "", "h" }
          /\ "" \in { "", "h" }
        BY <1>1, <1>3
    <2>2. QED
        BY <2>1, OneOfOne, Zenon
<1> DEFINE labels == IF task.status = "ready" THEN { "", "cached" }
                     ELSE { "", "downloading" }
           states == IF task.status = "failed" THEN { "", "failed" }
                     ELSE { "", "completed" }
<1>10. firstString(item, << "download_label", "label" >>) \in labels
    <2>1. /\ "download_label" \in DOMAIN item
                => item["download_label"] \in labels
          /\ "label" \in DOMAIN item => item["label"] \in labels
          /\ "" \in labels
        BY <1>1, <1>4, <1>5
    <2> HIDE DEF labels
    <2>2. QED
        BY <2>1, OneOfTwo, Zenon
<1>11. firstString(item, << "download_state", "status", "state" >>)
          \in states
    <2>1. /\ "download_state" \in DOMAIN item
                => item["download_state"] \in states
          /\ "status" \in DOMAIN item => item["status"] \in states
          /\ "state" \in DOMAIN item => item["state"] \in states
          /\ "" \in states
        BY <1>1, <1>4, <1>5
    <2> HIDE DEF states
    <2>2. QED
        BY <2>1, OneOfThree, Zenon
<1>12. DownloadReady(item) => task.status = "ready"
    <2>1. firstString(item, << "download_label", "label" >>) \in ReadyLabels
            => task.status = "ready"
        BY <1>10 DEF ReadyLabels
    <2>2. "download_present" \in DOMAIN item
            /\ item["download_present"] = "true" => task.status = "ready"
        BY <1>1, <1>4 DEF Flag
    <2>3. "download_ready" \notin DOMAIN item
        BY <1>5
    <2>4. QED
        BY <2>1, <2>2, <2>3 DEF DownloadReady, boolField
<1>13. Failed(item) => task.status = "failed"
    <2>1. firstString(item, << "download_state", "status", "state" >>)
                \in FailureStates => task.status = "failed"
        BY <1>11 DEF FailureStates
    <2>2. firstString(item, << "download_label", "label" >>)
                \notin FailureLabels
        BY <1>10 DEF FailureLabels
    <2>3. QED
        BY <2>1, <2>2, Zenon DEF Failed
<1>14. ~ Inactive(item)
    <2>1. firstString(item, << "download_label", "label" >>) # "inactive"
        BY <1>10
    <2>2. ~ boolField(item, "inactive", FALSE)
        BY <1>5 DEF boolField
    <2>3. QED
        BY <2>1, <2>2, Zenon DEF Inactive
<1>15. QED
    BY <1>6, <1>7, <1>8, <1>9, <1>12, <1>13, <1>14

(* Another task's item has that task's identifiers.                        *)
LEMMA OtherItemSays ==
    ASSUME shape \in Shapes
    PROVE  /\ extractActiveID(shape.source, OtherItem) = "o"
           /\ firstString(OtherItem, << "hash" >>) \in { "", "oh" }
<1>1. /\ DOMAIN OtherItem = shape.active
      /\ Range(ActiveKeys(shape.source)) \cap shape.active # {}
      /\ \A f \in DOMAIN OtherItem : OtherItem[f] = OtherField(f)
    BY ShapesAssumption DEF OtherItem
<1>2. /\ \A f \in IdFields : OtherField(f) = "o"
      /\ OtherField("hash") = "oh"
    BY DEF IdFields, OtherField
<1>3. extractActiveID(shape.source, OtherItem) = "o"
    <2>1. \A k \in Range(ActiveKeys(shape.source)) \cap DOMAIN OtherItem :
             OtherItem[k] = "o"
        BY <1>1, <1>2, IdKeys
    <2>2. QED
        BY <1>1, <2>1, IdKeys, TheOne DEF extractActiveID
<1>4. firstString(OtherItem, << "hash" >>) \in { "", "oh" }
    <2>1. /\ "hash" \in DOMAIN OtherItem
                => OtherItem["hash"] \in { "", "oh" }
          /\ "" \in { "", "oh" }
        BY <1>1, <1>2
    <2>2. QED
        BY <2>1, OneOfOne, Zenon
<1>5. QED
    BY <1>3, <1>4

(***************************************************************************)
(* What a lookup finds.                                                    *)
(***************************************************************************)

(* TorBox lists this task only when it is active.                          *)
LEMMA MyListHas ==
    ASSUME shape \in Shapes, NEW id
    PROVE  /\ DOMAIN MyList(id) \subseteq Nat
           /\ \A i \in DOMAIN MyList(id) :
                 \/ MyList(id)[i] = OtherItem
                 \/ task.place = "active" /\ MyList(id)[i] = OwnItem
<1> DEFINE others == IF shape.company THEN Listed(OtherItem, id) ELSE << >>
           own == IF task.place = "active" THEN Listed(OwnItem, id)
                  ELSE << >>
<1>1. MyList(id) = others \o own
    BY DEF MyList
<1>2. \A item : Listed(item, id) \in { << >>, << item >> }
    BY DEF Listed
<1>3. \/ others = << >>
      \/ others = << OtherItem >>
    BY <1>2
<1>4. \/ own = << >>
      \/ task.place = "active" /\ own = << OwnItem >>
    BY <1>2
<1> HIDE DEF others, own
<1>5. CASE others = << >> /\ own = << >>
    <2>1. MyList(id) = << >>
        BY <1>1, <1>5
    <2>2. DOMAIN MyList(id) = {}
        BY <2>1
    <2>3. QED
        BY <2>2
<1>6. CASE others = << >> /\ own = << OwnItem >>
    BY <1>1, <1>4, <1>6
<1>7. CASE others = << OtherItem >> /\ own = << >>
    BY <1>1, <1>7
<1>8. CASE others = << OtherItem >> /\ own = << OwnItem >>
    <2>1. ASSUME NEW S, NEW a \in S, NEW b \in S
          PROVE  /\ DOMAIN (<< a >> \o << b >>) = {1, 2}
                 /\ (<< a >> \o << b >>)[1] = a
                 /\ (<< a >> \o << b >>)[2] = b
        <3>1. /\ << a >> \in Seq(S) /\ Len(<< a >>) = 1
              /\ << b >> \in Seq(S) /\ Len(<< b >>) = 1
              /\ << a >>[1] = a /\ << b >>[1] = b
            OBVIOUS
        <3>2. QED
            BY <3>1
    <2>2. /\ DOMAIN MyList(id) = {1, 2}
          /\ MyList(id)[1] = OtherItem /\ MyList(id)[2] = OwnItem
        <3>1. /\ OtherItem \in { OtherItem, OwnItem }
              /\ OwnItem \in { OtherItem, OwnItem }
            OBVIOUS
        <3>2. MyList(id) = << OtherItem >> \o << OwnItem >>
            BY <1>1, <1>8, Zenon
        <3>3. /\ DOMAIN (<< OtherItem >> \o << OwnItem >>) = {1, 2}
              /\ (<< OtherItem >> \o << OwnItem >>)[1] = OtherItem
              /\ (<< OtherItem >> \o << OwnItem >>)[2] = OwnItem
            BY <2>1, <3>1
        <3>4. QED
            BY <3>2, <3>3, Zenon
    <2>3. task.place = "active"
        BY <1>4, <1>8
    <2>4. \A i \in DOMAIN MyList(id) :
             \/ MyList(id)[i] = OtherItem
             \/ task.place = "active" /\ MyList(id)[i] = OwnItem
        <3>1. TAKE i \in DOMAIN MyList(id)
        <3>2. i = 1 \/ i = 2
            BY <2>2
        <3>3. QED
            BY <2>2, <2>3, <3>2, Zenon
    <2>5. DOMAIN MyList(id) \subseteq Nat
        BY <2>2
    <2>6. QED
        BY <2>4, <2>5, Zenon
<1>9. QED
    BY <1>3, <1>4, <1>5, <1>6, <1>7, <1>8

(* FindActiveTask finds this task, and then it is active, or none.         *)
LEMMA FindsOwn ==
    ASSUME shape \in Shapes, NEW id, NEW ids,
           ids.remoteID # "o", ids.hash \in { "", "h" },
           NEW status, status = FindActiveTask(shape.source, MyList(id), ids)
    PROVE  \/ status = NoStatus
           \/ /\ task.place = "active"
              /\ status = parseTaskStatus(shape.source, OwnItem)
<1> DEFINE items == MyList(id)
           hits == { i \in DOMAIN items :
                        Matches(shape.source, items[i], ids) }
<1>1. shape.source # "usenet"
    BY ShapesAssumption
<1>2. ~ Matches(shape.source, OtherItem, ids)
    BY <1>1, OtherItemSays DEF Matches
<1>3. DOMAIN items \subseteq Nat
    BY MyListHas
<1>4. status = FirstStatus(shape.source, items, hits)
    BY DEF FindActiveTask
<1>5. CASE hits = {}
    BY <1>4, <1>5 DEF FirstStatus
<1>6. CASE hits # {}
    <2>1. hits \subseteq DOMAIN items
        OBVIOUS
    <2>2. hits \in SUBSET Nat
        BY <1>3, <2>1
    <2>3. Min(hits) \in hits
        BY <1>6, <2>2, MinIn
    <2>4. /\ Min(hits) \in DOMAIN items
          /\ Matches(shape.source, items[Min(hits)], ids)
        BY <2>3
    <2>5. /\ items[Min(hits)] = OwnItem
          /\ task.place = "active"
        BY <1>2, <2>4, MyListHas
    <2>6. status = parseTaskStatus(shape.source, items[Min(hits)])
        BY <1>4, <1>6 DEF FirstStatus
    <2>7. QED
        BY <2>5, <2>6
<1>7. QED
    BY <1>5, <1>6

(* What is then known of the task.                                         *)
LEMMA OwnStatus ==
    ASSUME shape \in Shapes,
           NEW status, status = parseTaskStatus(shape.source, OwnItem)
    PROVE  /\ status.found = TRUE
           /\ status.remoteID = "t"
           /\ status.authID \in { "", "a" } /\ status.hash \in { "", "h" }
           /\ status.ready => task.status = "ready"
           /\ status.over => task.status = "failed"
<1>1. /\ OwnItem = [f \in shape.active |-> ActiveField(f)]
      /\ shape.active \subseteq ActiveFields
      /\ Range(ActiveKeys(shape.source)) \cap shape.active # {}
    BY ShapesAssumption DEF OwnItem
<1>2. /\ extractActiveID(shape.source, OwnItem) = "t"
      /\ extractQueueAuthID(shape.source, OwnItem) \in { "", "a" }
      /\ firstString(OwnItem, << "hash" >>) \in { "", "h" }
      /\ DownloadReady(OwnItem) => task.status = "ready"
      /\ Failed(OwnItem) \/ Inactive(OwnItem) => task.status = "failed"
    BY <1>1, ActiveItemSays
<1>3. /\ status.found = TRUE
      /\ status.remoteID = extractActiveID(shape.source, OwnItem)
      /\ status.authID = extractQueueAuthID(shape.source, OwnItem)
      /\ status.hash = firstString(OwnItem, << "hash" >>)
      /\ status.ready = DownloadReady(OwnItem)
      /\ status.over = (Failed(OwnItem) \/ Inactive(OwnItem))
    BY DEF parseTaskStatus
<1>4. QED
    BY <1>2, <1>3, Zenon

(* The queue is asked for what it has of this task.                        *)
LEMMA QueueAnswerSays ==
    ASSUME shape \in Shapes, QueueAnswer.found
    PROVE  /\ QueueAnswer.remoteID \in QueuedTaskIDs(shape)
           /\ QueueAnswer.remoteID \in { "", "t", "q" }
           /\ QueueAnswer.authID \in { "", "a" }
           /\ QueueAnswer.hash \in { "", "h" }
<1> DEFINE hits == { i \in DOMAIN Queue :
                        extractQueuedID(Queue[i]) = copy.queuedID }
<1>1. NoStatus.found = FALSE
    BY DEF NoStatus
<1>2. QueueAnswer = FirstStatus(shape.source, Queue, hits)
    BY <1>1 DEF QueueAnswer, GetQueuedStatus
<1>3. hits # {}
    BY <1>1, <1>2 DEF FirstStatus
<1>4. PICK fields \in { shape.queue, shape.leaving } :
         Queue = << [f \in fields |-> QueueField(f)] >>
    <2>1. Queue # << >>
        BY <1>3
    <2>2. QED
        BY <2>1 DEF Queue
<1> DEFINE item == [f \in fields |-> QueueField(f)]
<1>5. DOMAIN Queue = {1} /\ Queue[1] = item
    BY <1>4
<1>6. Min(hits) \in hits
    <2>1. hits \subseteq DOMAIN Queue
        OBVIOUS
    <2>2. hits \in SUBSET Nat
        BY <1>5, <2>1
    <2>3. QED
        BY <1>3, <2>2, MinIn
<1>7. Min(hits) = 1
    BY <1>5, <1>6
<1>8. QueueAnswer = parseTaskStatus(shape.source, item)
    BY <1>2, <1>3, <1>5, <1>7 DEF FirstStatus
<1>9. /\ QueueAnswer.remoteID = extractActiveID(shape.source, item)
      /\ QueueAnswer.authID = extractQueueAuthID(shape.source, item)
      /\ QueueAnswer.hash = firstString(item, << "hash" >>)
    BY <1>8 DEF parseTaskStatus
<1>10. fields \subseteq QueueFields
    BY ShapesAssumption
<1>11. extractActiveID(shape.source, item) \in QueuedTaskIDs(shape)
    BY DEF QueuedTaskIDs, TaskID
<1>12. /\ extractActiveID(shape.source, item) \in { "", "t", "q" }
       /\ extractQueueAuthID(shape.source, item) \in { "", "a" }
       /\ firstString(item, << "hash" >>) \in { "", "h" }
    BY <1>10, QueueItemSays
<1>13. QED
    BY <1>9, <1>11, <1>12, Zenon

(***************************************************************************)
(* The row.                                                                *)
(***************************************************************************)

(* Identifiers of this task and of its queue entry.                        *)
OwnIds ==
    [ state : { "submit_pending", "submit_retry", "remote_queued",
                "remote_active", "local_download_pending",
                "remote_failed" },
      remoteID : { "", "t", "q" }, queuedID : { "", "t", "q" },
      authID : { "", "a" }, hash : { "", "h" } ]

(* What row r says of its task is true of task t, with answers like s, and *)
(* with calls refused or not.                                              *)
Fits(r, t, s, givenUp) ==
    /\ r \in OwnIds
    /\ r.state = "local_download_pending" =>
            r.remoteID = "t" /\ t.status = "ready"
    /\ DistinctIds(s) => r.remoteID # "q"
    /\ r.state = "remote_failed" => t.status = "failed" \/ givenUp

Tasks == [ place : { "none", "queue", "between", "active" },
           status : { "running", "finished", "ready", "failed" } ]

(* While a lookup is under way the copy is the row.                        *)
RemoteInv ==
    /\ task \in Tasks /\ shape \in Shapes
    /\ pc \in { "idle", "queue", "recover", "find", "status" }
    /\ hiccups \in 0..MaxHiccups
    /\ copy \in OwnIds
    /\ refused \in BOOLEAN
    /\ Fits(job, task, shape, refused)
    /\ pc # "idle" =>
            copy = job /\ job.state \in { "remote_queued", "remote_active" }

(* applyActiveStatus with this task's status.                              *)
LEMMA ApplyFits ==
    ASSUME shape \in Shapes, NEW row, Fits(row, task, shape, refused),
           task.place = "active",
           NEW status, status = parseTaskStatus(shape.source, OwnItem)
    PROVE  Fits(Apply(row, status), task, shape, refused)
<1>1. /\ status.remoteID = "t"
      /\ status.authID \in { "", "a" } /\ status.hash \in { "", "h" }
      /\ status.ready => task.status = "ready"
      /\ status.over => task.status = "failed"
    BY OwnStatus
<1>2. row \in OwnIds
    BY DEF Fits
<1> DEFINE after == Apply(row, status)
<1>3. /\ after.remoteID = "t"
      /\ after.authID \in { "", "a" } /\ after.hash \in { "", "h" }
      /\ after.queuedID \in { "", "t", "q" }
      /\ after = [ state |-> after.state, remoteID |-> after.remoteID,
                   authID |-> after.authID, hash |-> after.hash,
                   queuedID |-> after.queuedID ]
    BY <1>1, <1>2 DEF Apply, Or, OwnIds
<1>4. /\ after.state \in { "local_download_pending", "remote_failed",
                            "remote_active" }
      /\ after.state = "local_download_pending" => status.ready
      /\ after.state = "remote_failed" => status.over
    BY DEF Apply
<1> HIDE DEF after
<1>5. after \in OwnIds
    BY <1>3, <1>4 DEF OwnIds
<1>6. Fits(after, task, shape, refused)
    BY <1>1, <1>3, <1>4, <1>5 DEF Fits
<1>7. QED
    BY <1>6 DEF after

(* What an answer says of the task.                                        *)
LEMMA AnswerIs ==
    ASSUME NEW remoteID, NEW authID, NEW hash,
           NEW answer \in Answers(remoteID, authID, hash)
    PROVE  answer.status =
                FindActiveTask(shape.source, MyList(remoteID),
                               [ remoteID |-> remoteID, authID |-> authID,
                                 hash |-> hash ])
<1> DEFINE ids == [remoteID |-> remoteID, authID |-> authID, hash |-> hash]
           status == FindActiveTask(shape.source, MyList(remoteID), ids)
<1>1. PICK refusal \in BOOLEAN :
         answer = [ rejected |-> refusal \/ Rejected(MyList(remoteID)),
                    status |-> status ]
    BY DEF Answers
<1> HIDE DEF status
<1>2. answer.status = status
    BY <1>1
<1>3. QED
    BY <1>2, Zenon DEF status

(* An answer is about this task, or about none.                            *)
LEMMA FollowedFits ==
    ASSUME shape \in Shapes, NEW row, Fits(row, task, shape, refused),
           NEW remoteID, NEW authID, NEW hash,
           remoteID # "o", hash \in { "", "h" },
           NEW answer \in Answers(remoteID, authID, hash)
    PROVE  Fits(Followed(row, answer), task, shape, refused)
<1> DEFINE ids == [remoteID |-> remoteID, authID |-> authID, hash |-> hash]
<1>1. answer.status = FindActiveTask(shape.source, MyList(remoteID), ids)
    BY AnswerIs, Zenon
<1>2. ids.remoteID # "o" /\ ids.hash \in { "", "h" }
    OBVIOUS
<1>3. \/ answer.status = NoStatus
      \/ /\ task.place = "active"
         /\ answer.status = parseTaskStatus(shape.source, OwnItem)
    BY <1>1, <1>2, FindsOwn
<1>4. CASE answer.status = NoStatus
    <2>1. NoStatus.found = FALSE
        BY DEF NoStatus
    <2>2. Followed(row, answer) = row
        BY <1>4, <2>1 DEF Followed
    <2>3. QED
        BY <2>2
<1>5. CASE /\ task.place = "active"
           /\ answer.status = parseTaskStatus(shape.source, OwnItem)
    BY <1>5, ApplyFits DEF Followed
<1>6. QED
    BY <1>3, <1>4, <1>5

(* Only a refused call gives the job up otherwise.                         *)
LEMMA OutcomeFits ==
    ASSUME shape \in Shapes, NEW row, Fits(row, task, shape, refused),
           row.state \in { "remote_queued", "remote_active" },
           NEW authID, NEW hash, hash \in { "", "h" },
           NEW answer \in Answers(row.remoteID, authID, hash)
    PROVE  Fits(Outcome(row, answer), task, shape,
                refused \/ answer.rejected)
<1>1. row \in OwnIds /\ row.remoteID # "o"
    BY DEF Fits, OwnIds
<1>2. CASE ~ answer.rejected
    <2>1. Fits(Followed(row, answer), task, shape, refused)
        BY <1>1, FollowedFits
    <2>2. QED
        BY <1>2, <2>1 DEF Outcome, Fits
<1>3. CASE answer.rejected
    <2>1. /\ GivenUp(row) \in OwnIds
          /\ GivenUp(row).state = "remote_failed"
          /\ GivenUp(row).remoteID = row.remoteID
        BY <1>1 DEF GivenUp, OwnIds
    <2>2. Fits(GivenUp(row), task, shape, refused \/ answer.rejected)
        BY <1>3, <2>1 DEF Fits
    <2>3. QED
        BY <1>3, <2>2 DEF Outcome
<1>4. QED
    BY <1>2, <1>3

(* A job that was not submitted has no identifiers.                        *)
LEMMA RemoteInit == Init => RemoteInv
<1> SUFFICES ASSUME Init
             PROVE  RemoteInv
    OBVIOUS
<1>1. /\ job \in OwnIds /\ copy = job
      /\ job.state = "submit_pending" /\ job.remoteID = ""
    BY DEF Init, OwnIds
<1>2. Fits(job, task, shape, refused)
    BY <1>1 DEF Fits
<1>3. task \in Tasks /\ shape \in Shapes /\ pc = "idle" /\ refused = FALSE
    BY DEF Init, Tasks
<1>4. hiccups \in 0..MaxHiccups
    <2>1. hiccups = 0 /\ MaxHiccups \in Nat
        BY TrackingAssumption DEF Init
    <2>2. QED
        BY <2>1
<1>5. QED
    BY <1>1, <1>2, <1>3, <1>4 DEF RemoteInv

(* Once active a task stays active, and once over it stays as it is.       *)
LEMMA TorBoxKeeps ==
    ASSUME RemoteInv, TorBoxStep
    PROVE  RemoteInv'
<1>1. /\ task' \in Tasks
      /\ task.place = "active" => task'.place = "active"
      /\ task.status \in { "ready", "failed" } => task'.status = task.status
    BY DEF RemoteInv, TorBoxStep, Tasks
<1>2. /\ shape' = shape /\ job' = job /\ copy' = copy /\ pc' = pc
      /\ hiccups' = hiccups /\ refused' = refused
    BY DEF TorBoxStep
<1>3. Fits(job, task', shape, refused)
    BY <1>1 DEF RemoteInv, Fits
<1>4. QED
    BY <1>1, <1>2, <1>3 DEF RemoteInv

(* What an answer to a creation may name.                                  *)
Said(response) ==
    /\ response.remoteID \in { "", "t", "q" }
    /\ response.queuedID \in { "", "t", "q" }
    /\ response.authID \in { "", "a" }
    /\ response.hash \in { "", "h" }
    /\ DistinctIds(shape) => response.remoteID # "q"

(* A queued task is named by its queue item, an active one by its own, or  *)
(* either by a bare id.                                                    *)
LEMMA CreateSays ==
    ASSUME shape \in Shapes, NEW place \in { "none", "queue", "active" }
    PROVE  Said(parseCreateTask(CreateData(place)))
<1> DEFINE data == CreateData(place)
           response == parseCreateTask(data)
<1>1. /\ shape.create \subseteq QueueFields
      /\ shape.started \subseteq ActiveFields
      /\ shape.bare \subseteq { "queue", "active" }
    BY ShapesAssumption
<1>2. ASSUME NEW item, data = [kind |-> "object", value |-> item]
      PROVE  /\ response.remoteID = extractActiveID("", item)
             /\ response.queuedID = extractQueuedID(item)
             /\ response.authID = extractQueueAuthID("", item)
             /\ response.hash = firstString(item, << "hash" >>)
    <2> HIDE DEF data
    <2>1. data.kind = "object" /\ data.value = item
        BY <1>2
    <2>2. response =
             [ remoteID |-> extractActiveID("", item),
               queuedID |-> extractQueuedID(item),
               authID |-> extractQueueAuthID("", item),
               hash |-> firstString(item, << "hash" >>) ]
        BY <2>1 DEF parseCreateTask
    <2> HIDE DEF response
    <2>3. QED
        BY <2>2
<1>3. CASE place = "none"
    <2>1. data = [kind |-> "none"]
        BY <1>1, <1>3 DEF CreateData
    <2> HIDE DEF data
    <2>2. data.kind = "none"
        BY <2>1
    <2>3. response = NoIds
        BY <2>2 DEF parseCreateTask
    <2> HIDE DEF response
    <2>4. Said(response)
        BY <2>3 DEF NoIds, Said
    <2>5. QED
        BY <2>4 DEF response, data
<1>4. CASE place # "none" /\ place \in shape.bare
    <2>1. data = [ kind |-> "bare",
                   value |-> IF place = "queue" THEN "q" ELSE "t" ]
        BY <1>4 DEF CreateData
    <2> HIDE DEF data
    <2>2. /\ data.kind = "bare"
          /\ data.value = IF place = "queue" THEN "q" ELSE "t"
        BY <2>1
    <2>3. response = [NoIds EXCEPT !.remoteID = data.value]
        BY <2>2 DEF parseCreateTask
    <2>4. DistinctIds(shape) => place # "queue"
        BY <1>4 DEF DistinctIds, QueuedTaskIDs
    <2> HIDE DEF response
    <2>5. Said(response)
        BY <2>2, <2>3, <2>4 DEF NoIds, Said
    <2>6. QED
        BY <2>5 DEF response, data
<1>5. CASE place = "queue" /\ place \notin shape.bare
    <2> DEFINE item == [f \in shape.create |-> QueueField(f)]
    <2>1. data = [kind |-> "object", value |-> item]
        BY <1>5 DEF CreateData
    <2>2. /\ extractActiveID("", item) \in { "", "t", "q" }
          /\ extractQueuedID(item) \in { "", "q" }
          /\ extractQueueAuthID("", item) \in { "", "a" }
          /\ firstString(item, << "hash" >>) \in { "", "h" }
        BY <1>1, QueueItemSays
    <2>3. DistinctIds(shape) => extractActiveID("", item) # "q"
        BY <1>5 DEF DistinctIds, QueuedTaskIDs, TaskID
    <2> HIDE DEF item, data, response
    <2>4. Said(response)
        BY <1>2, <2>1, <2>2, <2>3 DEF Said
    <2>5. QED
        BY <2>4 DEF response, data
<1>6. CASE place = "active" /\ place \notin shape.bare
    <2> DEFINE item == [f \in shape.started |-> ActiveField(f)]
    <2>1. data = [kind |-> "object", value |-> item]
        BY <1>6 DEF CreateData
    <2>2. /\ extractActiveID("", item) \in { "", "t" }
          /\ extractQueuedID(item) \in { "", "t" }
          /\ extractQueueAuthID("", item) \in { "", "a" }
          /\ firstString(item, << "hash" >>) \in { "", "h" }
        BY <1>1, ActiveItemSays
    <2> HIDE DEF item, data, response
    <2>3. Said(response)
        BY <1>2, <2>1, <2>2 DEF Said
    <2>4. QED
        BY <2>3 DEF response, data
<1>7. QED
    BY <1>3, <1>4, <1>5, <1>6

(* The row takes its identifiers from that answer.                         *)
LEMMA AdoptFits ==
    ASSUME NEW response, Said(response), NEW t
    PROVE  Fits(Adopt(job, response), t, shape, refused)
<1> DEFINE row == Adopt(job, response)
<1>1. /\ row.state \in { "submit_retry", "remote_active", "remote_queued" }
      /\ row.remoteID = response.remoteID
    BY DEF Adopt
<1>2. row \in OwnIds
    BY DEF Adopt, OwnIds, Said
<1> HIDE DEF row
<1>3. Fits(row, t, shape, refused)
    BY <1>1, <1>2 DEF Fits, Said
<1>4. QED
    BY <1>3 DEF row

(* What a queued or a started task is adopted with; a refused creation is  *)
(* a refused call.                                                         *)
LEMMA SubmitKeeps ==
    ASSUME RemoteInv, Submit
    PROVE  RemoteInv'
<1>1. /\ job.state \in { "submit_pending", "submit_retry" }
      /\ pc = "idle" /\ pc' = pc
      /\ shape' = shape /\ copy' = copy
      /\ shape \in Shapes /\ task \in Tasks /\ job \in OwnIds
    BY DEF RemoteInv, Submit, Fits
<1>2. ASSUME NEW place \in { "none", "queue", "active" }, Created(place)
      PROVE  RemoteInv'
    <2> DEFINE response == parseCreateTask(CreateData(place))
    <2>1. Said(response)
        BY <1>1, CreateSays
    <2> HIDE DEF response
    <2>2. /\ job' = Adopt(job, response) /\ refused' = refused
          /\ \/ Hiccup /\ task' = task
             \/ task' = [task EXCEPT !.place = place] /\ hiccups' = hiccups
        BY <1>2 DEF Created, response
    <2>3. Fits(job', task', shape, refused)
        BY <2>1, <2>2, AdoptFits, Zenon
    <2>4. task' \in Tasks
        BY <1>1, <2>2 DEF Tasks
    <2>5. hiccups' \in 0..MaxHiccups
        BY <2>2, TrackingAssumption DEF RemoteInv, Hiccup
    <2>6. QED
        BY <1>1, <2>2, <2>3, <2>4, <2>5 DEF RemoteInv
<1>3. CASE CreateRefused
    <2>1. /\ job' = GivenUp(job) /\ refused' = TRUE
          /\ task' = task /\ hiccups' = hiccups
        BY <1>3 DEF CreateRefused
    <2>2. /\ job' \in OwnIds /\ job'.state = "remote_failed"
          /\ job'.remoteID = job.remoteID
        BY <1>1, <2>1 DEF GivenUp, OwnIds
    <2>3. Fits(job', task', shape, refused')
        BY <2>1, <2>2 DEF RemoteInv, Fits
    <2>4. QED
        BY <1>1, <2>1, <2>3 DEF RemoteInv
<1>4. QED
    BY <1>2, <1>3 DEF Submit

(* A row that fits may be written at the end of a lookup.                  *)
LEMMA WriteKeeps ==
    ASSUME RemoteInv, UNCHANGED remote, hiccups' \in 0..MaxHiccups,
           job' = copy', pc' \in { "idle", "find" },
           refused' \in BOOLEAN, Fits(job', task, shape, refused'),
           pc' = "find" => job'.state = "remote_active"
    PROVE  RemoteInv'
<1>1. /\ task' = task /\ shape' = shape
      /\ task \in Tasks /\ shape \in Shapes
    BY DEF RemoteInv, remote
<1>2. job' \in OwnIds
    BY DEF Fits
<1>3. QED
    BY <1>1, <1>2 DEF RemoteInv

(* A retryable error is counted.                                           *)
LEMMA HiccupCounted ==
    ASSUME RemoteInv, Hiccup \/ UNCHANGED hiccups
    PROVE  hiccups' \in 0..MaxHiccups
    BY TrackingAssumption DEF RemoteInv, Hiccup

(* By task id, and by hash (PollStatus, PollRecover).                      *)
LEMMA LookupKeeps ==
    ASSUME RemoteInv, NEW label, label # "idle", NEW authID,
           NEW hash, hash \in { "", "h" },
           Lookup(label, copy.remoteID, authID, hash)
    PROVE  RemoteInv'
<1>1. /\ copy = job /\ job.state \in { "remote_queued", "remote_active" }
      /\ Fits(copy, task, shape, refused) /\ shape \in Shapes
      /\ UNCHANGED remote /\ refused \in BOOLEAN
    BY DEF RemoteInv, Lookup, Calling
<1>2. hiccups' \in 0..MaxHiccups
    BY HiccupCounted DEF Lookup
<1>3. CASE WriteRow(copy) /\ UNCHANGED refused
    BY <1>1, <1>2, <1>3, WriteKeeps DEF WriteRow
<1>4. CASE \E answer \in Answers(copy.remoteID, authID, hash) :
              /\ WriteRow(Outcome(copy, answer))
              /\ refused' = (refused \/ answer.rejected)
    <2>1. PICK answer \in Answers(copy.remoteID, authID, hash) :
             /\ WriteRow(Outcome(copy, answer))
             /\ refused' = (refused \/ answer.rejected)
        BY <1>4
    <2>2. Fits(Outcome(copy, answer), task, shape,
               refused \/ answer.rejected)
        BY <1>1, OutcomeFits
    <2>3. Fits(job', task, shape, refused')
        BY <2>1, <2>2 DEF WriteRow, Fits
    <2>4. refused' \in BOOLEAN
        BY <2>1
    <2>5. QED
        BY <1>1, <1>2, <2>1, <2>3, <2>4, WriteKeeps DEF WriteRow
<1>5. QED
    BY <1>3, <1>4 DEF Lookup

(* What the queue says of the task.                                        *)
LEMMA PollQueueKeeps ==
    ASSUME RemoteInv, PollQueue
    PROVE  RemoteInv'
<1> DEFINE status == QueueAnswer
<1>1. /\ pc = "queue" /\ copy = job /\ Fits(copy, task, shape, refused)
      /\ job.state \in { "remote_queued", "remote_active" }
      /\ copy \in OwnIds /\ shape \in Shapes /\ UNCHANGED remote
      /\ hiccups' = hiccups /\ refused' = refused
      /\ hiccups \in 0..MaxHiccups /\ refused \in BOOLEAN
    BY DEF RemoteInv, PollQueue, Calling
<1>2. StillQueued(status) \/ Promote(status) \/ NotQueued
    BY DEF PollQueue
<1>3. status.found
        => /\ Learnt(copy, status) \in OwnIds
           /\ Learnt(copy, status).state = copy.state
           /\ Learnt(copy, status).remoteID = copy.remoteID
    <2>1. SUFFICES ASSUME status.found
                   PROVE  /\ Learnt(copy, status) \in OwnIds
                          /\ Learnt(copy, status).state = copy.state
                          /\ Learnt(copy, status).remoteID = copy.remoteID
        OBVIOUS
    <2>2. status.authID \in { "", "a" } /\ status.hash \in { "", "h" }
        BY <1>1, <2>1, QueueAnswerSays
    <2> HIDE DEF status
    <2>3. copy.authID \in { "", "a" } /\ copy.hash \in { "", "h" }
        BY <1>1 DEF OwnIds
    <2>4. /\ Or(status.authID, copy.authID) \in { "", "a" }
          /\ Or(status.hash, copy.hash) \in { "", "h" }
        BY <2>2, <2>3 DEF Or
    <2>5. QED
        BY <1>1, <2>4 DEF Learnt, OwnIds
<1>4. CASE StillQueued(status)
    <2>1. /\ status.found /\ job' = Learnt(copy, status) /\ copy' = job'
          /\ pc' = "idle"
        BY <1>4 DEF StillQueued, WriteRow
    <2>2. Fits(job', task, shape, refused)
        BY <1>1, <1>3, <2>1 DEF Fits
    <2>3. QED
        BY <1>1, <2>1, <2>2, WriteKeeps
<1>5. CASE Promote(status)
    <2>1. /\ status.found /\ status.remoteID # ""
          /\ job' = [Learnt(copy, status) EXCEPT
                        !.state = "remote_active",
                        !.remoteID = status.remoteID]
          /\ copy' = job' /\ pc' = "find"
        BY <1>5 DEF Promote
    <2>2. /\ status.remoteID \in QueuedTaskIDs(shape)
          /\ status.remoteID \in { "", "t", "q" }
        BY <1>1, <2>1, QueueAnswerSays
    <2>3. DistinctIds(shape) => status.remoteID # "q"
        BY <2>2 DEF DistinctIds
    <2>4. /\ job' \in OwnIds /\ job'.state = "remote_active"
          /\ job'.remoteID = status.remoteID
        BY <1>3, <2>1, <2>2 DEF OwnIds
    <2>5. Fits(job', task, shape, refused)
        BY <2>3, <2>4 DEF Fits
    <2>6. QED
        BY <1>1, <2>1, <2>4, <2>5, WriteKeeps
<1>6. CASE NotQueued
    <2>1. /\ pc' = "recover"
          /\ job' = job /\ copy' = copy
        BY <1>6 DEF NotQueued
    <2>2. task' = task /\ shape' = shape
        BY <1>1 DEF remote
    <2>3. QED
        BY <1>1, <2>1, <2>2 DEF RemoteInv
<1>7. QED
    BY <1>2, <1>4, <1>5, <1>6

(* FindActiveTask after a promotion.                                       *)
LEMMA PollFindKeeps ==
    ASSUME RemoteInv, PollFind
    PROVE  RemoteInv'
<1>1. /\ copy = job /\ Fits(copy, task, shape, refused)
      /\ job.state \in { "remote_queued", "remote_active" }
      /\ copy.remoteID # "o" /\ copy.hash \in { "", "h" }
      /\ shape \in Shapes /\ UNCHANGED remote
      /\ hiccups' = hiccups /\ refused' = refused
      /\ hiccups \in 0..MaxHiccups /\ refused \in BOOLEAN
    BY DEF RemoteInv, PollFind, Calling, OwnIds
<1>2. PICK answer \in Answers(copy.remoteID, copy.authID, copy.hash) :
         WriteRow(IF answer.rejected THEN copy ELSE Followed(copy, answer))
    BY DEF PollFind
<1>3. Fits(Followed(copy, answer), task, shape, refused)
    BY <1>1, FollowedFits
<1>4. Fits(job', task, shape, refused)
    BY <1>1, <1>2, <1>3 DEF WriteRow
<1>5. QED
    BY <1>1, <1>2, <1>4, WriteKeeps DEF WriteRow

(* Every step keeps the invariant.                                         *)
LEMMA RemoteStep == RemoteInv /\ [Next]_vars => RemoteInv'
<1> SUFFICES ASSUME RemoteInv, [Next]_vars
             PROVE  RemoteInv'
    OBVIOUS
<1>1. copy.hash \in { "", "h" }
    BY DEF RemoteInv, OwnIds
<1>2. CASE UNCHANGED << remote, job, copy, pc, hiccups, refused >>
    BY <1>2 DEF RemoteInv, remote
<1>3. CASE TorBoxStep
    BY <1>3, TorBoxKeeps
<1>4. CASE Submit
    BY <1>4, SubmitKeeps
<1>5. CASE PollerStep
    <2>1. CASE Begin
        <3>1. /\ UNCHANGED remote /\ job' = job /\ hiccups' = hiccups
              /\ refused' = refused
              /\ copy' = job /\ pc' \in { "queue", "status" }
              /\ job.state \in { "remote_queued", "remote_active" }
              /\ job \in OwnIds
            BY <2>1 DEF RemoteInv, Begin, Fits
        <3>2. QED
            BY <3>1 DEF RemoteInv, remote
    <2>2. CASE PollerWaits
        BY <1>2, <2>2 DEF PollerWaits
    <2>3. CASE PollerStops
        BY <2>3 DEF RemoteInv, PollerStops, remote
    <2>4. CASE PollQueue
        BY <2>4, PollQueueKeeps
    <2>5. CASE PollRecover
        BY <1>1, <2>5, LookupKeeps DEF PollRecover
    <2>6. CASE PollFind
        BY <2>6, PollFindKeeps
    <2>7. CASE PollStatus
        BY <2>7, LookupKeeps DEF PollStatus
    <2>8. QED
        BY <1>5, <2>1, <2>2, <2>3, <2>4, <2>5, <2>6, <2>7 DEF PollerStep
<1>6. CASE DownloaderCalls \/ DownloaderGoesOn \/ Refill \/ Shutdown
    BY <1>2, <1>6 DEF DownloaderCalls, DownloaderGoesOn, Refill, Shutdown
<1>7. CASE UNCHANGED vars
    BY <1>2, <1>7 DEF vars, remote
<1>8. QED
    BY <1>3, <1>4, <1>5, <1>6, <1>7 DEF Next

(* The row is about this task whatever TorBox answers (poll.go, parse.go). *)
LEMMA RemoteInvHolds == Spec => []RemoteInv
    BY RemoteInit, RemoteStep, PTL DEF Spec

(* Wherever the poller is, in the middle of a call or in line for a token, *)
(* what the job knows of TorBox came from this task or from its queue      *)
(* entry (submit.go, poll.go), and nobody is in line twice (limiter.go).   *)
THEOREM RemoteTyping == Spec => []TypeOK
<1>1. RateInv /\ RemoteInv => TypeOK
    <2>1. OwnIds \subseteq Ids
        BY DEF OwnIds, Ids
    <2>2. QED
        BY <2>1 DEF RateInv, RemoteInv, Fits, Tasks, TypeOK
<1>2. QED
    BY RateInvHolds, RemoteInvHolds, <1>1, PTL

(* With answers in which no bare id of a queue item is taken for the id of *)
(* a task, the job follows its own task only, and is downloaded only when  *)
(* that is ready (parse.go, extractActiveID; tasks.go, FindActiveTask).    *)
THEOREM RightTaskKept == Spec => [](DistinctIds(shape) => RightTask)
<1>1. RemoteInv => (DistinctIds(shape) => RightTask)
    BY DEF RemoteInv, Fits, OwnIds, RightTask
<1>2. QED
    BY RemoteInvHolds, <1>1, PTL

(* Whatever TorBox answers, a job is given up only if its task has failed  *)
(* or a call was refused for good, however the lookups, their retryable    *)
(* errors and TorBox's moves interleave (poll.go, the error returns of     *)
(* processPollJob and tryRecoverActiveStatus; submit.go).                  *)
THEOREM GivenUpRightly == Spec => []NotGivenUp
<1>1. RemoteInv => NotGivenUp
    BY DEF RemoteInv, Fits, NotGivenUp
<1>2. QED
    BY RemoteInvHolds, <1>1, PTL
=============================================================================
