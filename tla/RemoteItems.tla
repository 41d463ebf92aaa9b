----------------------------- MODULE RemoteItems -----------------------------
(***************************************************************************)
(* What TorBox's answers are taken to mean: internal/torbox/parse.go and   *)
(* the matching in internal/torbox/tasks.go.  An item is a JSON object: a  *)
(* function on the fields it has.  Values are strings; a flag is "true" or *)
(* "false", which boolField accepts.                                       *)
(***************************************************************************)
EXTENDS Naturals, Sequences, FiniteSetsExt

(* The first field that is there and not empty.                            *)
firstString(item, keys) ==
    LET hits == { i \in DOMAIN keys :
                    keys[i] \in DOMAIN item /\ item[keys[i]] # "" }
    IN  IF hits = {} THEN "" ELSE item[keys[Min(hits)]]

extractQueuedID(item) ==
    firstString(item, << "queued_id", "queue_id", "id" >>)

(* Every caller allows the generic id.                                     *)
ActiveKeys(sourceType) ==
    CASE sourceType = "torrent" -> << "torrent_id", "download_id", "id" >>
      [] sourceType \in { "nzb", "usenet" } ->
            << "usenetdownload_id", "usenet_id", "id" >>
      [] OTHER -> << "torrent_id", "usenetdownload_id", "usenet_id",
                     "download_id", "id" >>

extractActiveID(sourceType, item) ==
    firstString(item, ActiveKeys(sourceType))

(* torrent_file is named by the first component of its path.               *)
extractQueueAuthID(sourceType, item) ==
    firstString(item, IF sourceType = "usenet"
                      THEN << "auth_id", "torrent_file" >>
                      ELSE << "auth_id" >>)

boolField(item, key, default) ==
    IF key \in DOMAIN item /\ item[key] \in { "true", "false" }
    THEN item[key] = "true" ELSE default

FailureStates == { "failed", "error", "aborted", "cancelled", "incomplete" }

FailureLabels == { "failed", "incomplete" }

ReadyLabels == { "download ready", "cached" }

(* Variant: a finished download counts as present.                         *)
ReadyWhenFinished(item) == boolField(item, "download_finished", FALSE)

(* download_present decides, then download_ready, then the label.          *)
DownloadReady(item) ==
    boolField(item, "download_present",
        boolField(item, "download_ready",
            firstString(item, << "download_label", "label" >>)
                \in ReadyLabels))

Failed(item) ==
    /\ \/ firstString(item, << "download_state", "status", "state" >>)
            \in FailureStates
       \/ firstString(item, << "download_label", "label" >>)
            \in FailureLabels
    /\ ~ DownloadReady(item)

Inactive(item) ==
    \/ firstString(item, << "download_label", "label" >>) = "inactive"
    \/ boolField(item, "inactive", FALSE)

parseTaskStatus(sourceType, item) ==
    [ found |-> TRUE,
      remoteID |-> extractActiveID(sourceType, item),
      queuedID |-> extractQueuedID(item),
      authID |-> extractQueueAuthID(sourceType, item),
      hash |-> firstString(item, << "hash" >>),
      ready |-> DownloadReady(item),
      over |-> Failed(item) \/ Inactive(item) ]

NoStatus == [found |-> FALSE]

NoIds == [remoteID |-> "", queuedID |-> "", authID |-> "", hash |-> ""]

(* An object is read by its fields, a bare value is taken for the id of an *)
(* active task, and null or no data names nothing.                         *)
parseCreateTask(data) ==
    CASE data.kind = "object" ->
            [ remoteID |-> extractActiveID("", data.value),
              queuedID |-> extractQueuedID(data.value),
              authID |-> extractQueueAuthID("", data.value),
              hash |-> firstString(data.value, << "hash" >>) ]
      [] data.kind = "bare" -> [NoIds EXCEPT !.remoteID = data.value]
      [] data.kind = "none" -> NoIds

(* FindActiveTask: by id, by auth id, by hash.                             *)
(* Variant: by id alone.                                                   *)
MatchesByID(sourceType, item, ids) ==
    /\ ids.remoteID # ""
    /\ extractActiveID(sourceType, item) = ids.remoteID

Matches(sourceType, item, ids) ==
    \/ /\ ids.remoteID # ""
       /\ extractActiveID(sourceType, item) = ids.remoteID
    \/ /\ sourceType = "usenet"
       /\ ids.authID # ""
       /\ firstString(item, << "auth_id" >>) = ids.authID
    \/ /\ ids.hash # ""
       /\ firstString(item, << "hash" >>) = ids.hash

FirstStatus(sourceType, items, hits) ==
    IF hits = {} THEN NoStatus
    ELSE parseTaskStatus(sourceType, items[Min(hits)])

FindActiveTask(sourceType, items, ids) ==
    FirstStatus(sourceType, items,
        { i \in DOMAIN items : Matches(sourceType, items[i], ids) })

GetQueuedStatus(sourceType, items, queuedID) ==
    FirstStatus(sourceType, items,
        { i \in DOMAIN items : extractQueuedID(items[i]) = queuedID })
=============================================================================
