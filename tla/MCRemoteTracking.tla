--------------------------- MODULE MCRemoteTracking --------------------------
EXTENDS RemoteTracking

TwoCallers == { "poller", "downloader" }

(* Torrents, with fields as TorBox names them and with the older names the *)
(* code still knows, and usenet downloads that have a hash.                *)
Torrents ==
    { [ source |-> "torrent", company |-> TRUE, silent |-> "null",
        bare |-> {},
        create |-> { "queued_id", "auth_id", "hash" },
        queue |-> { "queued_id", "auth_id", "hash" },
        leaving |-> {},
        started |-> { "torrent_id", "hash", "auth_id" },
        active |-> { "id", "hash", "auth_id", "download_present",
                     "download_finished", "download_state" } ],
      [ source |-> "torrent", company |-> FALSE, silent |-> "list",
        bare |-> {},
        create |-> { "queued_id", "hash" },
        queue |-> { "queue_id", "auth_id" },
        leaving |-> { "queue_id", "torrent_id" },
        started |-> { "download_id" },
        active |-> { "torrent_id", "hash", "download_finished",
                     "download_label", "download_state" } ] }

NzbsWithHash ==
    { [ source |-> "nzb", company |-> TRUE, silent |-> "list",
        bare |-> {},
        create |-> { "queued_id", "hash" },
        queue |-> { "queued_id", "torrent_file" },
        leaving |-> { "queued_id", "usenet_id" },
        started |-> { "usenetdownload_id", "hash" },
        active |-> { "id", "hash", "download_present",
                     "download_finished", "download_state" } ] }

(* A creation answered by a bare id, and empty lists by null.              *)
Terse ==
    { [s EXCEPT !.bare = { "active" }, !.silent = "null"]
      : s \in { t \in Torrents : ~ t.company } }

Known == Torrents \cup NzbsWithHash \cup Terse

ASSUME KnownShapes == \A s \in Known : DistinctIds(s)

(* Usenet downloads that have no hash but an auth id.                      *)
NzbsByAuth ==
    { [ source |-> "nzb", company |-> FALSE, silent |-> "list",
        bare |-> {},
        create |-> { "queued_id", "auth_id" },
        queue |-> { "queued_id", "auth_id" }, leaving |-> {},
        started |-> { "usenetdownload_id" },
        active |-> { "id", "auth_id", "download_present",
                     "download_finished", "download_state" } ] }
=============================================================================
