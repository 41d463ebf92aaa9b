------------------------------ MODULE JobStore ------------------------------
(***************************************************************************)
(* The jobs table of internal/store: what a row holds, which rows a query  *)
(* selects, and what each statement makes of the table.  The operators are *)
(* functions of a table value `tab'; the modules that extend this one      *)
(* apply them to the variable `jobs'.                                      *)
(*                                                                         *)
(* One connection (SetMaxOpenConns(1)) serialises the statements, so every *)
(* operator below is atomic, and nothing longer than one is.               *)
(*                                                                         *)
(* Columns nothing branches on (names, hashes, byte counts, timestamps,    *)
(* metadata, error text, delete_requested) are left out; nullable columns  *)
(* are the Booleans `is it set?'.                                          *)
(***************************************************************************)
EXTENDS Naturals, FiniteSets

CONSTANTS
    Jobs,       \* job ids, numbered in created_at order
    KeyOf,      \* the submission_key of each job
    BatchSize   \* cfg.Workers.BatchSize, the LIMIT of a claim

ASSUME JobsAssumption == Jobs \subseteq Nat \ {0} /\ BatchSize \in Nat \ {0}

NoJob == 0

(***************************************************************************)
(* States (store/model.go); "absent" stands for `no such row'.             *)
(***************************************************************************)
JobStates ==
    { "accepted", "submit_pending", "submit_retry", "remote_queued",
      "remote_active", "remote_failed", "local_download_pending",
      "local_downloading", "local_verify", "completed", "remove_pending",
      "removed", "failed" }

ClosedStates == { "remote_failed", "removed", "failed" }

ActiveStates == JobStates \ ClosedStates

Workers == { "submitter", "poller", "downloader", "finalizer", "remover" }

NoWorker == "nobody"

RunAt == { "nil", "later", "due" }   \* next_run_at: NULL, > now, <= now

Row == [ state     : JobStates \cup {"absent"},
         claim     : Workers \cup {NoWorker},
         run       : RunAt,
         remote    : BOOLEAN,    \* remote_id
         queued    : BOOLEAN,    \* queued_id
         staging   : BOOLEAN,    \* staging_path
         completed : BOOLEAN,    \* completed_path
         payload   : BOOLEAN,    \* payload_ref
         retry     : Nat ]

NoRow == [ state |-> "absent", claim |-> NoWorker, run |-> "nil",
           remote |-> FALSE, queued |-> FALSE, staging |-> FALSE,
           completed |-> FALSE, payload |-> FALSE, retry |-> 0 ]

(***************************************************************************)
(* Queries.                                                                *)
(***************************************************************************)
Exists(tab, j) == tab[j].state # "absent"

First(S) == CHOOSE j \in S : \A k \in S : j <= k

FindActiveBySubmissionKey(tab, key) ==
    { k \in Jobs : KeyOf[k] = key /\ tab[k].state \in ActiveStates }

ListOpenJobs(tab) ==
    { j \in Jobs : Exists(tab, j) /\ tab[j].state \notin ClosedStates }

DueJobs(tab, states) ==
    { j \in Jobs : /\ tab[j].state \in states
                   /\ tab[j].run \in {"nil", "due"}
                   /\ tab[j].claim = NoWorker }

(* ORDER BY created_at ASC LIMIT BatchSize                                 *)
DueBatch(tab, states) ==
    LET due == DueJobs(tab, states)
    IN  { j \in due : Cardinality({ k \in due : k < j }) < BatchSize }

(***************************************************************************)
(* Statements.  idx_jobs_submission_key_active is a unique index over the  *)
(* rows in an active state: a statement that would put a second one of the *)
(* same key there fails and changes nothing.  An UPDATE of a missing row   *)
(* changes nothing either.                                                 *)
(***************************************************************************)
(* Variant: there is no index, only the lookup of enqueueSubmission.       *)
KeyFreeUnindexed(tab, j) == TRUE

KeyFree(tab, j) ==
    FindActiveBySubmissionKey(tab, KeyOf[j]) \subseteq {j}

IndexAllows(tab, j, row) == row.state \in ActiveStates => KeyFree(tab, j)

CanInsert(tab, j, row) == ~ Exists(tab, j) /\ IndexAllows(tab, j, row)

CanUpdate(tab, j, row) == Exists(tab, j) /\ IndexAllows(tab, j, row)

CreateJob(tab, j, row) ==
    IF CanInsert(tab, j, row) THEN [tab EXCEPT ![j] = row] ELSE tab

(* Every column from the caller's copy, and claimed_by = NULL.             *)
UpdateJob(tab, j, row) ==
    IF CanUpdate(tab, j, row)
    THEN [tab EXCEPT ![j] = [row EXCEPT !.claim = NoWorker]]
    ELSE tab

ClaimJobs(tab, w, batch) ==
    [ j \in Jobs |-> IF j \in batch THEN [tab[j] EXCEPT !.claim = w]
                                    ELSE tab[j] ]

ReleaseJobClaim(tab, j) == [tab EXCEPT ![j].claim = NoWorker]

(* Variant: startup leaves the claims of the dead process in place.        *)
KeepStaleClaims(tab) == tab

ReleaseAllClaims(tab) ==
    [ j \in Jobs |-> [tab[j] EXCEPT !.claim = NoWorker] ]

DeleteRow(tab, j) == [tab EXCEPT ![j] = NoRow]
=============================================================================
