------------------------------- MODULE Remover ------------------------------
(***************************************************************************)
(* internal/worker/remove.go: the remover and the pruner.  The remover     *)
(* deletes what its COPY of the row names.  The paths are generated under  *)
(* the configured roots, so ensurePathWithinRoot does not fail.            *)
(***************************************************************************)
EXTENDS WorkerLoop

Removing(label) == Up("remover", label)

RemoverFrame == UNCHANGED << parts, tasks, outside, todo, left, hiccups, faults >>

(* Variant: the remover cleans the staging directory only.                 *)
KeepFinal(d, row) == d

RemoveFinal(d, row) ==
    IF row.completed THEN [d EXCEPT !.final = FALSE, !.placed = {}] ELSE d

RemoveCompletedPath ==
    LET j == Job("remover")
        row == Copy("remover")
    IN  /\ Removing("work")
        /\ disk' = [disk EXCEPT ![j] = RemoveFinal(@, row)]
        /\ SetCopy("remover", [row EXCEPT !.completed = FALSE])
        /\ Goto("remover", "rmstaging")
        /\ UNCHANGED jobs
        /\ RemoverFrame

RemoveStagingPath ==
    LET j == Job("remover")
        row == Copy("remover")
    IN  /\ Removing("rmstaging")
        /\ disk' = [disk EXCEPT ![j] =
                       IF row.staging THEN RemoveStaging(@) ELSE @]
        /\ SetCopy("remover", [row EXCEPT !.staging = FALSE])
        /\ Goto("remover", "rmpayload")
        /\ UNCHANGED jobs
        /\ RemoverFrame

RemovePayload ==
    LET j == Job("remover")
        row == Copy("remover")
    IN  /\ Removing("rmpayload")
        /\ disk' = [disk EXCEPT ![j].payload = @ /\ ~ row.payload]
        /\ WriteBack("remover",
              [row EXCEPT !.payload = FALSE, !.run = "nil",
                          !.state = "removed"])
        /\ UNCHANGED jobs
        /\ RemoverFrame

(* RemoveAll fails; what came before is gone, the row still names it.      *)
RemoveFails ==
    /\ Removing("work") \/ Removing("rmstaging") \/ Removing("rmpayload")
    /\ Fault
    /\ GiveUp("remover")
    /\ UNCHANGED << jobs, world, outside, todo, left, hiccups >>

RemoverStep == RemoveCompletedPath \/ RemoveStagingPath \/ RemovePayload

RemoverFault == RemoveFails

(* DeleteRemovedOlderThan; the parts go with the row (ON DELETE CASCADE).  *)
Prune(j) ==
    /\ mode = "up"
    /\ jobs[j].state = "removed"
    /\ jobs' = DeleteRow(jobs, j)
    /\ parts' = [parts EXCEPT ![j] = NoParts]
    /\ UNCHANGED << disk, tasks, outside, pc, todo, snap, left, hiccups,
                    faults >>
=============================================================================
