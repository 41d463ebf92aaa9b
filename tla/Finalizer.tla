------------------------------ MODULE Finalizer -----------------------------
(***************************************************************************)
(* internal/worker/finalize.go and Layout.Promote.  The check of the files *)
(* and the rename of their directory are separate steps, and so is the     *)
(* write that records the new path.                                        *)
(***************************************************************************)
EXTENDS WorkerLoop

Finalizing(label) == Up("finalizer", label)

Downloaded(j, a) == disk[j].staging /\ disk[j].file[a] = "full"

Verified(j) ==
    /\ Registered(j) # {}
    /\ \A a \in Registered(j) : Downloaded(j, a)

Verify ==
    LET j == Job("finalizer")
        row == Copy("finalizer")
    IN  /\ Finalizing("work")
        /\ \/ /\ Registered(j) = {}
              /\ WriteBack("finalizer", [row EXCEPT !.state = "failed"])
           \/ /\ Registered(j) # {}
              /\ ~ Verified(j)
              /\ WriteBack("finalizer",
                    [row EXCEPT !.run = "later",
                                !.state = "local_downloading"])
           \/ /\ Verified(j)
              /\ Goto("finalizer", "rename")
              /\ UNCHANGED snap
        /\ UNCHANGED << jobs, world, outside, todo, left, hiccups, faults >>

(* ListTransferParts fails.                                                *)
VerifyFails ==
    /\ Finalizing("work")
    /\ Fault
    /\ GiveUp("finalizer")
    /\ UNCHANGED << jobs, world, outside, todo, left, hiccups >>

CanPromote(j, row) == row.staging /\ disk[j].staging /\ ~ disk[j].final

(* Variant: the directory is moved into the completed path, not onto it.   *)
PromotedInside(d) == [RemoveStaging(d) EXCEPT !.final = TRUE]

Promoted(d) ==
    [RemoveStaging(d) EXCEPT
        !.final = TRUE, !.placed = { a \in Assets : d.file[a] = "full" }]

PromoteOk ==
    LET j == Job("finalizer")
        row == Copy("finalizer")
    IN  /\ Finalizing("rename")
        /\ CanPromote(j, row)
        /\ disk' = [disk EXCEPT ![j] = Promoted(@)]
        /\ WriteBack("finalizer",
              [row EXCEPT !.completed = TRUE, !.run = "nil",
                          !.state = "completed"])
        /\ UNCHANGED << jobs, parts, tasks, outside, todo, left, hiccups,
                        faults >>

PromoteError ==
    /\ WriteBack("finalizer", [Copy("finalizer") EXCEPT !.state = "failed"])
    /\ UNCHANGED << jobs, world, outside, todo, left, hiccups >>

(* The directory is gone, or the target is there already.                  *)
PromoteFails ==
    /\ Finalizing("rename")
    /\ ~ CanPromote(Job("finalizer"), Copy("finalizer"))
    /\ PromoteError
    /\ UNCHANGED faults

(* Any other error of MkdirAll or Rename.                                  *)
PromoteFault == Finalizing("rename") /\ Fault /\ PromoteError

FinalizerStep == Verify \/ PromoteOk \/ PromoteFails

FinalizerFault == VerifyFails \/ PromoteFault
=============================================================================
