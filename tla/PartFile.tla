------------------------------- MODULE PartFile ------------------------------
(***************************************************************************)
(* What the pipeline relies on when the row of a part says completed: the  *)
(* part file is the whole file behind the link.  That is all that can be   *)
(* promised as long as the link keeps leading to one and the same file and *)
(* somebody has announced its length; what happens otherwise is said as    *)
(* openly.  RangeDownload implements this.                                 *)
(***************************************************************************)
VARIABLES
    content,    \* the part file against the file that is now behind the link
    sized,      \* does the part's row have the length of that file?
    switched,   \* may another file's bytes be in the part file?
    recorded    \* the row says completed

Contents == { "empty", "prefix", "whole", "stale" }

TypeOK ==
    /\ content \in Contents
    /\ sized \in BOOLEAN /\ switched \in BOOLEAN /\ recorded \in BOOLEAN

Init ==
    /\ \/ content = "empty" /\ switched = FALSE
       \/ content = "stale" /\ switched = TRUE
    /\ sized \in BOOLEAN
    /\ recorded = FALSE

(* Lengths come with answers, and are forgotten in a crash.                *)
Working == ~ recorded /\ sized' \in BOOLEAN /\ UNCHANGED switched

Look == Working /\ UNCHANGED << content, recorded >>

Restart == Working /\ content' = "empty" /\ UNCHANGED recorded

Grow ==
    /\ Working
    /\ content' \in { "prefix", "whole" } \cup
                    (IF switched THEN { "stale" } ELSE {})
    /\ content \in { "stale", "whole" } => content' = "stale"
    /\ UNCHANGED recorded

(* Bytes of the old file are not bytes of the new one.                     *)
Switch ==
    /\ content' = IF content = "empty" THEN "empty" ELSE "stale"
    /\ switched' = TRUE
    /\ sized' \in BOOLEAN
    /\ UNCHANGED recorded

Record ==
    /\ ~ recorded
    /\ \/ content = "whole"
       \/ content = "stale"       \* nothing in the code tells it from whole
       \/ ~ sized                 \* a body that broke off looks ended
    /\ recorded' = TRUE
    /\ UNCHANGED << content, sized, switched >>

Next == Look \/ Restart \/ Grow \/ Switch \/ Record

Spec == Init /\ [][Next]_<< content, sized, switched, recorded >>
=============================================================================
