------------------------------ MODULE MCSessions -----------------------------
(* Seconds of 9 ticks: two digits, 0 to 2.                                 *)
EXTENDS Sessions

TwoSids == { "sid1", "sid2" }
=============================================================================
