--------------------------- MODULE MCRangeDownload ---------------------------
(* Three files behind one link: a shorter one and a longer one follow.     *)
(* TorBox lists nothing, too little, the length or too much for the first. *)
EXTENDS RangeDownload

ThreeFiles == << 3, 2, 4 >>

Listings == { 0, 2, 3, 5 }
=============================================================================
