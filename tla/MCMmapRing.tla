----------------------------- MODULE MCMmapRing -----------------------------
(* Three slots are the smallest ring in which a message can be sent; with  *)
(* four, two messages can wait, and MaxMsg messages go round it.           *)
EXTENDS MmapRing
=============================================================================
