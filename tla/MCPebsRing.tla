---------------------------- MODULE MCPebsRing ----------------------------
(* Two instances: two rings of three slots which the thread empties in     *)
(* turn, with so few processes that a handler writes whenever it is called,*)
(* so that a ring is filled and overtaken; and two CPUs whose handlers     *)
(* race for a table whose slots are recycled.                              *)
EXTENDS PebsRing, TLC

Symmetry == Permutations(Pids) \cup Permutations(Codes)
=============================================================================
