---------------------------- MODULE MCSampleScan ----------------------------
(* Cache misses at the address and elsewhere; branch misses near, too far, *)
(* and so far that the distance looks near in 32 bits, and elsewhere; a    *)
(* record of both.                                                         *)
EXTENDS SampleScan, TLC

Kind(event, hit, gap) == [event |-> event, hit |-> hit, gap |-> gap]
MCSamples ==
  {Kind(CacheMiss, TRUE, 3), Kind(CacheMiss, FALSE, 1),
   Kind(BranchMiss, TRUE, 1), Kind(BranchMiss, TRUE, 3), Kind(BranchMiss, TRUE, 9),
   Kind(BranchMiss, FALSE, 1), Kind(3, TRUE, 1)}
=============================================================================
