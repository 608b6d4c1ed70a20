---------------------------- MODULE MCTaineList ----------------------------
(* Two entries of two codes, three pids and three codes: every way of      *)
(* giving an entry away occurs, an entry overflows, and pids come back.    *)
EXTENDS TaineList, TLC
Symmetry == Permutations(Pids) \cup Permutations(Codes)
=============================================================================
