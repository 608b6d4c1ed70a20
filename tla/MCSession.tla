------------------------------ MODULE MCSession ------------------------------
(* Two CPUs: the call on one CPU while the handler of the other runs.      *)
EXTENDS Session, TLC
=============================================================================
