--------------------------- MODULE MCTaineAnalyze ---------------------------
(* A code that is refused for its place in the page and one that is not;   *)
(* one that fills the list with short instructions, and one too long.      *)
EXTENDS TaineAnalyze
=============================================================================
