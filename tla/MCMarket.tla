------------------------------ MODULE MCMarket ------------------------------
(* Instances of Market: two tasks, an order of another terminal, an order  *)
(* in the cache and one to be placed; a symbol in the table and one that   *)
(* is not.                                                                 *)
EXTENDS Market, TLC

(* No task is named, and every property of the run is an invariant.        *)
TaskSymmetry == Permutations(Tasks)
=============================================================================
