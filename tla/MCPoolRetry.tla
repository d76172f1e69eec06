------------------------------ MODULE MCPoolRetry ------------------------------
(* Requests are interchangeable: nothing in PoolRetry names one.           *)
EXTENDS PoolRetry, TLC

AnyOrder == Permutations(Requests)
==============================================================================
