-------------------------- MODULE MCCircuitBreaker --------------------------
(* TLC instance of CircuitBreaker: interchangeable request threads. *)
EXTENDS CircuitBreaker, TLC

ThreadSymmetry == Permutations(Threads)
=============================================================================
