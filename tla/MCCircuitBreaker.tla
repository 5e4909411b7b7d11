-------------------------- MODULE MCCircuitBreaker --------------------------
(* TLC instance: two callers, one resource, its breaker and another one.   *)
EXTENDS CircuitBreaker, TLC

Interchangeable == Permutations(Goroutines)
=============================================================================
