------------------------ MODULE MCRedisRateLimiter ------------------------
(* TLC instance: two callers, a window of three ticks, two ticks of grace. *)
EXTENDS RedisRateLimiter, TLC

Interchangeable == Permutations(Clients)
===========================================================================
