--------------------------- MODULE MCRateLimiter2 ---------------------------
(* TLC instance: more callers than tokens, so that some sleep, some wait   *)
(* at the channel and some come between.                                   *)
EXTENDS RateLimiter2
=============================================================================
