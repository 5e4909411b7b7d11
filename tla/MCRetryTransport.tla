-------------------------- MODULE MCRetryTransport --------------------------
(* TLC instance: four attempts; with the longer delay the third wait no    *)
(* longer fits the word.                                                   *)
EXTENDS RetryTransport
=============================================================================
