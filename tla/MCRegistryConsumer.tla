----------------------- MODULE MCRegistryConsumer -----------------------
(* TLC instance: one Redis key only messages write, one RPCs write too.  *)
EXTENDS RegistryConsumer
=========================================================================
