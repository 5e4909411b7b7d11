--------------------------- MODULE MCAddressScan ---------------------------
(* TLC instance: three services, a set read before or after a change.      *)
EXTENDS AddressScan
============================================================================
