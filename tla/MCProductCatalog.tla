-------------------------- MODULE MCProductCatalog --------------------------
(* TLC instance: two requests, interchangeable, for one product that may    *)
(* be there already.                                                       *)
EXTENDS ProductCatalog, TLC

Interchangeable == Permutations(Reqs)
=============================================================================
