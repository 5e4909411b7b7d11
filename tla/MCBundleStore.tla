--------------------------- MODULE MCBundleStore ---------------------------
(* TLC instance: the PUTs, and the versions, are interchangeable.          *)
EXTENDS BundleStore, TLC
Symmetry == Permutations(Puts) \cup Permutations(Versions)
============================================================================
