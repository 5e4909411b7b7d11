----------------------------- MODULE MCConfigUI -----------------------------
(* TLC instance: services, and requests in flight, are interchangeable.    *)
EXTENDS ConfigUI, TLC
Symmetry == Permutations(Services) \cup Permutations(Slots)
=============================================================================
