----------------------------- MODULE ScanSpec -----------------------------
(***************************************************************************)
(* What AddressStorage.GetAddressOfAllServices promises the health-check   *)
(* worker (config/storage/node.go:22-27): it fails as a whole when the     *)
(* keys cannot be listed; otherwise it answers once, with at most one node *)
(* for each key listed, and only keys whose read failed are left out.      *)
(***************************************************************************)
CONSTANTS Keys, Values

VARIABLES
  status,   \* "asked", "reading", "returned" or "failed"
  todo,     \* keys listed and neither read nor given up
  nodes     \* the answer so far, as <<key, members>> pairs

vars == <<status, todo, nodes>>

Init ==
  /\ status = "asked"
  /\ todo = {}
  /\ nodes = {}

List(ks) ==
  /\ status = "asked"
  /\ status' = "reading"
  /\ todo' = ks
  /\ UNCHANGED nodes

Fail ==
  /\ status = "asked"
  /\ status' = "failed"
  /\ UNCHANGED <<todo, nodes>>

Deliver(k, v) ==
  /\ status = "reading"
  /\ k \in todo
  /\ todo' = todo \ {k}
  /\ nodes' = nodes \cup {<<k, v>>}
  /\ UNCHANGED status

Drop(k) ==
  /\ status = "reading"
  /\ k \in todo
  /\ todo' = todo \ {k}
  /\ UNCHANGED <<status, nodes>>

Return ==
  /\ status = "reading"
  /\ todo = {}
  /\ status' = "returned"
  /\ UNCHANGED <<todo, nodes>>

Next ==
  \/ \E ks \in SUBSET Keys : List(ks)
  \/ Fail
  \/ \E k \in Keys : Drop(k) \/ \E v \in Values : Deliver(k, v)
  \/ Return

Safe == Init /\ [][Next]_vars

(* The call returns: Redis answers or times out. *)
Spec == Safe /\ WF_vars(Next)
===========================================================================
