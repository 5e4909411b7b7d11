---------------------------- MODULE CatalogSpec ----------------------------
(***************************************************************************)
(* What the gateway and the product service together promise whoever calls *)
(* them (apigatewaysvc/handlers/product.go, productservice/handlers): one  *)
(* table of whole products, and requests that take effect on it each in    *)
(* one step.  A request turned away at the door never does.  One let in    *)
(* may, once or more, and even after its call is over; but a success is    *)
(* answered only if it did so during the call.                             *)
(***************************************************************************)
CONSTANTS Reqs, Skus, Products, NoItem

VARIABLES
  table,   \* each product, or NoItem
  asked,   \* what each request is for: its kind and its product
  call,    \* "new", "barred", "open", "acked", "failed", "over"
  code     \* the status of the reply

vars == <<table, asked, call, code>>

Kinds == {"create", "update", "read", "delete"}

Init ==
  /\ table \in [Skus -> Products \cup {NoItem}]
  /\ asked \in [Reqs -> [kind : Kinds, sku : Skus]]
  /\ call = [r \in Reqs |-> "new"]
  /\ code = [r \in Reqs |-> "none"]

Bar(r, status) ==
  /\ call[r] = "new"
  /\ call' = [call EXCEPT ![r] = "barred"]
  /\ code' = [code EXCEPT ![r] = status]
  /\ UNCHANGED <<table, asked>>

LetIn(r) ==
  /\ call[r] = "new"
  /\ call' = [call EXCEPT ![r] = "open"]
  /\ UNCHANGED <<table, asked, code>>

(* A product is created where there is none, and changed or deleted only   *)
(* where there is one.                                                     *)
Effect(kind, old, new) ==
  \/ kind = "create" /\ old = NoItem /\ new \in Products
  \/ kind = "update" /\ old \in Products /\ new \in Products
  \/ kind = "delete" /\ old \in Products /\ new = NoItem
  \/ kind = "read" /\ new = old

TakeEffect(r) ==
  LET s == asked[r].sku IN
  /\ call[r] \notin {"new", "barred"}
  /\ Effect(asked[r].kind, table[s], table'[s])
  /\ table' = [table EXCEPT ![s] = table'[s]]
  /\ UNCHANGED <<asked, code>>

(* The effect is known to whoever replies, ... *)
Acknowledged(r) ==
  /\ call[r] = "open"
  /\ TakeEffect(r)
  /\ call' = [call EXCEPT ![r] = "acked"]

(* ... or to nobody. *)
Unheard(r) ==
  /\ TakeEffect(r)
  /\ UNCHANGED call

(* Refused, failed or given up. *)
Fail(r) ==
  /\ call[r] = "open"
  /\ call' = [call EXCEPT ![r] = "failed"]
  /\ UNCHANGED <<table, asked, code>>

StatusOf(r) ==
  IF call[r] = "acked"
  THEN [create |-> "201", update |-> "200", read |-> "200", delete |-> "204"][asked[r].kind]
  ELSE "500"

Reply(r) ==
  /\ call[r] \in {"acked", "failed"}
  /\ call' = [call EXCEPT ![r] = "over"]
  /\ code' = [code EXCEPT ![r] = StatusOf(r)]
  /\ UNCHANGED <<table, asked>>

(* The client leaves, or the service stops under its calls: the table      *)
(* stays as it is.                                                         *)
Break(R, status) ==
  /\ \A r \in R : call[r] \in {"open", "acked", "failed"}
  /\ call' = [r \in Reqs |-> IF r \in R THEN "over" ELSE call[r]]
  /\ code' = [r \in Reqs |-> IF r \in R THEN status ELSE code[r]]
  /\ UNCHANGED <<table, asked>>

Next ==
  \/ \E r \in Reqs :
       \/ \E status \in {"400", "500"} : Bar(r, status)
       \/ LetIn(r) \/ Acknowledged(r) \/ Unheard(r) \/ Fail(r) \/ Reply(r)
  \/ \E R \in SUBSET Reqs, status \in {"gone", "500"} : Break(R, status)

Spec == Init /\ [][Next]_vars
=============================================================================
