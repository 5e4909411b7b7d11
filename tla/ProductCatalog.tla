--------------------------- MODULE ProductCatalog ---------------------------
(***************************************************************************)
(* The product catalog: the gateway (apigatewaysvc) takes an HTTP request, *)
(* calls the product service over gRPC, and the service makes it one       *)
(* conditional call of a DynamoDB table, which the AWS client sends again  *)
(* when no answer comes.  A copy sent earlier may reach the table later.   *)
(*                                                                         *)
(* The value a request gives for a field is the request itself.  Texts are *)
(* the fields a stored product always has (name, price, ...), Lists those  *)
(* it has only when they are not empty (features, attributes).             *)
(***************************************************************************)
EXTENDS Integers

CONSTANTS
  Reqs,         \* HTTP requests, each made once
  Earlier,      \* the request that made what is there at first
  Skus,
  Texts, Lists,
  Empty,        \* "" or 0
  Absent,       \* no such attribute
  NoItem,       \* no such product
  MaxAttempts   \* of the AWS client, per call

ASSUME CatalogAssumption ==
  /\ Texts \cap Lists = {}
  /\ Texts # {}
  /\ Reqs \cap {Earlier, Empty, Absent} = {}
  /\ Absent \notin {Earlier, Empty}
  /\ NoItem \notin [Texts \cup Lists -> Reqs \cup {Earlier, Empty, Absent}]
  /\ MaxAttempts \in Nat \ {0}

Fields == Texts \cup Lists
Item == [Fields -> Reqs \cup {Earlier, Empty, Absent}]
Stored == Item \cup {NoItem}

(* set: fields given a value; clear: fields given as empty. *)
Ops ==
  {o \in [kind : {"create", "update", "delete"}, sku : Skus,
          set : SUBSET Fields, clear : SUBSET Fields] :
     /\ o.set \cap o.clear = {}
     /\ o.kind # "update" => o.clear = {}
     /\ o.kind = "delete" => o.set = {}}

VARIABLES
  items,    \* the table
  past,     \* everything each product has been, which a replica may still show
  op,       \* what each request asks, fixed
  svc,      \* the product service's process
  pc,       \* where a request is
  net,      \* the current attempt: none, on its way, or its answer lost
  late,     \* earlier attempts the table may still see
  tries,
  answer,   \* the product service's answer
  reply,    \* the gateway's
  held      \* history: what the product was since the call began

vars == <<items, past, op, svc, pc, net, late, tries, answer, reply, held>>

Answers == [kind : {"none", "ok", "refused", "failed"}, product : Stored]
NoAnswer == [kind |-> "none", product |-> NoItem]
Failure == [kind |-> "failed", product |-> NoItem]
Codes == {"none", "201", "200", "204", "400", "500", "gone"}

TypeOK ==
  /\ items \in [Skus -> Stored]
  /\ past \in [Skus -> SUBSET Stored]
  /\ op \in [Reqs -> Ops]
  /\ svc \in {"down", "hello", "serving"}
  /\ pc \in [Reqs -> {"new", "table", "answered", "done"}]
  /\ net \in [Reqs -> {"none", "sent", "lost"}]
  /\ late \in [Reqs -> Nat]
  /\ tries \in [Reqs -> 0 .. MaxAttempts]
  /\ answer \in [Reqs -> Answers]
  /\ reply \in [Reqs -> Codes]
  /\ held \in [Reqs -> SUBSET Stored]

Init ==
  /\ items \in [Skus -> {NoItem, [f \in Fields |-> Earlier]}]
  /\ past = [s \in Skus |-> {NoItem, items[s]}]
  /\ op \in [Reqs -> Ops]
  /\ svc = "down"
  /\ pc = [r \in Reqs |-> "new"]
  /\ net = [r \in Reqs |-> "none"]
  /\ late = [r \in Reqs |-> 0]
  /\ tries = [r \in Reqs |-> 0]
  /\ answer = [r \in Reqs |-> NoAnswer]
  /\ reply = [r \in Reqs |-> "none"]
  /\ held = [r \in Reqs |-> {}]

Active == {r \in Reqs : pc[r] \in {"table", "answered"}}

---------------------------------------------------------------------------
(* What the table makes of a request: the new item and the answer.         *)
Ok(item, product) ==
  [item |-> item, answer |-> [kind |-> "ok", product |-> product]]
Refused(item) ==
  [item |-> item, answer |-> [kind |-> "refused", product |-> NoItem]]

(* productToItem: an empty list is left out, an empty text is stored. *)
NewItem(r) ==
  [f \in Fields |-> IF f \in op[r].set THEN r
                    ELSE IF f \in Lists THEN Absent ELSE Empty]

(* itemToFields: what is not there reads as empty. *)
Shown(item) == [f \in Fields |-> IF item[f] = Absent THEN Empty ELSE item[f]]

(* The partial update: only what is given, and never an empty list. *)
Updates(r) == op[r].set \cup (op[r].clear \cap Texts)
Merge(old, r) ==
  [f \in Fields |-> IF f \in op[r].set THEN r
                    ELSE IF f \in Updates(r) THEN Empty
                    ELSE IF old = NoItem THEN Absent ELSE old[f]]

Whatever(old) == TRUE
NotExists(old) == old = NoItem    \* attribute_not_exists(sku)
Exists(old) == old # NoItem       \* attribute_exists(sku)

(* The answer repeats the request, not what is stored. *)
Create(r, old) ==
  IF NotExists(old) THEN {Ok(NewItem(r), Shown(NewItem(r)))} ELSE {Refused(old)}

(* An eventually consistent read. *)
Get(r, old) ==
  {IF v = NoItem THEN Refused(old) ELSE Ok(old, Shown(v)) : v \in past[op[r].sku]}

Update(r, old) ==
  IF Updates(r) = {} THEN Get(r, old)
  ELSE IF Exists(old) THEN {Ok(Merge(old, r), Shown(Merge(old, r)))}
  ELSE {Refused(old)}

Delete(r, old) ==
  IF Exists(old) THEN {Ok(NoItem, NoItem)} ELSE {Refused(old)}

(* The table may also fail a request for reasons of its own (throttling,   *)
(* an empty key) and change nothing.                                       *)
Outcomes(r) ==
  LET old == items[op[r].sku] IN
  {[item |-> old, answer |-> Failure]} \cup
  CASE op[r].kind = "create" -> Create(r, old)
    [] op[r].kind = "update" -> Update(r, old)
    [] op[r].kind = "delete" -> Delete(r, old)

Store(s, item) ==
  /\ items' = [items EXCEPT ![s] = item]
  /\ past' = [past EXCEPT ![s] = @ \cup {item}]
  /\ held' = [q \in Reqs |-> IF q \in Active /\ op[q].sku = s
                             THEN held[q] \cup {item} ELSE held[q]]

---------------------------------------------------------------------------
(* 1. The gateway.  An unreadable body; DELETE has none. *)
BadBody(r) ==
  /\ pc[r] = "new"
  /\ op[r].kind # "delete"
  /\ pc' = [pc EXCEPT ![r] = "done"]
  /\ reply' = [reply EXCEPT ![r] = "400"]
  /\ UNCHANGED <<items, past, op, svc, net, late, tries, answer, held>>

Unreachable(r) ==
  /\ pc[r] = "new"
  /\ svc # "serving"
  /\ pc' = [pc EXCEPT ![r] = "done"]
  /\ reply' = [reply EXCEPT ![r] = "500"]
  /\ UNCHANGED <<items, past, op, svc, net, late, tries, answer, held>>

Forward(r) ==
  /\ pc[r] = "new"
  /\ svc = "serving"
  /\ pc' = [pc EXCEPT ![r] = "table"]
  /\ net' = [net EXCEPT ![r] = "sent"]
  /\ tries' = [tries EXCEPT ![r] = 1]
  /\ held' = [held EXCEPT ![r] = {items[op[r].sku]}]
  /\ UNCHANGED <<items, past, op, svc, late, answer, reply>>

(* Whatever went wrong behind it is a 500. *)
Success == [create |-> "201", update |-> "200", delete |-> "204"]
RefusalIsFine(r) == IF answer[r].kind = "failed" THEN "500" ELSE Success[op[r].kind]
Code(r) == IF answer[r].kind = "ok" THEN Success[op[r].kind] ELSE "500"

Reply(r) ==
  /\ pc[r] = "answered"
  /\ pc' = [pc EXCEPT ![r] = "done"]
  /\ reply' = [reply EXCEPT ![r] = Code(r)]
  /\ UNCHANGED <<items, past, op, svc, net, late, tries, answer, held>>

---------------------------------------------------------------------------
(* 2. The table: the attempt the service waits for, answered or not, ... *)
TableHandles(r) ==
  /\ net[r] = "sent"
  /\ \E o \in Outcomes(r) :
       /\ Store(op[r].sku, o.item)
       /\ \/ /\ net' = [net EXCEPT ![r] = "none"]
             /\ pc' = [pc EXCEPT ![r] = "answered"]
             /\ answer' = [answer EXCEPT ![r] = o.answer]
          \/ /\ net' = [net EXCEPT ![r] = "lost"]
             /\ UNCHANGED <<pc, answer>>
  /\ UNCHANGED <<op, svc, late, tries, reply>>

(* ... or one given up before, whose answer nobody reads. *)
TableHandlesLate(r) ==
  /\ late[r] > 0
  /\ late' = [late EXCEPT ![r] = @ - 1]
  /\ \E o \in Outcomes(r) : Store(op[r].sku, o.item)
  /\ UNCHANGED <<op, svc, pc, net, tries, answer, reply>>

---------------------------------------------------------------------------
(* 3. The service waits no longer: the attempt may still be on its way. *)
Leave(R) ==
  late' = [r \in Reqs |-> IF r \in R /\ net[r] = "sent" THEN late[r] + 1 ELSE late[r]]

OneTooMany(r) == tries[r] <= MaxAttempts
MayResend(r) == tries[r] < MaxAttempts

Resend(r) ==
  /\ pc[r] = "table"
  /\ MayResend(r)
  /\ Leave({r})
  /\ net' = [net EXCEPT ![r] = "sent"]
  /\ tries' = [tries EXCEPT ![r] = @ + 1]
  /\ UNCHANGED <<items, past, op, svc, pc, answer, reply, held>>

GiveUp(r) ==
  /\ pc[r] = "table"
  /\ ~MayResend(r)
  /\ Leave({r})
  /\ net' = [net EXCEPT ![r] = "none"]
  /\ pc' = [pc EXCEPT ![r] = "answered"]
  /\ answer' = [answer EXCEPT ![r] = Failure]
  /\ UNCHANGED <<items, past, op, svc, tries, reply, held>>

Abort(R, code) ==
  /\ Leave(R)
  /\ net' = [r \in Reqs |-> IF r \in R THEN "none" ELSE net[r]]
  /\ pc' = [r \in Reqs |-> IF r \in R THEN "done" ELSE pc[r]]
  /\ answer' = [r \in Reqs |-> IF r \in R THEN Failure ELSE answer[r]]
  /\ reply' = [r \in Reqs |-> IF r \in R THEN code ELSE reply[r]]
  /\ UNCHANGED <<items, past, op, tries, held>>

(* The HTTP client leaves, and its context ends the call under it. *)
Drop(r) ==
  /\ r \in Active
  /\ Abort({r}, "gone")
  /\ svc' = svc

Crash ==
  /\ svc # "down"
  /\ svc' = "down"
  /\ Abort(Active, "500")

(* ListenAndServe on :8089 comes first and does not return, unless the     *)
(* port is taken (configsvc listens on it too): only then is gRPC served.  *)
Boot(portTaken) ==
  /\ svc = "down"
  /\ svc' = IF portTaken THEN "serving" ELSE "hello"
  /\ UNCHANGED <<items, past, op, pc, net, late, tries, answer, reply, held>>

---------------------------------------------------------------------------
Next ==
  \/ \E r \in Reqs :
       \/ BadBody(r) \/ Unreachable(r) \/ Forward(r) \/ Reply(r)
       \/ TableHandles(r) \/ TableHandlesLate(r)
       \/ Resend(r) \/ GiveUp(r) \/ Drop(r)
  \/ Crash
  \/ \E portTaken \in BOOLEAN : Boot(portTaken)

Spec == Init /\ [][Next]_vars

---------------------------------------------------------------------------
(* No half product: an update, however late it reaches the table, never    *)
(* brings a deleted product back with the few fields it names              *)
(* (repository.go:155, "fail if not found").                               *)
WholeProducts ==
  \A s \in Skus : items[s] # NoItem => \A f \in Texts : items[s][f] # Absent

(* What a reply says was so at some moment of the call, through every      *)
(* retry, crash and concurrent request: a 201's, 200's or 204's product    *)
(* was stored, as shown, and a refusal met a product that was, or was not, *)
(* there.  An update that changes nothing reads, and may read the past     *)
(* (product.go:53-155, repository.go:112-194).                             *)
Seen(r) ==
  IF op[r].kind = "update" /\ Updates(r) = {} THEN past[op[r].sku] ELSE held[r]
Truth(r) ==
  CASE reply[r] \in {"201", "200"} ->
         \E v \in Seen(r) \ {NoItem} :
            /\ Shown(v) = answer[r].product
            /\ \A f \in op[r].set : v[f] = r
    [] reply[r] = "204" -> NoItem \in held[r]
    [] reply[r] = "500" /\ answer[r].kind = "refused" ->
         IF op[r].kind = "create" THEN \E v \in held[r] : v # NoItem
         ELSE NoItem \in Seen(r)
    [] OTHER -> TRUE
AnswersTrue == \A r \in Reqs : Truth(r)

(* A stored product changes in the fields an update in flight names, and   *)
(* in no other: in particular a Create never overwrites one                *)
(* (repository.go:117, "prevent overwrite").                               *)
InFlight(r) == net[r] = "sent" \/ late[r] > 0
ChangesNamed ==
  \A s \in Skus : items[s] # NoItem /\ items'[s] # NoItem =>
    \A f \in Fields : items'[s][f] # items[s][f] =>
      \E r \in Reqs : /\ InFlight(r)
                      /\ op[r].kind = "update"
                      /\ op[r].sku = s
                      /\ f \in Updates(r)
OnlyNamedFieldsChange == [][ChangesNamed]_vars

---------------------------------------------------------------------------
(* The whole is one table and requests that take effect on it in one step, *)
(* whatever is lost, repeated or late between: a success means that the    *)
(* request took effect during its call, nothing happens for a request      *)
(* turned away, and a crash takes nothing back (product.go:25-67).         *)
AskedFor ==
  [r \in Reqs |->
     [kind |-> IF op[r].kind = "update" /\ Updates(r) = {} THEN "read" ELSE op[r].kind,
      sku |-> op[r].sku]]
Phase(r) ==
  CASE pc[r] = "new" -> "new"
    [] pc[r] = "table" -> "open"
    [] pc[r] = "answered" -> IF answer[r].kind = "ok" THEN "acked" ELSE "failed"
    [] OTHER -> IF tries[r] = 0 THEN "barred" ELSE "over"
CallOf == [r \in Reqs |-> Phase(r)]

Catalog ==
  INSTANCE CatalogSpec WITH
    Products <- Item, table <- items, asked <- AskedFor, call <- CallOf, code <- reply

ImplementsCatalog == Catalog!Spec
=============================================================================
