------------------------ MODULE ProductCatalogProofs ------------------------
(***************************************************************************)
(* Theorems about the product catalog, for any requests, products, fields  *)
(* and number of attempts.                                                 *)
(***************************************************************************)
EXTENDS ProductCatalog, TLAPS

Complete(item) == item # NoItem => \A f \in Texts : item[f] # Absent

(* What an answer claims, given what is seen of the product. *)
Claim(r, a, seen, during) ==
  /\ a.kind = "ok" /\ op[r].kind # "delete" =>
       \E v \in seen \ {NoItem} :
          /\ Shown(v) = a.product
          /\ \A f \in op[r].set : v[f] = r
  /\ a.kind = "ok" /\ op[r].kind = "delete" => NoItem \in during
  /\ a.kind = "refused" =>
       IF op[r].kind = "create" THEN \E v \in during : v # NoItem
       ELSE NoItem \in seen

(* The strengthening: a call under way has seen what its product is now,   *)
(* an answer comes only out of the table, and a reply only out of it.      *)
Current == \A r \in Active : items[op[r].sku] \in held[r]
Shows == \A s \in Skus : items[s] \in past[s]
Claims == \A r \in Reqs : Claim(r, answer[r], Seen(r), held[r])
Phases ==
  \A r \in Reqs :
    /\ pc[r] \in {"new", "table"} => answer[r] = NoAnswer
    /\ pc[r] # "done" => reply[r] = "none"
    /\ net[r] = "sent" => pc[r] = "table"
    /\ reply[r] \in {"201", "200", "204"} =>
         answer[r].kind = "ok" /\ reply[r] = Success[op[r].kind]
Inv == TypeOK /\ Current /\ Shows /\ Claims /\ Phases

---------------------------------------------------------------------------
LEMMA ItemFacts ==
  ASSUME TypeOK, NEW r \in Reqs, NEW old \in Stored
  PROVE  /\ NewItem(r) \in Item
         /\ Merge(old, r) \in Item
         /\ \A v \in Item : Shown(v) \in Item /\ v # NoItem
BY CatalogAssumption
   DEF TypeOK, NewItem, Merge, Shown, Item, Fields, Stored, Updates

(* What the table does with a request: the new item, the answer, what may  *)
(* change, and what the answer then claims.                                *)
LEMMA OutcomeFacts ==
  ASSUME TypeOK, Shows, NEW r \in Reqs, NEW o \in Outcomes(r)
  PROVE  LET s == op[r].sku
             old == items[op[r].sku]
             seen == IF op[r].kind = "update" /\ Updates(r) = {}
                     THEN past[s] ELSE {old, o.item}
         IN /\ o.item \in Stored
            /\ o.answer \in Answers
            /\ Complete(old) => Complete(o.item)
            /\ old # NoItem /\ o.item # NoItem =>
                 \A f \in Fields : o.item[f] # old[f] =>
                    op[r].kind = "update" /\ f \in Updates(r)
            /\ Claim(r, o.answer, seen, {old, o.item})
<1> DEFINE s == op[r].sku
           old == items[s]
<1>1. /\ s \in Skus /\ old \in Stored
      /\ op[r].kind \in {"create", "update", "delete"}
      /\ op[r].set \subseteq Fields /\ past[s] \subseteq Stored
  BY DEF TypeOK, Ops
<1>2. /\ NewItem(r) \in Item /\ Merge(old, r) \in Item
      /\ \A v \in Item : Shown(v) \in Item /\ v # NoItem
      /\ Item \subseteq Stored /\ NoItem \in Stored
      /\ Stored \ {NoItem} \subseteq Item
  BY <1>1, ItemFacts DEF Stored
<1>3. CASE o = [item |-> old, answer |-> Failure]
  BY <1>1, <1>2, <1>3 DEF Failure, Answers, Claim
<1>4. CASE op[r].kind = "create" /\ o \in Create(r, old)
  <2>1. CASE old = NoItem
    <3>1. o = Ok(NewItem(r), Shown(NewItem(r)))
      BY <1>4, <2>1 DEF Create, NotExists
    <3>2. Complete(NewItem(r))
      BY CatalogAssumption, <1>1 DEF Complete, NewItem, Fields
    <3>3. \A f \in op[r].set : NewItem(r)[f] = r
      BY <1>1 DEF NewItem
    <3> QED
      BY <1>1, <1>2, <1>4, <2>1, <3>1, <3>2, <3>3 DEF Ok, Answers, Claim
  <2>2. CASE old # NoItem
    <3>1. o = Refused(old)
      BY <1>4, <2>2 DEF Create, NotExists
    <3> QED
      BY <1>1, <1>2, <1>4, <2>2, <3>1 DEF Refused, Answers, Claim
  <2> QED BY <2>1, <2>2
<1>5. CASE op[r].kind = "update" /\ Updates(r) = {} /\ o \in Get(r, old)
  <2>1. op[r].set = {}
    BY <1>5 DEF Updates
  <2>2. PICK v \in past[s] :
          o = IF v = NoItem THEN Refused(old) ELSE Ok(old, Shown(v))
    BY <1>5 DEF Get
  <2>3. CASE v = NoItem
    BY <1>1, <1>2, <1>5, <2>2, <2>3 DEF Refused, Answers, Claim
  <2>4. CASE v # NoItem
    <3>1. v \in Item
      BY <1>1, <1>2, <2>4
    <3> QED
      BY <1>1, <1>2, <1>5, <2>1, <2>2, <2>4, <3>1 DEF Ok, Answers, Claim
  <2> QED BY <2>3, <2>4
<1>6. CASE op[r].kind = "update" /\ Updates(r) # {} /\ o \in Update(r, old)
  <2>1. CASE old # NoItem
    <3>1. o = Ok(Merge(old, r), Shown(Merge(old, r)))
      BY <1>6, <2>1 DEF Update, Exists
    <3>2. Complete(old) => Complete(Merge(old, r))
      BY CatalogAssumption, <1>1, <2>1 DEF Complete, Merge, Fields
    <3>3. \A f \in op[r].set : Merge(old, r)[f] = r
      BY <1>1 DEF Merge
    <3>4. \A f \in Fields : Merge(old, r)[f] # old[f] => f \in Updates(r)
      BY <2>1 DEF Merge, Updates
    <3> QED
      BY <1>1, <1>2, <1>6, <2>1, <3>1, <3>2, <3>3, <3>4 DEF Ok, Answers, Claim
  <2>2. CASE old = NoItem
    <3>1. o = Refused(old)
      BY <1>6, <2>2 DEF Update, Exists
    <3> QED
      BY <1>1, <1>2, <1>6, <2>2, <3>1 DEF Refused, Answers, Claim, Complete
  <2> QED BY <2>1, <2>2
<1>7. CASE op[r].kind = "delete" /\ o \in Delete(r, old)
  <2>1. CASE old # NoItem
    <3>1. o = Ok(NoItem, NoItem)
      BY <1>7, <2>1 DEF Delete, Exists
    <3> QED
      BY <1>1, <1>2, <1>7, <2>1, <3>1 DEF Ok, Answers, Claim, Complete
  <2>2. CASE old = NoItem
    <3>1. o = Refused(old)
      BY <1>7, <2>2 DEF Delete, Exists
    <3> QED
      BY <1>1, <1>2, <1>7, <2>2, <3>1 DEF Refused, Answers, Claim, Complete
  <2> QED BY <2>1, <2>2
<1>8. \/ o = [item |-> old, answer |-> Failure]
      \/ op[r].kind = "create" /\ o \in Create(r, old)
      \/ op[r].kind = "update" /\ o \in Update(r, old)
      \/ op[r].kind = "delete" /\ o \in Delete(r, old)
  BY <1>1 DEF Outcomes
<1> QED
  BY <1>3, <1>4, <1>5, <1>6, <1>7, <1>8 DEF Update

---------------------------------------------------------------------------
(* Storing what the table decided: every call under way sees it.           *)
LEMMA StoreFacts ==
  ASSUME Inv, NEW r \in Reqs, NEW o \in Outcomes(r),
         Store(op[r].sku, o.item), op' = op
  PROVE  /\ items' \in [Skus -> Stored]
         /\ past' \in [Skus -> SUBSET Stored]
         /\ held' \in [Reqs -> SUBSET Stored]
         /\ Shows'
         /\ \A q \in Active : items'[op[q].sku] \in held'[q]
         /\ \A q \in Reqs : held[q] \subseteq held'[q] /\ Seen(q) \subseteq Seen(q)'
         /\ r \in Active => Claim(r, o.answer, Seen(r)', held'[r])
<1> DEFINE s == op[r].sku
           old == items[s]
           seen == IF op[r].kind = "update" /\ Updates(r) = {}
                   THEN past[s] ELSE {old, o.item}
<1>1. s \in Skus /\ o.item \in Stored /\ Claim(r, o.answer, seen, {old, o.item})
  BY OutcomeFacts DEF Inv, TypeOK, Ops
<1>2. /\ items' = [items EXCEPT ![s] = o.item]
      /\ past' = [past EXCEPT ![s] = @ \cup {o.item}]
      /\ held' = [q \in Reqs |-> IF q \in Active /\ op[q].sku = s
                                 THEN held[q] \cup {o.item} ELSE held[q]]
  BY DEF Store
<1>3. /\ items' \in [Skus -> Stored]
      /\ past' \in [Skus -> SUBSET Stored]
      /\ held' \in [Reqs -> SUBSET Stored]
  BY <1>1, <1>2 DEF Inv, TypeOK
<1>4. Shows'
  BY <1>1, <1>2 DEF Inv, TypeOK, Shows
<1>5. \A q \in Active : op[q].sku \in Skus
  BY DEF Inv, TypeOK, Active, Ops
<1>6. \A q \in Active : items'[op[q].sku] \in held'[q]
  BY <1>1, <1>2, <1>5 DEF Inv, TypeOK, Current, Active
<1>7. \A q \in Reqs : held[q] \subseteq held'[q]
  BY <1>2
<1>8. \A q \in Reqs : past[op[q].sku] \subseteq past'[op[q].sku]
  BY <1>1, <1>2 DEF Inv, TypeOK, Ops
<1>9. \A q \in Reqs : Seen(q) \subseteq Seen(q)'
  BY <1>7, <1>8 DEF Seen, Updates
<1>10. ASSUME r \in Active
       PROVE  Claim(r, o.answer, Seen(r)', held'[r])
  <2>1. {old, o.item} \subseteq held'[r]
    BY <1>2, <1>10 DEF Inv, Current
  <2>2. seen \subseteq Seen(r)'
    BY <2>1, <1>8 DEF Seen, Updates
  <2> QED
    BY <1>1, <2>1, <2>2 DEF Claim
<1> QED
  BY <1>3, <1>4, <1>6, <1>7, <1>9, <1>10

(* A claim once true stays true: what was seen only grows.                 *)
LEMMA ClaimsLast ==
  ASSUME op' = op, NEW r \in Reqs, Claim(r, answer[r], Seen(r), held[r]),
         held[r] \subseteq held'[r], Seen(r) \subseteq Seen(r)'
  PROVE  Claim(r, answer[r], Seen(r)', held'[r])
BY DEF Claim

LEMMA SeenSame ==
  ASSUME op' = op, past' = past, NEW r \in Reqs, held'[r] = held[r]
  PROVE  Seen(r)' = Seen(r)
BY DEF Seen, Updates

---------------------------------------------------------------------------
LEMMA InitInv == Init => Inv
<1> SUFFICES ASSUME Init PROVE Inv
  OBVIOUS
<1>1. [f \in Fields |-> Earlier] \in Item
  BY DEF Item
<1>2. TypeOK
  BY <1>1, CatalogAssumption DEF Init, TypeOK, Stored, Answers, NoAnswer, Codes
<1>3. Current /\ Shows /\ Phases
  BY DEF Init, Current, Shows, Phases, Active
<1>4. Claims
  BY DEF Init, Claims, Claim, NoAnswer
<1> QED
  BY <1>2, <1>3, <1>4 DEF Inv

(* The gateway's own steps, ... *)
LEMMA GatewayStep ==
  ASSUME Inv, NEW r \in Reqs, BadBody(r) \/ Unreachable(r) \/ Forward(r) \/ Reply(r)
  PROVE  Inv'
<1>1. op' = op /\ items' = items /\ past' = past /\ answer' = answer
  BY DEF BadBody, Unreachable, Forward, Reply
<1>2. CASE BadBody(r)
  <2>1. TypeOK'
    BY <1>2 DEF Inv, TypeOK, BadBody, Codes
  <2>2. Current' /\ Shows'
    BY <1>2 DEF Inv, TypeOK, BadBody, Current, Shows, Active
  <2>3. Claims'
    BY <1>1, <1>2, SeenSame DEF Inv, BadBody, Claims, Claim
  <2>4. Phases'
    BY <1>2 DEF Inv, TypeOK, BadBody, Phases
  <2> QED
    BY <2>1, <2>2, <2>3, <2>4 DEF Inv
<1>3. CASE Unreachable(r)
  <2>1. TypeOK'
    BY <1>3 DEF Inv, TypeOK, Unreachable, Codes
  <2>2. Current' /\ Shows'
    BY <1>3 DEF Inv, TypeOK, Unreachable, Current, Shows, Active
  <2>3. Claims'
    BY <1>1, <1>3, SeenSame DEF Inv, Unreachable, Claims, Claim
  <2>4. Phases'
    BY <1>3 DEF Inv, TypeOK, Unreachable, Phases
  <2> QED
    BY <2>1, <2>2, <2>3, <2>4 DEF Inv
<1>4. CASE Forward(r)
  <2>1. op[r].sku \in Skus
    BY DEF Inv, TypeOK, Ops
  <2>2. TypeOK'
    BY <1>4, <2>1, CatalogAssumption DEF Inv, TypeOK, Forward
  <2>3. Current' /\ Shows'
    BY <1>4, <2>1 DEF Inv, TypeOK, Forward, Current, Shows, Active
  <2>4. \A q \in Reqs \ {r} : held'[q] = held[q]
    BY <1>4 DEF Inv, TypeOK, Forward
  <2>5. answer[r].kind = "none"
    BY <1>4 DEF Inv, Phases, Forward, NoAnswer
  <2>6. Claims'
    BY <1>1, <2>4, <2>5, SeenSame DEF Inv, Claims, Claim
  <2>7. Phases'
    BY <1>4 DEF Inv, TypeOK, Forward, Phases
  <2> QED
    BY <2>2, <2>3, <2>6, <2>7 DEF Inv
<1>5. CASE Reply(r)
  <2>1. Code(r) \in Codes
    BY DEF Inv, TypeOK, Ops, Code, Codes, Success
  <2>2. TypeOK'
    BY <1>5, <2>1 DEF Inv, TypeOK, Reply
  <2>3. Current' /\ Shows'
    BY <1>5 DEF Inv, TypeOK, Reply, Current, Shows, Active
  <2>4. Claims'
    BY <1>1, <1>5, SeenSame DEF Inv, Reply, Claims, Claim
  <2>5. Phases'
    BY <1>5 DEF Inv, TypeOK, Reply, Phases, Code
  <2> QED
    BY <2>2, <2>3, <2>4, <2>5 DEF Inv
<1> QED
  BY <1>2, <1>3, <1>4, <1>5

(* ... the table's, ... *)
LEMMA TableStep ==
  ASSUME Inv, NEW r \in Reqs, TableHandles(r) \/ TableHandlesLate(r)
  PROVE  Inv'
<1>1. op' = op /\ svc' = svc /\ tries' = tries /\ reply' = reply
  BY DEF TableHandles, TableHandlesLate
<1>2. CASE TableHandles(r)
  <2>1. PICK o \in Outcomes(r) :
          /\ Store(op[r].sku, o.item)
          /\ \/ /\ net' = [net EXCEPT ![r] = "none"]
                /\ pc' = [pc EXCEPT ![r] = "answered"]
                /\ answer' = [answer EXCEPT ![r] = o.answer]
             \/ /\ net' = [net EXCEPT ![r] = "lost"]
                /\ UNCHANGED <<pc, answer>>
    BY <1>2 DEF TableHandles
  <2>2. o.answer \in Answers
    BY OutcomeFacts DEF Inv
  <2>3. pc[r] = "table" /\ r \in Active /\ late' = late
    BY <1>2 DEF Inv, Phases, TableHandles, Active
  <2>4. Active' = Active
    BY <2>1, <2>3 DEF Inv, TypeOK, Active
  <2> DEFINE Facts ==
        /\ items' \in [Skus -> Stored]
        /\ past' \in [Skus -> SUBSET Stored]
        /\ held' \in [Reqs -> SUBSET Stored]
        /\ Shows'
        /\ \A q \in Active : items'[op[q].sku] \in held'[q]
        /\ \A q \in Reqs : held[q] \subseteq held'[q] /\ Seen(q) \subseteq Seen(q)'
        /\ Claim(r, o.answer, Seen(r)', held'[r])
  <2>5. Facts
    BY <1>1, <2>1, <2>3, StoreFacts
  <2>6. TypeOK'
    BY <1>1, <2>1, <2>2, <2>3, <2>5 DEF Inv, TypeOK
  <2>7. Current' /\ Shows'
    BY <1>1, <2>4, <2>5 DEF Current
  <2>8. Claims'
    <3>1. \A q \in Reqs : Claim(q, answer[q], Seen(q)', held'[q])
      BY <1>1, <2>5, ClaimsLast DEF Inv, Claims
    <3>2. \A q \in Reqs : Claim(q, answer'[q], Seen(q)', held'[q])
      BY <2>1, <2>5, <3>1 DEF Inv, TypeOK
    <3> QED
      BY <1>1, <3>2 DEF Claims, Claim
  <2>9. Phases'
    BY <1>1, <2>1, <2>3 DEF Inv, TypeOK, Phases
  <2> QED
    BY <2>6, <2>7, <2>8, <2>9 DEF Inv
<1>3. CASE TableHandlesLate(r)
  <2>1. PICK o \in Outcomes(r) : Store(op[r].sku, o.item)
    BY <1>3 DEF TableHandlesLate
  <2>2. UNCHANGED <<pc, net, answer>> /\ late' = [late EXCEPT ![r] = @ - 1] /\ late[r] > 0
    BY <1>3 DEF TableHandlesLate
  <2>3. /\ items' \in [Skus -> Stored]
        /\ past' \in [Skus -> SUBSET Stored]
        /\ held' \in [Reqs -> SUBSET Stored]
        /\ Shows'
        /\ \A q \in Active : items'[op[q].sku] \in held'[q]
        /\ \A q \in Reqs : held[q] \subseteq held'[q] /\ Seen(q) \subseteq Seen(q)'
    BY <1>1, <2>1, StoreFacts
  <2>4. TypeOK'
    <3>1. late[r] \in Nat /\ late[r] - 1 \in Nat
      BY <2>2 DEF Inv, TypeOK
    <3>2. late' \in [Reqs -> Nat]
      BY <2>2, <3>1 DEF Inv, TypeOK
    <3> QED
      BY <1>1, <2>2, <2>3, <3>2 DEF Inv, TypeOK
  <2>5. Current' /\ Shows'
    BY <1>1, <2>2, <2>3 DEF Current, Active
  <2>6. Claims'
    <3>1. \A q \in Reqs : Claim(q, answer[q], Seen(q)', held'[q])
      BY <1>1, <2>3, ClaimsLast DEF Inv, Claims
    <3> QED
      BY <1>1, <2>2, <3>1 DEF Claims, Claim
  <2>7. Phases'
    BY <1>1, <2>2 DEF Inv, Phases
  <2> QED
    BY <2>4, <2>5, <2>6, <2>7 DEF Inv
<1> QED
  BY <1>2, <1>3

(* ... and the service's, that waits no longer. *)
LEMMA LeaveFacts ==
  ASSUME TypeOK, NEW R \in SUBSET Reqs, Leave(R)
  PROVE  late' \in [Reqs -> Nat]
BY DEF TypeOK, Leave

LEMMA WaitStep ==
  ASSUME Inv, NEW r \in Reqs, Resend(r) \/ GiveUp(r)
  PROVE  Inv'
<1>1. /\ op' = op /\ items' = items /\ past' = past /\ held' = held
      /\ svc' = svc /\ reply' = reply
      /\ pc[r] = "table" /\ Leave({r})
  BY DEF Resend, GiveUp
<1>2. late' \in [Reqs -> Nat]
  BY <1>1, LeaveFacts DEF Inv
<1>3. /\ Shows'
      /\ \A q \in Reqs : Seen(q)' = Seen(q)
  BY <1>1, SeenSame DEF Inv, Shows
<1>4. CASE Resend(r)
  <2>1. tries[r] + 1 \in 0 .. MaxAttempts
    BY <1>4, CatalogAssumption DEF Inv, TypeOK, Resend, MayResend
  <2>2. TypeOK'
    BY <1>1, <1>2, <1>4, <2>1 DEF Inv, TypeOK, Resend
  <2>3. Current' /\ Claims'
    BY <1>1, <1>3, <1>4 DEF Inv, Resend, Current, Active, Claims, Claim
  <2>4. Phases'
    BY <1>1, <1>4 DEF Inv, TypeOK, Resend, Phases
  <2> QED
    BY <1>3, <2>2, <2>3, <2>4 DEF Inv
<1>5. CASE GiveUp(r)
  <2>1. TypeOK'
    BY <1>1, <1>2, <1>5 DEF Inv, TypeOK, GiveUp, Answers, Failure, Stored
  <2>2. Current'
    BY <1>1, <1>5 DEF Inv, TypeOK, GiveUp, Current, Active
  <2>3. answer'[r].kind = "failed" /\ \A q \in Reqs \ {r} : answer'[q] = answer[q]
    BY <1>5 DEF Inv, TypeOK, GiveUp, Failure
  <2>4. Claims'
    BY <1>1, <1>3, <2>3 DEF Inv, Claims, Claim
  <2>5. Phases'
    BY <1>1, <1>5 DEF Inv, TypeOK, GiveUp, Phases
  <2> QED
    BY <1>3, <2>1, <2>2, <2>4, <2>5 DEF Inv
<1> QED
  BY <1>4, <1>5

LEMMA AbortStep ==
  ASSUME Inv, NEW R \in SUBSET Active, NEW code \in {"gone", "500"},
         Abort(R, code), svc' \in {"down", svc}
  PROVE  Inv'
<1>1. /\ op' = op /\ items' = items /\ past' = past /\ held' = held /\ tries' = tries
      /\ Leave(R) /\ R \subseteq Reqs
  BY DEF Abort, Active
<1>2. /\ Shows'
      /\ \A q \in Reqs : Seen(q)' = Seen(q)
  BY <1>1, SeenSame DEF Inv, Shows
<1>3. TypeOK'
  <2>1. late' \in [Reqs -> Nat]
    BY <1>1, LeaveFacts DEF Inv
  <2> QED
    BY <1>1, <2>1 DEF Inv, TypeOK, Abort, Answers, Failure, Stored, Codes
<1>4. Current'
  BY <1>1 DEF Inv, TypeOK, Abort, Current, Active
<1>5. \A q \in Reqs : answer'[q] = answer[q] \/ answer'[q].kind = "failed"
  BY DEF Abort, Failure
<1>6. Claims'
  BY <1>1, <1>2, <1>5 DEF Inv, Claims, Claim
<1>7. Phases'
  BY <1>1 DEF Inv, TypeOK, Abort, Phases, Active
<1> QED
  BY <1>2, <1>3, <1>4, <1>6, <1>7 DEF Inv

LEMMA InvStep == Inv /\ [Next]_vars => Inv'
<1> SUFFICES ASSUME Inv, [Next]_vars PROVE Inv'
  OBVIOUS
<1>1. ASSUME NEW r \in Reqs, BadBody(r) \/ Unreachable(r) \/ Forward(r) \/ Reply(r)
      PROVE  Inv'
  BY <1>1, GatewayStep
<1>2. ASSUME NEW r \in Reqs, TableHandles(r) \/ TableHandlesLate(r) PROVE Inv'
  BY <1>2, TableStep
<1>3. ASSUME NEW r \in Reqs, Resend(r) \/ GiveUp(r) PROVE Inv'
  BY <1>3, WaitStep
<1>4. ASSUME NEW r \in Reqs, Drop(r) PROVE Inv'
  BY <1>4, AbortStep DEF Drop
<1>5. CASE Crash
  BY <1>5, AbortStep DEF Crash
<1>6. ASSUME NEW portTaken \in BOOLEAN, Boot(portTaken) PROVE Inv'
  <2>1. UNCHANGED <<items, past, op, pc, net, late, tries, answer, reply, held>>
    BY <1>6 DEF Boot
  <2>2. svc' \in {"down", "hello", "serving"}
    BY <1>6 DEF Boot
  <2> QED
    BY <2>1, <2>2 DEF Inv, TypeOK, Current, Shows, Claims, Claim, Phases, Active,
                      Seen, Updates
<1>7. CASE UNCHANGED vars
  BY <1>7 DEF vars, Inv, TypeOK, Current, Shows, Claims, Claim, Phases, Active,
              Seen, Updates
<1> QED
  BY <1>1, <1>2, <1>3, <1>4, <1>5, <1>6, <1>7 DEF Next

LEMMA Invariance == Spec => []Inv
BY InitInv, InvStep, PTL DEF Spec

---------------------------------------------------------------------------
(* Every variable keeps its type, whatever the requests and attempts.      *)
THEOREM TypeCorrect == Spec => []TypeOK
<1>1. Inv => TypeOK
  BY DEF Inv
<1> QED
  BY <1>1, Invariance, PTL

(* What a reply says was so at some moment of the call (product.go,        *)
(* repository.go): the claims of all answers, and replies made of answers. *)
THEOREM AnswersAreTrue == Spec => []AnswersTrue
<1>1. Inv => AnswersTrue
  <2> SUFFICES ASSUME Inv, NEW r \in Reqs PROVE Truth(r)
    BY DEF AnswersTrue
  <2>1. /\ Claim(r, answer[r], Seen(r), held[r])
        /\ op[r].kind \in {"create", "update", "delete"}
        /\ reply[r] \in {"201", "200", "204"} =>
             answer[r].kind = "ok" /\ reply[r] = Success[op[r].kind]
    BY DEF Inv, Claims, Phases, TypeOK, Ops
  <2>2. CASE reply[r] \in {"201", "200"}
    BY <2>1, <2>2 DEF Truth, Claim, Success
  <2>3. CASE reply[r] = "204"
    BY <2>1, <2>3 DEF Truth, Claim, Success
  <2>4. CASE reply[r] = "500" /\ answer[r].kind = "refused"
    BY <2>1, <2>4 DEF Truth, Claim
  <2>5. CASE /\ reply[r] \notin {"201", "200", "204"}
             /\ ~(reply[r] = "500" /\ answer[r].kind = "refused")
    BY <2>5 DEF Truth
  <2> QED
    BY <2>2, <2>3, <2>4, <2>5
<1> QED
  BY <1>1, Invariance, PTL

---------------------------------------------------------------------------
(* Whoever stores an item: the table, for a request on its way.            *)
LEMMA WhoStores ==
  ASSUME Inv, [Next]_vars, NEW s \in Skus, items'[s] # items[s]
  PROVE  \E r \in Reqs : \E o \in Outcomes(r) :
            InFlight(r) /\ op[r].sku = s /\ items'[s] = o.item
<1>1. ASSUME NEW r \in Reqs, NEW o \in Outcomes(r), Store(op[r].sku, o.item)
      PROVE  op[r].sku = s /\ items'[s] = o.item
  BY <1>1 DEF Store, Inv, TypeOK
<1>2. ASSUME NEW r \in Reqs, TableHandles(r) PROVE InFlight(r)
  BY <1>2 DEF TableHandles, InFlight
<1>3. ASSUME NEW r \in Reqs, TableHandlesLate(r) PROVE InFlight(r)
  BY <1>3 DEF TableHandlesLate, InFlight
<1>4. \E r \in Reqs : TableHandles(r) \/ TableHandlesLate(r)
  BY DEF Next, vars, BadBody, Unreachable, Forward, Reply, Resend, GiveUp, Drop,
         Crash, Boot, Abort
<1> QED
  BY <1>1, <1>2, <1>3, <1>4 DEF TableHandles, TableHandlesLate

(* No half product is ever stored: a late update does not bring a deleted  *)
(* product back (repository.go:155).                                       *)
THEOREM ProductsAreWhole == Spec => []WholeProducts
<1>1. Init => WholeProducts
  BY CatalogAssumption DEF Init, WholeProducts, Fields
<1>2. Inv /\ WholeProducts /\ [Next]_vars => WholeProducts'
  <2> SUFFICES ASSUME Inv, WholeProducts, [Next]_vars, NEW s \in Skus
               PROVE  Complete(items'[s])
    BY DEF WholeProducts, Complete
  <2>1. Complete(items[s])
    BY DEF WholeProducts, Complete
  <2>2. CASE items'[s] = items[s]
    BY <2>1, <2>2
  <2>3. CASE items'[s] # items[s]
    BY <2>1, <2>3, WhoStores, OutcomeFacts DEF Inv
  <2> QED
    BY <2>2, <2>3
<1> QED
  BY <1>1, <1>2, Invariance, PTL DEF Spec

(* A stored product changes only in the fields an update in flight names   *)
(* (repository.go:117, 126-162).                                           *)
THEOREM OnlyNamedFields == Spec => OnlyNamedFieldsChange
<1>1. Inv /\ [Next]_vars => [ChangesNamed]_vars
  <2> SUFFICES ASSUME Inv, [Next]_vars, NEW s \in Skus,
                      items[s] # NoItem, items'[s] # NoItem,
                      NEW f \in Fields, items'[s][f] # items[s][f]
               PROVE  \E r \in Reqs : /\ InFlight(r)
                                      /\ op[r].kind = "update"
                                      /\ op[r].sku = s
                                      /\ f \in Updates(r)
    BY DEF ChangesNamed
  <2>1. PICK r \in Reqs : \E o \in Outcomes(r) :
          InFlight(r) /\ op[r].sku = s /\ items'[s] = o.item
    BY WhoStores
  <2> QED
    BY <2>1, OutcomeFacts DEF Inv
<1> QED
  BY <1>1, Invariance, PTL DEF Spec, OnlyNamedFieldsChange

---------------------------------------------------------------------------
(* The refinement of CatalogSpec.  Only a call let in is ever tried, and    *)
(* only what was tried can come late.                                      *)
Tried ==
  \A r \in Reqs :
    /\ pc[r] = "new" => tries[r] = 0
    /\ pc[r] \in {"table", "answered"} => tries[r] # 0
    /\ tries[r] = 0 => late[r] = 0

LEMMA TriedInvariant == Spec => []Tried
<1>1. Init => Tried
  BY DEF Init, Tried
<1>2. Inv /\ Tried /\ [Next]_vars => Tried'
  <2> SUFFICES ASSUME Inv, Tried, [Next]_vars PROVE Tried'
    OBVIOUS
  <2> USE DEF Inv, TypeOK
  <2>1. ASSUME NEW r \in Reqs, BadBody(r) \/ Unreachable(r) \/ Forward(r) \/ Reply(r)
        PROVE  Tried'
    BY <2>1 DEF BadBody, Unreachable, Forward, Reply, Tried
  <2>2. ASSUME NEW r \in Reqs, TableHandles(r)
        PROVE  Tried'
    BY <2>2 DEF TableHandles, Phases, Tried
  <2>3. ASSUME NEW r \in Reqs, TableHandlesLate(r)
        PROVE  Tried'
    BY <2>3 DEF TableHandlesLate, Tried
  <2>4. ASSUME NEW r \in Reqs, Resend(r) \/ GiveUp(r)
        PROVE  Tried'
    <3>1. tries[r] + 1 # 0
      OBVIOUS
    <3> QED
      BY <2>4, <3>1 DEF Resend, GiveUp, Leave, Phases, Tried
  <2>5. ASSUME NEW R \in SUBSET Active, NEW status, Abort(R, status)
        PROVE  Tried'
    BY <2>5 DEF Abort, Leave, Active, Phases, Tried
  <2>6. ASSUME NEW r \in Reqs, Drop(r) PROVE Tried'
    BY <2>5, <2>6 DEF Drop
  <2>7. CASE Crash
    BY <2>5, <2>7 DEF Crash
  <2>8. CASE UNCHANGED vars \/ \E portTaken \in BOOLEAN : Boot(portTaken)
    BY <2>8 DEF vars, Boot, Tried
  <2> QED
    BY <2>1, <2>2, <2>3, <2>4, <2>6, <2>7, <2>8 DEF Next
<1> QED
  BY <1>1, <1>2, Invariance, PTL DEF Spec

LEMMA PhaseSame ==
  ASSUME NEW r \in Reqs, pc'[r] = pc[r], answer'[r] = answer[r],
         tries'[r] = tries[r] \/ pc[r] = "table"
  PROVE  Phase(r)' = Phase(r)
BY DEF Phase

LEMMA CallMoves ==
  ASSUME NEW r \in Reqs, \A q \in Reqs \ {r} : Phase(q)' = Phase(q)
  PROVE  CallOf' = [CallOf EXCEPT ![r] = Phase(r)']
BY DEF CallOf

LEMMA CallStays ==
  ASSUME \A q \in Reqs : Phase(q)' = Phase(q)
  PROVE  CallOf' = CallOf
BY DEF CallOf

LEMMA AskedSame ==
  ASSUME op' = op
  PROVE  AskedFor' = AskedFor
BY DEF AskedFor, Updates

(* What is answered with success is an effect; all else changes nothing.   *)
LEMMA OutcomeIsEffect ==
  ASSUME TypeOK, NEW r \in Reqs, NEW o \in Outcomes(r)
  PROVE  IF o.answer.kind = "ok"
         THEN Catalog!Effect(AskedFor[r].kind, items[op[r].sku], o.item)
         ELSE o.item = items[op[r].sku]
<1> DEFINE old == items[op[r].sku]
<1>1. /\ op[r].kind \in {"create", "update", "delete"}
      /\ old \in Stored
      /\ AskedFor[r].kind = IF op[r].kind = "update" /\ Updates(r) = {}
                            THEN "read" ELSE op[r].kind
  BY DEF TypeOK, Ops, AskedFor
<1>2. /\ NewItem(r) \in Item /\ Merge(old, r) \in Item
      /\ old # NoItem => old \in Item
  BY <1>1, ItemFacts DEF Stored
<1>3. CASE o = [item |-> old, answer |-> Failure]
  BY <1>3 DEF Failure
<1>4. CASE op[r].kind = "create" /\ o \in Create(r, old)
  BY <1>1, <1>2, <1>4 DEF Create, NotExists, Ok, Refused, Catalog!Effect
<1>5. CASE op[r].kind = "update" /\ Updates(r) = {} /\ o \in Get(r, old)
  BY <1>1, <1>5 DEF Get, Ok, Refused, Catalog!Effect
<1>6. CASE op[r].kind = "update" /\ Updates(r) # {} /\ o \in Update(r, old)
  BY <1>1, <1>2, <1>6 DEF Update, Exists, Ok, Refused, Catalog!Effect
<1>7. CASE op[r].kind = "delete" /\ o \in Delete(r, old)
  BY <1>1, <1>2, <1>7 DEF Delete, Exists, Ok, Refused, Catalog!Effect
<1> QED
  BY <1>1, <1>3, <1>4, <1>5, <1>6, <1>7 DEF Outcomes, Update

LEMMA MapsInit == Init => Catalog!Init
<1> SUFFICES ASSUME Init PROVE Catalog!Init
  OBVIOUS
<1>1. [f \in Fields |-> Earlier] \in Item
  BY DEF Item
<1>2. items \in [Skus -> Item \cup {NoItem}]
  BY <1>1 DEF Init
<1>3. AskedFor \in [Reqs -> [kind : Catalog!Kinds, sku : Skus]]
  BY DEF Init, AskedFor, Ops, Catalog!Kinds
<1>4. CallOf = [r \in Reqs |-> "new"]
  BY DEF Init, CallOf, Phase
<1> QED
  BY <1>2, <1>3, <1>4 DEF Init, Catalog!Init

(* The gateway turns a request away, lets it in, or replies.               *)
LEMMA GatewayMaps ==
  ASSUME Inv, Tried, NEW r \in Reqs,
         BadBody(r) \/ Unreachable(r) \/ Forward(r) \/ Reply(r)
  PROVE  Catalog!Next
<1>1. /\ op' = op /\ items' = items /\ AskedFor' = AskedFor
  BY AskedSame DEF BadBody, Unreachable, Forward, Reply
<1>2. \A q \in Reqs \ {r} : Phase(q)' = Phase(q)
  BY PhaseSame DEF Inv, TypeOK, BadBody, Unreachable, Forward, Reply
<1>3. CallOf' = [CallOf EXCEPT ![r] = Phase(r)'] /\ CallOf[r] = Phase(r)
  BY <1>2, CallMoves DEF CallOf
<1>4. ASSUME NEW status \in {"400", "500"},
             pc[r] = "new", pc'[r] = "done", tries'[r] = tries[r],
             reply' = [reply EXCEPT ![r] = status]
      PROVE  Catalog!Bar(r, status)
  <2>1. Phase(r) = "new" /\ Phase(r)' = "barred"
    BY <1>4 DEF Phase, Tried
  <2> QED
    BY <1>1, <1>3, <1>4, <2>1 DEF Catalog!Bar
<1>5. CASE BadBody(r) \/ Unreachable(r)
  BY <1>4, <1>5 DEF BadBody, Unreachable, Inv, TypeOK, Catalog!Next
<1>6. CASE Forward(r)
  <2>1. Phase(r) = "new" /\ Phase(r)' = "open"
    BY <1>6 DEF Phase, Forward, Inv, TypeOK
  <2> QED
    BY <1>1, <1>3, <1>6, <2>1 DEF Forward, Catalog!LetIn, Catalog!Next
<1>7. CASE Reply(r)
  <2>1. /\ Phase(r) = IF answer[r].kind = "ok" THEN "acked" ELSE "failed"
        /\ Phase(r)' = "over"
    BY <1>7 DEF Phase, Reply, Inv, TypeOK, Tried
  <2>2. Code(r) = Catalog!StatusOf(r)
    <3>1. /\ op[r].kind \in {"create", "update", "delete"}
          /\ AskedFor[r].kind = IF op[r].kind = "update" /\ Updates(r) = {}
                                THEN "read" ELSE op[r].kind
      BY DEF Inv, TypeOK, Ops, AskedFor
    <3> QED
      BY <1>3, <2>1, <3>1 DEF Code, Success, Catalog!StatusOf
  <2> QED
    BY <1>1, <1>3, <1>7, <2>1, <2>2 DEF Reply, Catalog!Reply, Catalog!Next
<1> QED
  BY <1>5, <1>6, <1>7

(* The table makes the request take effect, or not.                        *)
LEMMA TableMaps ==
  ASSUME Inv, Tried, NEW r \in Reqs, TableHandles(r) \/ TableHandlesLate(r)
  PROVE  Catalog!Next \/ UNCHANGED Catalog!vars
<1> DEFINE s == op[r].sku
<1>1. /\ op' = op /\ reply' = reply /\ AskedFor' = AskedFor /\ tries' = tries
      /\ AskedFor[r].sku = s /\ s \in Skus
  BY AskedSame DEF TableHandles, TableHandlesLate, AskedFor, Inv, TypeOK, Ops
<1>2. CallOf[r] = Phase(r) /\ Phase(r) \notin {"new", "barred"}
  <2>1. pc[r] # "new" /\ tries[r] # 0
    BY DEF TableHandles, TableHandlesLate, Inv, TypeOK, Phases, Tried
  <2> QED
    BY <2>1 DEF CallOf, Phase
<1>3. PICK o \in Outcomes(r) :
        /\ Store(s, o.item)
        /\ \/ UNCHANGED <<pc, answer>>
           \/ /\ net[r] = "sent"
              /\ pc' = [pc EXCEPT ![r] = "answered"]
              /\ answer' = [answer EXCEPT ![r] = o.answer]
  BY DEF TableHandles, TableHandlesLate
<1>4. items' = [items EXCEPT ![s] = o.item] /\ items'[s] = o.item
  BY <1>1, <1>3 DEF Store, Inv, TypeOK
<1>5. o.answer.kind # "ok" => items' = items
  BY <1>1, <1>4, OutcomeIsEffect DEF Inv, TypeOK
<1>6. o.answer.kind = "ok" => Catalog!TakeEffect(r)
  <2>1. o.answer.kind = "ok" => Catalog!Effect(AskedFor[r].kind, items[s], items'[s])
    BY <1>4, OutcomeIsEffect DEF Inv
  <2> QED
    BY <1>1, <1>2, <1>4, <2>1 DEF Catalog!TakeEffect
<1>7. CASE UNCHANGED <<pc, answer>>
  <2>1. CallOf' = CallOf
    BY <1>1, <1>7, PhaseSame, CallStays
  <2> QED
    BY <1>1, <1>5, <1>6, <2>1 DEF Catalog!Unheard, Catalog!Next, Catalog!vars
<1>8. CASE /\ net[r] = "sent"
           /\ pc' = [pc EXCEPT ![r] = "answered"]
           /\ answer' = [answer EXCEPT ![r] = o.answer]
  <2>1. \A q \in Reqs \ {r} : Phase(q)' = Phase(q)
    BY <1>1, <1>8, PhaseSame DEF Inv, TypeOK
  <2>2. Phase(r) = "open" /\ Phase(r)' = IF o.answer.kind = "ok" THEN "acked" ELSE "failed"
    BY <1>8 DEF Phase, Inv, TypeOK, Phases
  <2>3. CallOf' = [CallOf EXCEPT ![r] = Phase(r)']
    BY <2>1, CallMoves
  <2>4. CASE o.answer.kind = "ok"
    BY <1>2, <1>6, <2>2, <2>3, <2>4 DEF Catalog!Acknowledged, Catalog!Next
  <2>5. CASE o.answer.kind # "ok"
    BY <1>1, <1>2, <1>5, <2>2, <2>3, <2>5 DEF Catalog!Fail, Catalog!Next
  <2> QED
    BY <2>4, <2>5
<1> QED
  BY <1>3, <1>7, <1>8

(* The service waits no longer.                                            *)
LEMMA WaitMaps ==
  ASSUME Inv, NEW r \in Reqs, Resend(r) \/ GiveUp(r)
  PROVE  Catalog!Next \/ UNCHANGED Catalog!vars
<1>1. /\ op' = op /\ items' = items /\ reply' = reply /\ AskedFor' = AskedFor
      /\ pc[r] = "table"
  BY AskedSame DEF Resend, GiveUp
<1>2. CASE Resend(r)
  <2>1. \A q \in Reqs : Phase(q)' = Phase(q)
    BY <1>1, <1>2, PhaseSame DEF Resend, Inv, TypeOK
  <2> QED
    BY <1>1, <2>1, CallStays DEF Catalog!vars
<1>3. CASE GiveUp(r)
  <2>1. \A q \in Reqs \ {r} : Phase(q)' = Phase(q)
    BY <1>3, PhaseSame DEF GiveUp, Inv, TypeOK
  <2>2. Phase(r) = "open" /\ Phase(r)' = "failed" /\ CallOf[r] = Phase(r)
    BY <1>1, <1>3 DEF GiveUp, Phase, CallOf, Failure, Inv, TypeOK
  <2> QED
    BY <1>1, <2>1, <2>2, CallMoves DEF Catalog!Fail, Catalog!Next
<1> QED
  BY <1>2, <1>3

LEMMA AbortMaps ==
  ASSUME Inv, Tried, NEW R \in SUBSET Active, NEW status \in {"gone", "500"},
         Abort(R, status)
  PROVE  Catalog!Next
<1>1. /\ op' = op /\ items' = items /\ tries' = tries /\ AskedFor' = AskedFor
      /\ R \in SUBSET Reqs
      /\ reply' = [r \in Reqs |-> IF r \in R THEN status ELSE reply[r]]
  BY AskedSame DEF Abort, Active
<1>2. \A r \in Reqs \ R : Phase(r)' = Phase(r)
  BY <1>1, PhaseSame DEF Abort
<1>3. \A r \in R : /\ CallOf[r] \in {"open", "acked", "failed"}
                   /\ Phase(r)' = "over"
  BY <1>1 DEF Abort, Active, CallOf, Phase, Tried
<1>4. CallOf' = [r \in Reqs |-> IF r \in R THEN "over" ELSE CallOf[r]]
  BY <1>1, <1>2, <1>3 DEF CallOf
<1>5. Catalog!Break(R, status)
  BY <1>1, <1>3, <1>4 DEF Catalog!Break
<1> QED
  BY <1>1, <1>5 DEF Catalog!Next

LEMMA MapsStep == Inv /\ Tried /\ [Next]_vars => [Catalog!Next]_Catalog!vars
<1> SUFFICES ASSUME Inv, Tried, [Next]_vars
             PROVE  Catalog!Next \/ UNCHANGED Catalog!vars
  OBVIOUS
<1>1. ASSUME NEW r \in Reqs, BadBody(r) \/ Unreachable(r) \/ Forward(r) \/ Reply(r)
      PROVE  Catalog!Next
  BY <1>1, GatewayMaps
<1>2. ASSUME NEW r \in Reqs, TableHandles(r) \/ TableHandlesLate(r) \/ Resend(r) \/ GiveUp(r)
      PROVE  Catalog!Next \/ UNCHANGED Catalog!vars
  BY <1>2, TableMaps, WaitMaps
<1>3. ASSUME NEW r \in Reqs, Drop(r) PROVE Catalog!Next
  BY <1>3, AbortMaps DEF Drop
<1>4. CASE Crash
  BY <1>4, AbortMaps DEF Crash
<1>5. CASE UNCHANGED vars \/ \E portTaken \in BOOLEAN : Boot(portTaken)
  <2>1. UNCHANGED <<items, op, pc, tries, answer, reply>>
    BY <1>5 DEF vars, Boot
  <2> QED
    BY <2>1, AskedSame, PhaseSame, CallStays DEF Catalog!vars
<1> QED
  BY <1>1, <1>2, <1>3, <1>4, <1>5 DEF Next

(* The gateway, the service and the table with everything that is lost,    *)
(* late or repeated between them do what one table with atomic requests    *)
(* may do (product.go:25-67, repository.go:112-194).                       *)
THEOREM CatalogImplemented == Spec => ImplementsCatalog
BY MapsInit, MapsStep, Invariance, TriedInvariant, PTL
   DEF Spec, ImplementsCatalog, Catalog!Spec
=============================================================================
