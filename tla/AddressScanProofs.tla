------------------------- MODULE AddressScanProofs -------------------------
(***************************************************************************)
(* What holds of the address scan for every finite set of keys: its types, *)
(* the safety of the channel, the answer, and that it implements ScanSpec. *)
(***************************************************************************)
EXTENDS AddressScan, FiniteSetTheorems, TLAPS

(* The goroutines the wait group still counts. *)
Live == unspawned \cup {k \in Keys : pc[k] \in {"reading", "sending", "exiting"}}

(* Who runs when: the counter is exactly the number of goroutines that     *)
(* have yet to finish, so that it is 0 only when nobody can send any more. *)
Control ==
  /\ \A k \in unspawned : pc[k] = "unborn"
  /\ main # "spawning" => unspawned = {}
  /\ main \in {"keys", "failed"} => \A k \in Keys : pc[k] = "unborn"
  /\ main \in {"ranging", "returned"} <=> closer # "unborn"
  /\ closed <=> closer = "done"
  /\ closed => wg = 0
  /\ main = "returned" => closed
  /\ ~panicked
  /\ \A k \in Keys : pc[k] = "sending" => data[k] \in Values
  /\ wg = Cardinality(Live)

IInv == TypeOK /\ Control

---------------------------------------------------------------------------
LEMMA LiveFinite ==
  ASSUME TypeOK
  PROVE  /\ IsFiniteSet(Live)
         /\ Cardinality(Live) \in Nat
         /\ Cardinality(Live) = 0 <=> Live = {}
<1>1. Live \subseteq Keys
  BY DEF Live, TypeOK
<1>2. IsFiniteSet(Live)
  BY <1>1, KeysAssumption, FS_Subset
<1> QED
  BY <1>2, FS_CardinalityType, FS_EmptySet

LEMMA InitIInv == Init => IInv
<1> SUFFICES ASSUME Init PROVE IInv
  OBVIOUS
<1>1. Live = {}
  BY DEF Init, Live
<1>2. TypeOK
  <2>1. << >> \in Seq(Keys \X Values)
    OBVIOUS
  <2> QED
    BY <2>1 DEF Init, TypeOK
<1>3. Cardinality(Live) = 0
  BY <1>1, FS_EmptySet
<1> QED
  BY <1>2, <1>3 DEF IInv, Init, Control

LEMMA CallerStep ==
  ASSUME IInv, Caller
  PROVE  IInv'
<1> USE DEF IInv, TypeOK, Control
<1>1. ASSUME NEW ks \in SUBSET Keys, ListKeys(ks)
      PROVE  IInv'
  <2>1. Live' = ks
    BY <1>1 DEF ListKeys, Live
  <2>2. Cardinality(ks) \in Nat
    BY KeysAssumption, FS_Subset, FS_CardinalityType
  <2>3. wg' = Cardinality(Live')
    BY <1>1, <2>1 DEF ListKeys, Add
  <2> QED
    BY <1>1, <2>2, <2>3 DEF ListKeys, Add
<1>2. CASE ListFails
  <2>1. Live' = Live
    BY <1>2 DEF ListFails, Live
  <2> QED
    BY <1>2, <2>1 DEF ListFails
<1>3. ASSUME NEW k \in Keys, Spawn(k)
      PROVE  IInv'
  <2>1. Live' = Live
    BY <1>3 DEF Spawn, Goto, Live
  <2> QED
    BY <1>3, <2>1 DEF Spawn, Goto
<1>4. CASE SpawnCloser
  <2>1. Live' = Live
    BY <1>4 DEF SpawnCloser, Live
  <2> QED
    BY <1>4, <2>1 DEF SpawnCloser
<1>5. CASE Return
  <2>1. Live' = Live
    BY <1>5 DEF Return, Live
  <2> QED
    BY <1>5, <2>1 DEF Return
<1> QED
  BY <1>1, <1>2, <1>3, <1>4, <1>5 DEF Caller

LEMMA GoroutineStep ==
  ASSUME IInv, NEW k \in Keys, Goroutine(k)
  PROVE  IInv'
<1> USE DEF IInv, TypeOK, Control
<1>1. pc[k] \in {"reading", "sending", "exiting"} /\ k \in Live /\ k \notin unspawned
  BY DEF Goroutine, Read, ReadFails, Send, Done, Live
<1>2. main \in {"spawning", "ranging"} /\ ~closed
  BY <1>1, LiveFinite
<1>3. ASSUME NEW v \in Values, Read(k, v)
      PROVE  IInv'
  <2>1. Live' = Live
    BY <1>1, <1>3 DEF Read, Goto, Live
  <2> QED
    BY <1>1, <1>2, <1>3, <2>1 DEF Read, Goto
<1>4. CASE ReadFails(k)
  <2>1. Live' = Live
    BY <1>1, <1>4 DEF ReadFails, Goto, Live
  <2> QED
    BY <1>1, <1>2, <1>4, <2>1 DEF ReadFails, Goto
<1>5. CASE Send(k)
  <2>1. Live' = Live
    BY <1>1, <1>5 DEF Send, Goto, Live
  <2>2. result' \in Seq(Keys \X Values)
    BY <1>2, <1>5 DEF Send
  <2> QED
    BY <1>1, <1>2, <1>5, <2>1, <2>2 DEF Send, Goto
<1>6. CASE Done(k)
  <2>1. Live' = Live \ {k}
    BY <1>1, <1>6 DEF Done, Goto, Live
  <2>2. Cardinality(Live') = Cardinality(Live) - 1
    BY <1>1, <2>1, LiveFinite, FS_RemoveElement
  <2>3. Cardinality(Live') \in Nat
    BY <2>1, LiveFinite, FS_RemoveElement, FS_CardinalityType
  <2> QED
    BY <1>1, <1>2, <1>6, <2>2, <2>3 DEF Done, Goto
<1> QED
  BY <1>3, <1>4, <1>5, <1>6 DEF Goroutine

LEMMA IInvInvariant == Spec => []IInv
<1>1. IInv /\ Close => IInv'
  <2> SUFFICES ASSUME IInv, Close PROVE IInv'
    OBVIOUS
  <2>1. Live' = Live
    BY DEF Close, Live
  <2> QED
    BY <2>1 DEF IInv, TypeOK, Control, Close
<1>2. IInv /\ UNCHANGED vars => IInv'
  <2> SUFFICES ASSUME IInv, UNCHANGED vars PROVE IInv'
    OBVIOUS
  <2>1. Live' = Live
    BY DEF vars, Live
  <2> QED
    BY <2>1 DEF IInv, TypeOK, Control, vars
<1>3. IInv /\ [Next]_vars => IInv'
  BY <1>1, <1>2, CallerStep, GoroutineStep DEF Next
<1> QED
  BY <1>3, InitIInv, PTL DEF Spec

(* Every variable keeps its type; in particular the wait group's counter   *)
(* never becomes negative, which would panic.                              *)
THEOREM TypeCorrect == Spec => []TypeOK
<1>1. IInv => TypeOK
  BY DEF IInv
<1> QED
  BY <1>1, IInvInvariant, PTL

(* No send meets a closed channel, and the call leaves no goroutine behind.*)
THEOREM ChannelIsSafe == Spec => []ChannelSafe
<1>1. IInv => ChannelSafe
  <2> SUFFICES ASSUME IInv PROVE ChannelSafe
    OBVIOUS
  <2>1. closed => Live = {}
    BY LiveFinite DEF IInv, Control
  <2> QED
    BY <2>1 DEF IInv, TypeOK, Control, Live, ChannelSafe
<1> QED
  BY <1>1, IInvInvariant, PTL

---------------------------------------------------------------------------
(* What a goroutine read reaches the result when it sends, and only then.  *)
Sent(k) == pc[k] \in {"exiting", "done"} /\ data[k] # None

Answered ==
  /\ \A k \in Keys : pc[k] \in {"unborn", "reading"} => data[k] = None
  /\ \A k \in Keys : Sent(k) => \E i \in DOMAIN result : result[i] = <<k, data[k]>>
  /\ \A i \in DOMAIN result :
       /\ Sent(result[i][1])
       /\ result[i][2] = data[result[i][1]]
  /\ \A i, j \in DOMAIN result : result[i][1] = result[j][1] => i = j

(* A send appends the goroutine's node: the only step that changes result. *)
LEMMA SendAnswers ==
  ASSUME IInv, Answered, NEW k \in Keys, Send(k)
  PROVE  /\ result' = Append(result, <<k, data[k]>>)
         /\ Answered'
<1> USE DEF IInv, TypeOK
<1>1. ~closed /\ data[k] \in Values
  <2>1. k \in Live
    BY DEF Send, Live
  <2> QED
    BY <2>1, LiveFinite DEF Control, Send
<1>2. result' = Append(result, <<k, data[k]>>) /\ data' = data
  BY <1>1 DEF Send
<1>3. \A l \in Keys : pc'[l] = IF l = k THEN "exiting" ELSE pc[l]
  BY DEF Send, Goto
<1>4. \A l \in Keys : Sent(l)' <=> (l = k \/ Sent(l))
  BY <1>1, <1>2, <1>3, NoneAssumption DEF Sent
<1>5. ~Sent(k) /\ \A i \in DOMAIN result : result[i][1] # k
  BY DEF Answered, Send, Sent
<1>6. /\ Len(result') = Len(result) + 1
      /\ \A i \in 1 .. Len(result) : result'[i] = result[i]
      /\ result'[Len(result) + 1] = <<k, data[k]>>
      /\ DOMAIN result = 1 .. Len(result)
      /\ DOMAIN result' = 1 .. Len(result) + 1
  BY <1>1, <1>2
<1>7. \A l \in Keys : pc'[l] \in {"unborn", "reading"} => data'[l] = None
  BY <1>2, <1>3 DEF Answered
<1>8. \A l \in Keys : Sent(l)' => \E i \in DOMAIN result' : result'[i] = <<l, data'[l]>>
  <2> SUFFICES ASSUME NEW l \in Keys, Sent(l)'
               PROVE  \E i \in DOMAIN result' : result'[i] = <<l, data'[l]>>
    OBVIOUS
  <2>1. CASE l = k
    BY <1>2, <1>6, <2>1
  <2>2. CASE Sent(l)
    BY <1>2, <1>6, <2>2 DEF Answered
  <2> QED
    BY <1>4, <2>1, <2>2
<1>9. \A i \in DOMAIN result : result[i] \in Keys \X Values
  BY <1>6
<1>10. (\A i \in DOMAIN result : Sent(result[i][1]) /\ result[i][2] = data[result[i][1]])'
  <2> SUFFICES ASSUME NEW i \in DOMAIN result',
                      NEW l \in Keys, l = result'[i][1]
               PROVE  Sent(l)' /\ result'[i][2] = data'[l]
    BY <1>1, <1>6, <1>9 DEF Sent
  <2>1. CASE i = Len(result) + 1
    BY <1>2, <1>4, <1>6, <2>1
  <2>2. CASE i \in DOMAIN result
    BY <1>2, <1>4, <1>6, <2>2 DEF Answered
  <2> QED
    BY <1>6, <2>1, <2>2
<1>11. \A i, j \in DOMAIN result' : result'[i][1] = result'[j][1] => i = j
  BY <1>5, <1>6 DEF Answered
<1> QED
  BY <1>2, <1>7, <1>8, <1>10, <1>11 DEF Answered

LEMMA AnsweredStep ==
  ASSUME IInv, Answered, [Next]_vars
  PROVE  Answered'
<1> USE DEF IInv, TypeOK
<1>1. ASSUME NEW k \in Keys, Send(k)
      PROVE  Answered'
  BY <1>1, SendAnswers
<1>2. ASSUME NEW k \in Keys, NEW v \in Values, Read(k, v)
      PROVE  Answered'
  <2>1. \A l \in Keys : l # k => data'[l] = data[l] /\ pc'[l] = pc[l]
    BY <1>2 DEF Read, Goto
  <2>2. pc[k] = "reading" /\ pc'[k] = "sending" /\ result' = result
    BY <1>2 DEF Read, Goto
  <2>3. \A l \in Keys : Sent(l)' <=> Sent(l)
    BY <2>1, <2>2 DEF Sent
  <2>4. \A i \in DOMAIN result : result[i][1] \in Keys /\ result[i][1] # k
    BY <2>2 DEF Answered, Sent
  <2> QED
    BY <2>1, <2>2, <2>3, <2>4 DEF Answered, Sent
<1>3. ASSUME NEW k \in Keys, Spawn(k) \/ ReadFails(k) \/ Done(k)
      PROVE  Answered'
  <2>1. result' = result /\ data' = data
    BY <1>3 DEF Spawn, ReadFails, Done
  <2>2. \A l \in Keys : Sent(l)' <=> Sent(l)
    BY <1>3, <2>1 DEF Spawn, ReadFails, Done, Goto, Sent, Answered, Control
  <2>3. \A l \in Keys : pc'[l] \in {"unborn", "reading"} => pc[l] \in {"unborn", "reading"}
    BY <1>3 DEF Spawn, ReadFails, Done, Goto, Control
  <2>4. \A i \in DOMAIN result : result[i][1] \in Keys
    OBVIOUS
  <2> QED
    BY <2>1, <2>2, <2>3, <2>4 DEF Answered
<1>4. ASSUME \/ \E ks \in SUBSET Keys : ListKeys(ks)
             \/ ListFails \/ SpawnCloser \/ Return \/ Close \/ UNCHANGED vars
      PROVE  Answered'
  BY <1>4 DEF ListKeys, ListFails, SpawnCloser, Return, Close, vars, Answered, Sent
<1> QED
  BY <1>1, <1>2, <1>3, <1>4 DEF Next, Caller, Goroutine

LEMMA AnsweredInvariant == Spec => []Answered
<1>1. Init => Answered
  BY DEF Init, Answered, Sent
<1>2. IInv /\ Answered /\ [Next]_vars => Answered'
  BY AnsweredStep
<1> QED
  BY <1>1, <1>2, IInvInvariant, PTL DEF Spec

(* The answer holds every key whose read succeeded, once, as it was read.  *)
THEOREM AnswerIsWhole == Spec => []AnswerWhole
<1>1. IInv /\ Answered => AnswerWhole
  <2> SUFFICES ASSUME IInv, Answered, main = "returned"
               PROVE  AnswerWhole
    BY DEF AnswerWhole
  <2>1. Live = {}
    BY LiveFinite DEF IInv, Control
  <2>2. \A k \in Keys : data[k] # None => Sent(k)
    BY <2>1 DEF Live, Sent, IInv, TypeOK, Answered
  <2> QED
    BY <2>2 DEF AnswerWhole, Answered, Sent
<1> QED
  BY <1>1, IInvInvariant, AnsweredInvariant, PTL

---------------------------------------------------------------------------
(* Every step of the fan-out is a step of ScanSpec, or none of its affair. *)
LEMMA StepImplementsScan ==
  ASSUME IInv, Answered, [Next]_vars
  PROVE  [Scan!Next]_Scan!vars
<1> USE DEF IInv, TypeOK
<1>1. ASSUME NEW ks \in SUBSET Keys, ListKeys(ks)
      PROVE  Scan!List(ks)
  BY <1>1 DEF ListKeys, Control, Scan!List, StatusOf, Unfinished, NodesOf
<1>2. ListFails => Scan!Fail
  BY DEF ListFails, Scan!Fail, StatusOf, Unfinished, NodesOf
<1>3. ASSUME NEW k \in Keys, Spawn(k)
      PROVE  UNCHANGED Scan!vars
  BY <1>3 DEF Spawn, Goto, Scan!vars, StatusOf, Unfinished, NodesOf
<1>4. SpawnCloser => UNCHANGED Scan!vars
  BY DEF SpawnCloser, Scan!vars, StatusOf, Unfinished, NodesOf
<1>5. ASSUME Return
      PROVE  Scan!Return
  <2>1. Unfinished = {}
    BY <1>5, LiveFinite DEF Return, Control, Live, Unfinished
  <2> QED
    BY <1>5, <2>1 DEF Return, Scan!Return, StatusOf, Unfinished, NodesOf
<1>6. ASSUME NEW k \in Keys, pc[k] \in {"reading", "sending", "exiting"}
      PROVE  StatusOf = "reading" /\ ~closed /\ k \notin unspawned
  <2>1. k \in Live
    BY <1>6 DEF Live
  <2>2. main \in {"spawning", "ranging"} /\ ~closed
    BY <1>6, <2>1, LiveFinite DEF Control
  <2> QED
    BY <1>6, <2>2 DEF StatusOf, Control
<1>7. ASSUME NEW k \in Keys, NEW v \in Values, Read(k, v)
      PROVE  UNCHANGED Scan!vars
  BY <1>7 DEF Read, Goto, Scan!vars, StatusOf, Unfinished, NodesOf
<1>8. ASSUME NEW k \in Keys, ReadFails(k)
      PROVE  Scan!Drop(k)
  <2>1. StatusOf = "reading" /\ k \notin unspawned
    BY <1>6, <1>8 DEF ReadFails
  <2>2. StatusOf' = StatusOf /\ NodesOf' = NodesOf
    BY <1>8 DEF ReadFails, StatusOf, NodesOf
  <2>3. k \in Unfinished /\ Unfinished' = Unfinished \ {k}
    BY <1>8, <2>1 DEF ReadFails, Goto, Unfinished
  <2> QED
    BY <2>1, <2>2, <2>3 DEF Scan!Drop
<1>9. ASSUME NEW k \in Keys, Send(k)
      PROVE  data[k] \in Values /\ Scan!Deliver(k, data[k])
  <2>1. StatusOf = "reading" /\ k \notin unspawned /\ data[k] \in Values
    BY <1>6, <1>9 DEF Send, Control
  <2>2. StatusOf' = StatusOf
    BY <1>9 DEF Send, StatusOf
  <2>3. NodesOf' = NodesOf \cup {<<k, data[k]>>}
    <3>1. result' = Append(result, <<k, data[k]>>)
      BY <1>9, SendAnswers
    <3>2. /\ DOMAIN result' = DOMAIN result \cup {Len(result) + 1}
          /\ \A i \in DOMAIN result : result'[i] = result[i]
          /\ result'[Len(result) + 1] = <<k, data[k]>>
      BY <2>1, <3>1
    <3> QED
      BY <3>2 DEF NodesOf
  <2>4. k \in Unfinished /\ Unfinished' = Unfinished \ {k}
    BY <1>9, <2>1 DEF Send, Goto, Unfinished
  <2> QED
    BY <2>1, <2>2, <2>3, <2>4 DEF Scan!Deliver
<1>10. ASSUME NEW k \in Keys, Done(k)
       PROVE  UNCHANGED Scan!vars
  BY <1>10 DEF Done, Goto, Scan!vars, StatusOf, Unfinished, NodesOf
<1>11. Close \/ UNCHANGED vars => UNCHANGED Scan!vars
  BY DEF Close, vars, Scan!vars, StatusOf, Unfinished, NodesOf
<1> QED
  BY <1>1, <1>2, <1>3, <1>4, <1>5, <1>7, <1>8, <1>9, <1>10, <1>11
     DEF Next, Caller, Goroutine, Scan!Next

(* The fan-out implements the promise of the storage interface, but for    *)
(* the liveness that fairness gives it, which is model-checked.            *)
THEOREM ImplementsSafety == Spec => Scan!Safe
<1>1. Init => Scan!Init
  BY DEF Init, Scan!Init, StatusOf, Unfinished, NodesOf
<1>2. IInv /\ Answered /\ [Next]_vars => [Scan!Next]_Scan!vars
  BY StepImplementsScan
<1> QED
  BY <1>1, <1>2, IInvInvariant, AnsweredInvariant, PTL DEF Spec, Scan!Safe
============================================================================
