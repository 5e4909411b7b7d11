---------------------------- MODULE AddressScan ----------------------------
(***************************************************************************)
(* GetAddressOfAllServices (config/storage/node.go:46-83) as it runs: one  *)
(* goroutine for each key sends what SMEMBERS gave it on the unbuffered    *)
(* channel dChan and then counts the wait group down; a closer waits for   *)
(* the group and closes the channel; the caller ranges over the channel    *)
(* until it is closed.                                                     *)
(***************************************************************************)
EXTENDS Integers, Sequences, FiniteSets

CONSTANTS
  Keys,     \* the keys of the services
  Values,   \* what a set's members can be
  None      \* nothing was read

ASSUME KeysAssumption == IsFiniteSet(Keys)
ASSUME NoneAssumption == None \notin Values

VARIABLES
  main,       \* the caller: "keys", "spawning", "ranging", "returned", "failed"
  unspawned,  \* keys the first loop has yet to reach
  pc,         \* each goroutine: "unborn", "reading", "sending", "exiting", "done"
  data,       \* what each goroutine read
  wg,         \* the wait group's counter
  closer,     \* the closing goroutine: "unborn", "waiting", "done"
  closed,     \* is dChan closed
  panicked,   \* was there a send on the closed channel
  result      \* the nodes received, as <<key, members>> pairs

vars == <<main, unspawned, pc, data, wg, closer, closed, panicked, result>>

TypeOK ==
  /\ main \in {"keys", "spawning", "ranging", "returned", "failed"}
  /\ unspawned \subseteq Keys
  /\ pc \in [Keys -> {"unborn", "reading", "sending", "exiting", "done"}]
  /\ data \in [Keys -> Values \cup {None}]
  /\ wg \in Nat
  /\ closer \in {"unborn", "waiting", "done"}
  /\ closed \in BOOLEAN
  /\ panicked \in BOOLEAN
  /\ result \in Seq(Keys \X Values)

Init ==
  /\ main = "keys"
  /\ unspawned = {}
  /\ pc = [k \in Keys |-> "unborn"]
  /\ data = [k \in Keys |-> None]
  /\ wg = 0
  /\ closer = "unborn"
  /\ closed = FALSE
  /\ panicked = FALSE
  /\ result = << >>

Goto(k, label) == pc' = [pc EXCEPT ![k] = label]

---------------------------------------------------------------------------
(* wg.Add(len(allServiceKeys)), before any goroutine runs. *)
AddOneLess(ks) == Cardinality(ks) - 1
AddOneMore(ks) == Cardinality(ks) + 1
Add(ks) == Cardinality(ks)

ListKeys(ks) ==
  /\ main = "keys"
  /\ main' = "spawning"
  /\ unspawned' = ks
  /\ wg' = Add(ks)
  /\ UNCHANGED <<pc, data, closer, closed, panicked, result>>

ListFails ==
  /\ main = "keys"
  /\ main' = "failed"
  /\ UNCHANGED <<unspawned, pc, data, wg, closer, closed, panicked, result>>

Spawn(k) ==
  /\ main = "spawning"
  /\ k \in unspawned
  /\ unspawned' = unspawned \ {k}
  /\ Goto(k, "reading")
  /\ UNCHANGED <<main, data, wg, closer, closed, panicked, result>>

(* The loop is over: start the closer and range over the channel. *)
SpawnCloser ==
  /\ main = "spawning"
  /\ unspawned = {}
  /\ closer' = "waiting"
  /\ main' = "ranging"
  /\ UNCHANGED <<unspawned, pc, data, wg, closed, panicked, result>>

Read(k, v) ==
  /\ pc[k] = "reading"
  /\ data' = [data EXCEPT ![k] = v]
  /\ Goto(k, "sending")
  /\ UNCHANGED <<main, unspawned, wg, closer, closed, panicked, result>>

(* The error is dropped, and the key with it. *)
ReadFails(k) ==
  /\ pc[k] = "reading"
  /\ Goto(k, "exiting")
  /\ UNCHANGED <<main, unspawned, data, wg, closer, closed, panicked, result>>

(* Unbuffered: a send waits for the range loop to receive; on a closed     *)
(* channel it panics instead.                                              *)
Send(k) ==
  /\ pc[k] = "sending"
  /\ main = "ranging" \/ closed
  /\ panicked' = (panicked \/ closed)
  /\ result' = IF closed THEN result ELSE Append(result, <<k, data[k]>>)
  /\ Goto(k, "exiting")
  /\ UNCHANGED <<main, unspawned, data, wg, closer, closed>>

(* The deferred wg.Done(). *)
Done(k) ==
  /\ pc[k] = "exiting"
  /\ wg' = wg - 1
  /\ Goto(k, "done")
  /\ UNCHANGED <<main, unspawned, data, closer, closed, panicked, result>>

Close ==
  /\ closer = "waiting"
  /\ wg = 0
  /\ closer' = "done"
  /\ closed' = TRUE
  /\ UNCHANGED <<main, unspawned, pc, data, wg, panicked, result>>

(* The range loop ends when the channel is closed. *)
Return ==
  /\ main = "ranging"
  /\ closed
  /\ main' = "returned"
  /\ UNCHANGED <<unspawned, pc, data, wg, closer, closed, panicked, result>>

Goroutine(k) ==
  \/ \E v \in Values : Read(k, v)
  \/ ReadFails(k)
  \/ Send(k)
  \/ Done(k)

Caller ==
  \/ \E ks \in SUBSET Keys : ListKeys(ks)
  \/ ListFails
  \/ \E k \in Keys : Spawn(k)
  \/ SpawnCloser
  \/ Return

Next ==
  \/ Caller
  \/ \E k \in Keys : Goroutine(k)
  \/ Close

(* The Go scheduler runs every goroutine; Redis calls time out.  *)
Fairness ==
  /\ WF_vars(Caller)
  /\ \A k \in Keys : WF_vars(Goroutine(k))
  /\ WF_vars(Close)

Spec == Init /\ [][Next]_vars /\ Fairness

---------------------------------------------------------------------------
(* Nobody sends on the channel once it is closed, and no goroutine is left *)
(* behind when the call has returned (node.go:51-75).                      *)
ChannelSafe ==
  /\ ~panicked
  /\ closed => \A k \in Keys : pc[k] \in {"unborn", "done"}
  /\ main = "returned" => closed

(* The answer has every key whose read succeeded, once, with what was read *)
(* (node.go:77-82).                                                        *)
AnswerWhole ==
  main = "returned" =>
     /\ \A k \in Keys : data[k] # None => \E i \in DOMAIN result : result[i] = <<k, data[k]>>
     /\ \A i, j \in DOMAIN result : result[i][1] = result[j][1] => i = j
     /\ \A i \in DOMAIN result : data[result[i][1]] # None

(* The fan-out implements the promise, with its fairness: the caller, the  *)
(* worker's only thread, always gets an answer.  The goroutines that have  *)
(* not sent or given up are the keys still to do.                          *)
Unfinished == {k \in Keys : k \in unspawned \/ pc[k] \in {"reading", "sending"}}
StatusOf ==
  CASE main = "keys" -> "asked"
    [] main = "failed" -> "failed"
    [] main = "returned" -> "returned"
    [] OTHER -> "reading"
NodesOf == {result[i] : i \in DOMAIN result}

Scan == INSTANCE ScanSpec WITH status <- StatusOf, todo <- Unfinished, nodes <- NodesOf

ImplementsScan == Scan!Spec
============================================================================
