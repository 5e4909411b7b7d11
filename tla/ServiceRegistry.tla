-------------------------- MODULE ServiceRegistry --------------------------
(***************************************************************************)
(* The service registry (config/): one process with the gRPC handlers, the *)
(* health-check worker and the Kafka consumer, the Redis sets all three    *)
(* write, and the instances that use it as orderservice/main.go does:      *)
(* register once, serve, deregister on SIGTERM.                            *)
(*                                                                         *)
(* A Redis key is <<prefix, app>>.  An instance that dies while its        *)
(* request is in flight leaves an orphan, which the server may still serve *)
(* or never see.  A handler whose Redis call fails logs through the nil    *)
(* logger that cmd/main.go leaves in ConfigImpl, so the process dies; it   *)
(* also dies on its own, and is restarted.  RegistryConsumer has the       *)
(* consumer's offsets; here its messages come in any order.                *)
(***************************************************************************)
EXTENDS Naturals, FiniteSets

CONSTANTS
  Apps,       \* application names
  Ips,        \* addresses instances run at, reused by any application
  NoIp,       \* the empty address
  Attempts,   \* health checks before the worker gives an address up (3)
  Messages,   \* what the messages of the topic ask for
  MaxOrphans  \* bound: orphans at a time

(* "service_addresses:*", what is left without "service_addresses", and a  *)
(* message's application name as it stands.                                *)
ServicePrefix == "service_addresses:"
Keys == {ServicePrefix, ":", ""} \X Apps
buildServiceAddress(a) == <<ServicePrefix, a>>
AllServiceKeys == {buildServiceAddress(a) : a \in Apps}

Addresses == Ips \cup {NoIp}
Entries == Keys \X Addresses

ASSUME AttemptsAssumption == Attempts \in Nat \ {0}
ASSUME AddressAssumption == NoIp \notin Ips

Down == [st |-> "down"]
Instances == [st : {"registering", "serving", "leaving"}, app : Apps]
Requests == [op : {"register", "deregister"}, on : Entries]
ASSUME MessagesAssumption == Messages \subseteq Requests

Nothing == [op |-> "nothing", on |-> << >>]
Checks == [key : Keys, ip : Addresses, failed : 0 .. Attempts]

VARIABLES
  redis,    \* members of the sets, as <<key, ip>>
  running,  \* is the process up
  inst,     \* the instance at each address, or Down
  orphans,  \* requests in flight whose sender is gone
  polled,   \* the message the consumer has in hand, or Nothing
  scan,     \* the worker's round: is it scanning, keys to read, nodes read
  checks,   \* its health-check goroutines, identical ones counted once
  misses    \* history: checks of an address missed since it last had none

vars == <<redis, running, inst, orphans, polled, scan, checks, misses>>

Idle == [on |-> FALSE, todo |-> {}, nodes |-> {}]
NoMisses == [ip \in Addresses |-> 0]

TypeOK ==
  /\ redis \subseteq Entries
  /\ running \in BOOLEAN
  /\ inst \in [Ips -> Instances \cup {Down}]
  /\ orphans \subseteq Requests
  /\ polled \in Requests \cup {Nothing}
  /\ scan \in [on : BOOLEAN, todo : SUBSET AllServiceKeys, nodes : SUBSET Entries]
  /\ checks \subseteq Checks
  /\ misses \in [Addresses -> 0 .. Attempts]

Init ==
  /\ redis = {}
  /\ running = TRUE
  /\ inst = [ip \in Ips |-> Down]
  /\ orphans = {}
  /\ polled = Nothing
  /\ scan = Idle
  /\ checks = {}
  /\ misses = NoMisses

Waiting(ip) == inst[ip].st \in {"registering", "leaving"}

(* The request an instance that waits has in flight.  The Deregister names *)
(* response.AppNode, which an answer of type Empty never sets.             *)
RequestOf(ip) ==
  LET key == buildServiceAddress(inst[ip].app) IN
    IF inst[ip].st = "registering"
    THEN [op |-> "register", on |-> <<key, ip>>]
    ELSE [op |-> "deregister", on |-> <<key, NoIp>>]

InFlight == {RequestOf(ip) : ip \in {i \in Ips : Waiting(i)}} \cup orphans

(* storage.Add and storage.Remove, of one entry. *)
Effect(r) == IF r.op = "register" THEN redis \cup {r.on} ELSE redis \ {r.on}

---------------------------------------------------------------------------
(* The process and everything in it is gone; who waits gets an error, and  *)
(* the instance panics (Register) or exits (Deregister's error is ignored) *)
ProcessDies ==
  /\ running' = FALSE
  /\ inst' = [ip \in Ips |-> IF Waiting(ip) THEN Down ELSE inst[ip]]
  /\ orphans' = {}
  /\ polled' = Nothing
  /\ scan' = Idle
  /\ checks' = {}
  /\ misses' = NoMisses

(* The handler, the logic and the storage call of a request. *)
Serve(ip) ==
  /\ running
  /\ Waiting(ip)
  /\ LET r == RequestOf(ip) IN
       /\ redis' = Effect(r)
       /\ inst' = [inst EXCEPT ![ip] =
                     IF r.op = "register" THEN [@ EXCEPT !.st = "serving"] ELSE Down]
  /\ UNCHANGED <<running, orphans, polled, scan, checks, misses>>

(* Redis failed, the write done or not: cf.logger is nil. *)
ServeFails(ip) ==
  /\ running
  /\ Waiting(ip)
  /\ redis' \in {redis, Effect(RequestOf(ip))}
  /\ ProcessDies

ServeOrphan(r) ==
  /\ running
  /\ r \in orphans
  /\ redis' = Effect(r)
  /\ orphans' = orphans \ {r}
  /\ UNCHANGED <<running, inst, polled, scan, checks, misses>>

(* The sender's cancelled context fails the Redis call. *)
ServeOrphanFails(r) ==
  /\ running
  /\ r \in orphans
  /\ redis' \in {redis, Effect(r)}
  /\ ProcessDies

(* The request never reached the server. *)
LoseOrphan(r) ==
  /\ r \in orphans
  /\ orphans' = orphans \ {r}
  /\ UNCHANGED <<redis, running, inst, polled, scan, checks, misses>>

(* SIGTERM, a kill, or GetAllAddresses on a Redis error. *)
Stop ==
  /\ running
  /\ ProcessDies
  /\ UNCHANGED redis

Restart ==
  /\ ~running
  /\ running' = TRUE
  /\ UNCHANGED <<redis, inst, orphans, polled, scan, checks, misses>>

---------------------------------------------------------------------------
(* register() is the first thing main does; without a server it panics.   *)
Start(ip, a) ==
  /\ running
  /\ inst[ip] = Down
  /\ inst' = [inst EXCEPT ![ip] = [st |-> "registering", app |-> a]]
  /\ UNCHANGED <<redis, running, orphans, polled, scan, checks, misses>>

(* SIGTERM: deregister, whatever comes of it, and exit. *)
Terminate(ip) ==
  /\ inst[ip].st = "serving"
  /\ inst' = [inst EXCEPT ![ip] = IF running THEN [@ EXCEPT !.st = "leaving"] ELSE Down]
  /\ UNCHANGED <<redis, running, orphans, polled, scan, checks, misses>>

(* Killed: a request in flight is lost or stays behind. *)
Die(ip) ==
  /\ inst[ip] # Down
  /\ inst' = [inst EXCEPT ![ip] = Down]
  /\ \/ UNCHANGED orphans
     \/ /\ Waiting(ip)
        /\ Cardinality(orphans) < MaxOrphans
        /\ orphans' = orphans \cup {RequestOf(ip)}
  /\ UNCHANGED <<redis, running, polled, scan, checks, misses>>

---------------------------------------------------------------------------
(* The consumer, which checks neither the key a message names nor the      *)
(* address.  What it does not understand it drops.                         *)
Poll(m) ==
  /\ running
  /\ polled = Nothing
  /\ polled' = m
  /\ UNCHANGED <<redis, running, inst, orphans, scan, checks, misses>>

(* Add or Remove done, or failed and done or not: logged, and it goes on.  *)
Apply ==
  /\ polled # Nothing
  /\ redis' \in {redis, Effect(polled)}
  /\ polled' = Nothing
  /\ UNCHANGED <<running, inst, orphans, scan, checks, misses>>

---------------------------------------------------------------------------
(* strings.CutPrefix(serviceKey, SERVICE_ADDRESSES): the ":" stays. *)
CutPrefix(key) == <<":", key[2]>>

MembersOf(key) == {ip \in Addresses : <<key, ip>> \in redis}

(* The ticker fires: KEYS. An error skips the round. *)
Tick ==
  /\ running
  /\ ~scan.on
  /\ scan' = [on |-> TRUE, todo |-> {k \in AllServiceKeys : MembersOf(k) # {}}, nodes |-> {}]
  /\ UNCHANGED <<redis, running, inst, orphans, polled, checks, misses>>

(* One key's goroutine: SMEMBERS, then a Node on the channel. *)
LastOnly(k) == {CutPrefix(k)} \X MembersOf(k)
Gathered(k) == scan.nodes \cup ({CutPrefix(k)} \X MembersOf(k))

ReadKey(k) ==
  /\ k \in scan.todo
  /\ scan' = [scan EXCEPT !.todo = @ \ {k}, !.nodes = Gathered(k)]
  /\ UNCHANGED <<redis, running, inst, orphans, polled, checks, misses>>

(* SMEMBERS failed: the goroutine returns without a word. *)
DropKey(k) ==
  /\ k \in scan.todo
  /\ scan' = [scan EXCEPT !.todo = @ \ {k}]
  /\ UNCHANGED <<redis, running, inst, orphans, polled, checks, misses>>

(* One goroutine for each address; the next tick does not wait for them. *)
Launch ==
  /\ scan.on
  /\ scan.todo = {}
  /\ checks' = checks \cup {[key |-> n[1], ip |-> n[2], failed |-> 0] : n \in scan.nodes}
  /\ scan' = Idle
  /\ UNCHANGED <<redis, running, inst, orphans, polled, misses>>

(* Whatever answers at the address: nothing does where no instance runs.   *)
Answers(ip) == ip \in Ips /\ inst[ip].st \in {"serving", "leaving"}

AnyMoreTries(n) == n <= Attempts
FewerTries(n) == n + 1 < Attempts
MoreTries(n) == n < Attempts

(* The goroutine ends. *)
EndCheck(c) ==
  /\ checks' = checks \ {c}
  /\ misses' = [misses EXCEPT ![c.ip] = IF \E d \in checks' : d.ip = c.ip THEN @ ELSE 0]

(* Any HTTP answer is healthy. *)
CheckPasses(c) ==
  /\ c \in checks
  /\ MoreTries(c.failed)
  /\ Answers(c.ip)
  /\ EndCheck(c)
  /\ UNCHANGED <<redis, running, inst, orphans, polled, scan>>

(* Nobody there, or the network: http.Get fails and retry.Do goes on. *)
CheckFails(c) ==
  /\ c \in checks
  /\ MoreTries(c.failed)
  /\ checks' = (checks \ {c}) \cup {[c EXCEPT !.failed = @ + 1]}
  /\ misses' = [misses EXCEPT ![c.ip] = IF @ < Attempts THEN @ + 1 ELSE @]
  /\ UNCHANGED <<redis, running, inst, orphans, polled, scan>>

(* The last attempt failed: storage.Remove(node.AppName, ip). *)
Evict(c) ==
  /\ c \in checks
  /\ ~MoreTries(c.failed)
  /\ redis' = redis \ {<<c.key, c.ip>>}
  /\ EndCheck(c)
  /\ UNCHANGED <<running, inst, orphans, polled, scan>>

(* Its error is dropped. *)
EvictFails(c) ==
  /\ c \in checks
  /\ ~MoreTries(c.failed)
  /\ EndCheck(c)
  /\ UNCHANGED <<redis, running, inst, orphans, polled, scan>>

---------------------------------------------------------------------------
Handlers ==
  \/ \E ip \in Ips : Serve(ip) \/ ServeFails(ip)
  \/ \E r \in orphans : ServeOrphan(r) \/ ServeOrphanFails(r) \/ LoseOrphan(r)
  \/ Stop
  \/ Restart

Instance ==
  \E ip \in Ips : (\E a \in Apps : Start(ip, a)) \/ Terminate(ip) \/ Die(ip)

Worker ==
  \/ Tick
  \/ \E k \in AllServiceKeys : ReadKey(k) \/ DropKey(k)
  \/ Launch
  \/ \E c \in checks : CheckPasses(c) \/ CheckFails(c) \/ Evict(c) \/ EvictFails(c)

Consumer == (\E m \in Messages : Poll(m)) \/ Apply

Next == Handlers \/ Instance \/ Consumer \/ Worker

Spec == Init /\ [][Next]_vars

(* The rounds go on: the ticker fires, and Redis answers KEYS, and SMEMBERS *)
(* of each key, unless it fails for ever.                                   *)
RoundFairness ==
  /\ WF_vars(Tick)
  /\ WF_vars(Launch)
  /\ \A k \in AllServiceKeys : SF_vars(ReadKey(k))

RoundSpec == Spec /\ RoundFairness

(* The most the worker could hope for: besides, no removal fails for ever, *)
(* and no health check hangs.                                              *)
Fairness ==
  /\ RoundFairness
  /\ WF_vars(Restart)
  /\ \A ip \in Ips : WF_vars(Serve(ip))
  /\ \A k \in AllServiceKeys, ip \in Ips, n \in 0 .. Attempts :
       LET c == [key |-> CutPrefix(k), ip |-> ip, failed |-> n] IN
         WF_vars(CheckFails(c) \/ CheckPasses(c)) /\ SF_vars(Evict(c))

FairSpec == Spec /\ Fairness

---------------------------------------------------------------------------
Listed(a, ip) == <<buildServiceAddress(a), ip>> \in redis

(* Nothing leaves a set without a cause: a Deregister in flight, or a      *)
(* message in the consumer's hand, that names this very entry; or the      *)
(* worker, which has by then missed the address Attempts times while a     *)
(* check of it was going on, however many rounds overlap, processes die    *)
(* and instances change addresses meanwhile (worker.go:17-20, 53-68,       *)
(* 70-89; handler.go:28-35; consumer.go:82-90).                            *)
RemovedForCause ==
  [][\A e \in redis \ redis' :
       \/ [op |-> "deregister", on |-> e] \in InFlight \cup {polled}
       \/ misses[e[2]] = Attempts]_vars

(* No service is forgotten by the worker: an address that stays listed     *)
(* while the process stays up is checked again and again, though the keys  *)
(* of a round are read in any order, any of them may fail in any round,    *)
(* and others come and go (worker.go:16-17, 48-54; node.go:46-83).         *)
ListedAreChecked ==
  \A a \in Apps, ip \in Ips :
     <>[](running /\ Listed(a, ip)) =>
        []<>(\E c \in checks : c.ip = ip /\ c.key = CutPrefix(buildServiceAddress(a)))

(* worker.go:17-18: "there are some situations that the service can't      *)
(* deregister it, so this worker will check and remove the service": an    *)
(* address whose host stays dead, and which no message speaks of any more, *)
(* does not stay listed.                                                   *)
DeadAreRemoved ==
  \A a \in Apps, ip \in Ips :
     <>[](/\ running /\ inst[ip] = Down
          /\ polled.on # <<buildServiceAddress(a), ip>>)
        => []<>~Listed(a, ip)
============================================================================
