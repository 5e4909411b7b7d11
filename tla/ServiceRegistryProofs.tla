----------------------- MODULE ServiceRegistryProofs -----------------------
(***************************************************************************)
(* What holds of the registry for every set of applications, addresses and *)
(* messages, and every number of attempts.                                 *)
(***************************************************************************)
EXTENDS ServiceRegistry, TLAPS

(* A check has missed its address no more often than the history counted:  *)
(* the history starts anew only when no check of the address is left.      *)
Counted == \A c \in checks : c.failed <= misses[c.ip]

---------------------------------------------------------------------------
LEMMA KeyTypes ==
  /\ AllServiceKeys \subseteq Keys
  /\ \A a \in Apps : buildServiceAddress(a) \in AllServiceKeys
  /\ \A k \in AllServiceKeys : CutPrefix(k) \in Keys
<1>1. \A a \in Apps : buildServiceAddress(a) \in Keys /\ CutPrefix(buildServiceAddress(a)) \in Keys
  BY DEF buildServiceAddress, CutPrefix, Keys
<1> QED
  BY <1>1 DEF AllServiceKeys

(* An instance that waits has a well-formed request in flight.             *)
LEMMA RequestType ==
  ASSUME TypeOK, NEW ip \in Ips, Waiting(ip)
  PROVE  RequestOf(ip) \in Requests /\ inst[ip] \in Instances
<1>1. inst[ip] \in Instances
  BY DEF TypeOK, Waiting, Down
<1>2. buildServiceAddress(inst[ip].app) \in Keys
  BY <1>1, KeyTypes DEF Instances
<1> QED
  BY <1>1, <1>2 DEF RequestOf, Requests, Entries, Addresses

LEMMA EffectType ==
  ASSUME TypeOK, NEW r \in Requests
  PROVE  Effect(r) \subseteq Entries
BY DEF Effect, TypeOK, Requests

---------------------------------------------------------------------------
LEMMA TypeDies ==
  ASSUME TypeOK, ProcessDies, redis' \subseteq Entries
  PROVE  TypeOK'
<1>1. NoMisses \in [Addresses -> 0 .. Attempts]
  BY AttemptsAssumption DEF NoMisses
<1>2. Idle \in [on : BOOLEAN, todo : SUBSET AllServiceKeys, nodes : SUBSET Entries]
  BY DEF Idle
<1>3. inst' \in [Ips -> Instances \cup {Down}]
  BY DEF ProcessDies, TypeOK
<1> QED
  BY <1>1, <1>2, <1>3 DEF ProcessDies, TypeOK

LEMMA TypeHandlers ==
  ASSUME TypeOK, Handlers
  PROVE  TypeOK'
<1>1. ASSUME NEW ip \in Ips, Serve(ip)
      PROVE  TypeOK'
  <2>1. RequestOf(ip) \in Requests /\ inst[ip] \in Instances
    BY <1>1, RequestType DEF Serve
  <2>2. redis' \subseteq Entries
    BY <1>1, <2>1, EffectType DEF Serve
  <2>3. [inst[ip] EXCEPT !.st = "serving"] \in Instances
    BY <2>1 DEF Instances
  <2>4. inst' \in [Ips -> Instances \cup {Down}]
    BY <1>1, <2>3 DEF Serve, TypeOK
  <2> QED
    BY <1>1, <2>2, <2>4 DEF Serve, TypeOK
<1>2. ASSUME NEW ip \in Ips, ServeFails(ip)
      PROVE  TypeOK'
  <2>1. Effect(RequestOf(ip)) \subseteq Entries
    BY <1>2, RequestType, EffectType DEF ServeFails
  <2> QED
    BY <1>2, <2>1, TypeDies DEF ServeFails, TypeOK
<1>3. ASSUME NEW r \in orphans, ServeOrphan(r)
      PROVE  TypeOK'
  BY <1>3, EffectType DEF ServeOrphan, TypeOK
<1>4. ASSUME NEW r \in orphans, ServeOrphanFails(r)
      PROVE  TypeOK'
  <2>1. Effect(r) \subseteq Entries
    BY EffectType DEF TypeOK
  <2> QED
    BY <1>4, <2>1, TypeDies DEF ServeOrphanFails, TypeOK
<1>5. ASSUME NEW r \in orphans, LoseOrphan(r)
      PROVE  TypeOK'
  BY <1>5 DEF LoseOrphan, TypeOK
<1>6. CASE Stop
  BY <1>6, TypeDies DEF Stop, TypeOK
<1>7. CASE Restart
  BY <1>7 DEF Restart, TypeOK
<1> QED
  BY <1>1, <1>2, <1>3, <1>4, <1>5, <1>6, <1>7 DEF Handlers

LEMMA TypeInstance ==
  ASSUME TypeOK, Instance
  PROVE  TypeOK'
<1>1. ASSUME NEW ip \in Ips, NEW a \in Apps, Start(ip, a)
      PROVE  TypeOK'
  BY <1>1 DEF Start, Instances, TypeOK
<1>2. ASSUME NEW ip \in Ips, Terminate(ip)
      PROVE  TypeOK'
  <2>1. inst[ip] \in Instances
    BY <1>2 DEF Terminate, Down, TypeOK
  <2>2. [inst[ip] EXCEPT !.st = "leaving"] \in Instances
    BY <2>1 DEF Instances
  <2>3. inst' \in [Ips -> Instances \cup {Down}]
    BY <1>2, <2>2 DEF Terminate, TypeOK
  <2> QED
    BY <1>2, <2>3 DEF Terminate, TypeOK
<1>3. ASSUME NEW ip \in Ips, Die(ip)
      PROVE  TypeOK'
  <2>1. orphans' \subseteq Requests
    BY <1>3, RequestType DEF Die, TypeOK
  <2> QED
    BY <1>3, <2>1 DEF Die, TypeOK
<1> QED
  BY <1>1, <1>2, <1>3 DEF Instance

LEMMA TypeConsumer ==
  ASSUME TypeOK, Consumer
  PROVE  TypeOK'
<1>1. ASSUME NEW m \in Messages, Poll(m)
      PROVE  TypeOK'
  BY <1>1, MessagesAssumption DEF Poll, TypeOK
<1>2. CASE Apply
  BY <1>2, EffectType DEF Apply, TypeOK
<1> QED
  BY <1>1, <1>2 DEF Consumer

(* What ends a check leaves the history well typed. *)
LEMMA TypeEnd ==
  ASSUME TypeOK, NEW c \in checks, EndCheck(c)
  PROVE  checks' \subseteq Checks /\ misses' \in [Addresses -> 0 .. Attempts]
BY AttemptsAssumption DEF TypeOK, EndCheck, Checks

LEMMA TypeWorker ==
  ASSUME TypeOK, Worker
  PROVE  TypeOK'
<1>1. CASE Tick
  BY <1>1 DEF Tick, TypeOK
<1>2. ASSUME NEW k \in AllServiceKeys, ReadKey(k)
      PROVE  TypeOK'
  <2>1. {CutPrefix(k)} \X MembersOf(k) \subseteq Entries
    BY KeyTypes DEF MembersOf, Entries
  <2>2. Gathered(k) \subseteq Entries
    BY <2>1 DEF Gathered, TypeOK
  <2> QED
    BY <1>2, <2>2 DEF ReadKey, TypeOK
<1>3. ASSUME NEW k \in AllServiceKeys, DropKey(k)
      PROVE  TypeOK'
  BY <1>3 DEF DropKey, TypeOK
<1>4. CASE Launch
  <2>1. \A n \in scan.nodes : [key |-> n[1], ip |-> n[2], failed |-> 0] \in Checks
    BY AttemptsAssumption DEF TypeOK, Entries, Checks
  <2> QED
    BY <1>4, <2>1 DEF Launch, Idle, TypeOK
<1>5. ASSUME NEW c \in checks, CheckPasses(c) \/ Evict(c) \/ EvictFails(c)
      PROVE  TypeOK'
  <2>1. EndCheck(c)
    BY <1>5 DEF CheckPasses, Evict, EvictFails
  <2>2. redis' \subseteq Entries /\ UNCHANGED <<running, inst, orphans, polled, scan>>
    BY <1>5 DEF CheckPasses, Evict, EvictFails, TypeOK
  <2> QED
    BY <2>1, <2>2, TypeEnd DEF TypeOK
<1>6. ASSUME NEW c \in checks, CheckFails(c)
      PROVE  TypeOK'
  <2>1. [c EXCEPT !.failed = @ + 1] \in Checks /\ c.ip \in Addresses
    BY <1>6, AttemptsAssumption DEF CheckFails, MoreTries, Checks, TypeOK
  <2>2. misses' \in [Addresses -> 0 .. Attempts]
    BY <1>6, <2>1, AttemptsAssumption DEF CheckFails, TypeOK
  <2> QED
    BY <1>6, <2>1, <2>2 DEF CheckFails, TypeOK
<1> QED
  BY <1>1, <1>2, <1>3, <1>4, <1>5, <1>6 DEF Worker

(* Every variable keeps its type, whatever the applications, addresses,    *)
(* messages and number of attempts.                                        *)
THEOREM TypeCorrect == Spec => []TypeOK
<1>1. Init => TypeOK
  BY AttemptsAssumption DEF Init, TypeOK, Idle, NoMisses
<1>2. TypeOK /\ [Next]_vars => TypeOK'
  <2>1. ASSUME TypeOK, UNCHANGED vars
        PROVE  TypeOK'
    BY <2>1 DEF TypeOK, vars
  <2> QED
    BY <2>1, TypeHandlers, TypeInstance, TypeConsumer, TypeWorker DEF Next
<1> QED
  BY <1>1, <1>2, PTL DEF Spec

---------------------------------------------------------------------------
(* A check ends: those of the same address that go on keep their count.    *)
LEMMA CountedEnd ==
  ASSUME TypeOK, Counted, NEW c \in checks, EndCheck(c)
  PROVE  Counted'
<1>1. SUFFICES ASSUME NEW d \in checks'
               PROVE  d.failed <= misses'[d.ip]
  BY DEF Counted
<1>2. d \in checks /\ d.ip \in Addresses /\ c.ip \in Addresses
  BY DEF EndCheck, TypeOK, Checks
<1>3. misses'[d.ip] = misses[d.ip]
  BY <1>2 DEF EndCheck, TypeOK
<1> QED
  BY <1>2, <1>3 DEF Counted

LEMMA CountedWorker ==
  ASSUME TypeOK, Counted, Worker
  PROVE  Counted'
<1>1. CASE Tick \/ \E k \in AllServiceKeys : ReadKey(k) \/ DropKey(k)
  BY <1>1 DEF Tick, ReadKey, DropKey, Counted
<1>2. CASE Launch
  <2>1. \A n \in scan.nodes : n[2] \in Addresses /\ misses[n[2]] \in 0 .. Attempts
    BY DEF TypeOK, Entries
  <2> QED
    BY <1>2, <2>1, AttemptsAssumption DEF Launch, Counted
<1>3. ASSUME NEW c \in checks, CheckPasses(c) \/ Evict(c) \/ EvictFails(c)
      PROVE  Counted'
  BY <1>3, CountedEnd DEF CheckPasses, Evict, EvictFails
<1>4. ASSUME NEW c \in checks, CheckFails(c)
      PROVE  Counted'
  <2> DEFINE missed == [c EXCEPT !.failed = c.failed + 1]
  <2>1. /\ c.failed \in 0 .. Attempts /\ c.ip \in Addresses
        /\ missed.failed = c.failed + 1 /\ missed.ip = c.ip
    BY DEF TypeOK, Checks
  <2>2. /\ c.failed < Attempts
        /\ checks' = (checks \ {c}) \cup {missed}
        /\ \A ip \in Addresses : misses'[ip] =
             IF ip = c.ip /\ misses[ip] < Attempts THEN misses[ip] + 1 ELSE misses[ip]
    BY <1>4 DEF CheckFails, MoreTries, TypeOK
  <2>3. \A ip \in Addresses : misses[ip] \in 0 .. Attempts
    BY DEF TypeOK
  <2>4. missed.failed <= misses'[missed.ip]
    BY <2>1, <2>2, <2>3, AttemptsAssumption DEF Counted
  <2>5. \A d \in checks : d.ip \in Addresses /\ d.failed \in 0 .. Attempts
    BY DEF TypeOK, Checks
  <2>6. \A d \in checks : d.failed <= misses'[d.ip]
    BY <2>2, <2>3, <2>5, AttemptsAssumption DEF Counted
  <2> HIDE DEF missed
  <2> QED
    BY <2>2, <2>4, <2>6 DEF Counted
<1> QED
  BY <1>1, <1>2, <1>3, <1>4 DEF Worker

LEMMA CountedStep == TypeOK /\ Counted /\ [Next]_vars => Counted'
<1> SUFFICES ASSUME TypeOK, Counted, [Next]_vars PROVE Counted'
  OBVIOUS
<1>1. CASE Handlers
  <2>1. CASE UNCHANGED <<checks, misses>>
    BY <2>1 DEF Counted
  <2>2. CASE ProcessDies
    BY <2>2 DEF ProcessDies, Counted
  <2> QED
    BY <1>1, <2>1, <2>2 DEF Handlers, Serve, ServeFails, ServeOrphan, ServeOrphanFails,
                            LoseOrphan, Stop, Restart
<1>2. CASE Instance \/ Consumer \/ UNCHANGED vars
  <2>1. UNCHANGED <<checks, misses>>
    BY <1>2 DEF Instance, Start, Terminate, Die, Consumer, Poll, Apply, vars
  <2> QED
    BY <2>1 DEF Counted
<1>3. CASE Worker
  BY <1>3, CountedWorker
<1> QED
  BY <1>1, <1>2, <1>3 DEF Next

(* A request takes away at most the entry it names, and only a Deregister  *)
(* does.                                                                   *)
LEMMA EffectRemoves ==
  ASSUME NEW r \in Requests, redis' \in {redis, Effect(r)},
         NEW e \in redis \ redis'
  PROVE  r = [op |-> "deregister", on |-> e]
BY DEF Effect, Requests

LEMMA Causes ==
  ASSUME TypeOK, Counted, [Next]_vars, NEW e \in redis \ redis'
  PROVE  \/ [op |-> "deregister", on |-> e] \in InFlight \cup {polled}
         \/ misses[e[2]] = Attempts
<1>1. CASE Handlers
  <2>1. PICK r \in InFlight : redis' \in {redis, Effect(r)}
    BY <1>1 DEF Handlers, Serve, ServeFails, ServeOrphan, ServeOrphanFails, LoseOrphan,
                Stop, Restart, InFlight
  <2>2. r \in Requests
    BY <2>1, RequestType DEF InFlight, TypeOK
  <2> QED
    BY <2>1, <2>2, EffectRemoves
<1>2. CASE Consumer
  <2>1. polled # Nothing /\ redis' \in {redis, Effect(polled)}
    BY <1>2 DEF Consumer, Poll, Apply
  <2>2. polled \in Requests
    BY <2>1 DEF TypeOK
  <2> QED
    BY <2>1, <2>2, EffectRemoves
<1>3. CASE Worker
  <2>1. PICK c \in checks : Evict(c)
    BY <1>3 DEF Worker, Tick, ReadKey, DropKey, Launch, CheckPasses, CheckFails, EvictFails
  <2>2. e = <<c.key, c.ip>> /\ ~(c.failed < Attempts)
    BY <2>1 DEF Evict, MoreTries
  <2>3. c.failed \in 0 .. Attempts /\ misses[c.ip] \in 0 .. Attempts /\ c.failed <= misses[c.ip]
    BY DEF TypeOK, Checks, Counted
  <2> QED
    BY <2>2, <2>3, AttemptsAssumption
<1>4. CASE Instance \/ UNCHANGED vars
  BY <1>4 DEF Instance, Start, Terminate, Die, vars
<1> QED
  BY <1>1, <1>2, <1>3, <1>4 DEF Next

(* Whatever leaves a Redis set was named by a Deregister in flight or by   *)
(* the message in hand, or the worker had missed its address Attempts      *)
(* times: rounds that overlap, crashes of the process and of instances, and *)
(* late requests never add a cause (worker.go:53-68, 70-89).               *)
THEOREM RemovalsHaveCauses == Spec => RemovedForCause
<1>1. Init => Counted
  BY DEF Init, Counted
<1>2. TypeOK /\ Counted /\ [Next]_vars =>
        [\A e \in redis \ redis' :
           \/ [op |-> "deregister", on |-> e] \in InFlight \cup {polled}
           \/ misses[e[2]] = Attempts]_vars
  BY Causes
<1> QED
  BY <1>1, <1>2, CountedStep, TypeCorrect, PTL DEF Spec, RemovedForCause
============================================================================
