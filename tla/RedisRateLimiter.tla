-------------------------- MODULE RedisRateLimiter --------------------------
(***************************************************************************)
(* Accquire of the Redis limiter (common/ratelimiter/ratelimiter_redis.go).*)
(* A caller reads its clock, and later Redis runs the script with it, in   *)
(* one step: count the members of a sorted set whose members are their own *)
(* scores, and below the limit add one, purge, and set the key's expiry.   *)
(* The client library sends the script again when no answer comes.         *)
(***************************************************************************)
EXTENDS Integers, FiniteSets

CONSTANTS
  Clients,
  Window, Grace,  \* timeWindow, and the second the key lives longer
  Volume,
  MaxTime         \* bound of the clock

ASSUME LimiterAssumption ==
  /\ Window \in Nat \ {0} /\ Grace \in Nat
  /\ Volume \in Nat
  /\ MaxTime \in Nat \ {0}

VARIABLES
  clock,     \* of the callers and of Redis, in milliseconds
  zset,      \* the key's members
  expires,   \* when the key goes
  now,       \* what a caller in Accquire read, or none
  got,       \* what its last Accquire returned
  admitted,  \* history: the times let in, ...
  orderly    \* ... and did all come in order, none later than Grace

redisVars == <<clock, zset, expires, now, got, admitted, orderly>>

Times == 1 .. MaxTime
None == 0

RedisTypeOK ==
  /\ clock \in Times
  /\ zset \subseteq Times /\ Cardinality(zset) <= Volume
  /\ expires \in Nat
  /\ now \in [Clients -> Times \cup {None}]
  /\ got \in [Clients -> {"none", "true", "false", "error"}]
  /\ admitted \subseteq Times
  /\ orderly \in BOOLEAN

RedisInit ==
  /\ clock = 1
  /\ zset = {}
  /\ expires = 0
  /\ now = [c \in Clients |-> None]
  /\ got = [c \in Clients |-> "none"]
  /\ admitted = {}
  /\ orderly = TRUE

---------------------------------------------------------------------------
Accquire(c) ==
  /\ now[c] = None
  /\ now' = [now EXCEPT ![c] = clock]
  /\ got' = [got EXCEPT ![c] = "none"]
  /\ UNCHANGED <<clock, zset, expires, admitted, orderly>>

(* The script.  An expired key is an empty one. *)
Members == IF clock < expires THEN zset ELSE {}

OneMore == Cardinality(Members) <= Volume
HasRoom == Cardinality(Members) < Volume

KeepAll(t) == {}
Purged(t) == 0 .. t - Window       \* ZREMRANGEBYSCORE 0 (now - window)

WithoutGrace == clock + Window
Expiry == clock + Window + Grace   \* PEXPIRE (window + 1000)

Admit(c) ==
  /\ HasRoom
  /\ zset' = (Members \cup {now[c]}) \ Purged(now[c])
  /\ expires' = Expiry
  /\ admitted' = admitted \cup {now[c]}
  /\ orderly' = (/\ orderly
                 /\ \A t \in admitted : t <= now[c]
                 /\ clock - now[c] <= Grace)

RejectProlongs ==
  /\ ~HasRoom
  /\ expires' = Expiry
  /\ UNCHANGED <<zset, admitted, orderly>>
Reject ==
  /\ ~HasRoom
  /\ UNCHANGED <<zset, expires, admitted, orderly>>

(* Its answer arrives, or is lost and the script will be sent again. *)
Answer(c, result) ==
  \/ /\ now' = [now EXCEPT ![c] = None]
     /\ got' = [got EXCEPT ![c] = result]
  \/ UNCHANGED <<now, got>>

LuaScript(c) ==
  /\ now[c] # None
  /\ \/ Admit(c) /\ Answer(c, "true")
     \/ Reject /\ Answer(c, "false")
  /\ UNCHANGED clock

(* No answer in the end: an error, whatever Redis did. *)
Fail(c) ==
  /\ now[c] # None
  /\ now' = [now EXCEPT ![c] = None]
  /\ got' = [got EXCEPT ![c] = "error"]
  /\ UNCHANGED <<clock, zset, expires, admitted, orderly>>

Tick ==
  /\ clock < MaxTime
  /\ clock' = clock + 1
  /\ UNCHANGED <<zset, expires, now, got, admitted, orderly>>

RedisNext ==
  \/ \E c \in Clients : Accquire(c) \/ LuaScript(c) \/ Fail(c)
  \/ Tick

RedisSpec == RedisInit /\ [][RedisNext]_redisVars

---------------------------------------------------------------------------
(* The limit: of the milliseconds let in, at most Volume lie in any window,*)
(* though the set is counted before it is purged and forgets everything    *)
(* when the key expires, as long as calls reach Redis in the order of      *)
(* their clocks and within Grace.  (Calls of one millisecond are one       *)
(* member: they are not told apart.)  ratelimiter_redis.go:12-22.          *)
WindowBounded ==
  orderly => \A t \in admitted :
    Cardinality({u \in admitted : t - Window < u /\ u <= t}) <= Volume

(* And it does not refuse for ever: stale members are counted, but a       *)
(* refusal means Volume milliseconds let in during the last 2 * (Window +  *)
(* Grace); callers that keep trying do not keep themselves out.            *)
Refused(c) == now[c] # None /\ now'[c] = None /\ got'[c] = "false"
Recent == {u \in admitted : u > clock - 2 * (Window + Grace)}
RefusalsExplained ==
  [][\A c \in Clients :
       Refused(c) /\ orderly => Cardinality(Recent) >= Volume]_redisVars
=============================================================================
