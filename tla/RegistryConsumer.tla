------------------------- MODULE RegistryConsumer -------------------------
(***************************************************************************)
(* The Kafka half of the service registry (config/consumer/consumer.go):   *)
(* one consumer of the topic "service_registry" that applies every         *)
(* RegisterRequest and DeregisterRequest to the Redis sets, in offset      *)
(* order, and commits the offset of a message only after Redis accepted    *)
(* it.  A failed write is not retried, an undecodable message is not       *)
(* committed, a failed commit is not noticed, and a process that restarts  *)
(* resumes at the committed offset and delivers again what followed it.    *)
(*                                                                         *)
(* The topic is one partition: log[i] is the message at Kafka offset i-1.  *)
(***************************************************************************)
EXTENDS Naturals, Sequences

CONSTANTS
  Names,        \* the Redis keys that messages and RPCs can name
  GrpcNames,    \* those of them an RPC writes too: "service_addresses:..."
  Ips,          \* instance addresses
  MaxLog,       \* bound: messages ever produced
  MaxCrashes    \* bound: crashes of the process

ASSUME NamesAssumption == GrpcNames \subseteq Names
ASSUME BoundsAssumption == MaxLog \in Nat /\ MaxCrashes \in Nat

Pairs == Names \X Ips

(* A message that does not unmarshal, or is of another type. *)
Unknown == [op |-> "unknown", on |-> << >>]

Messages == [op : {"register", "deregister"}, on : Pairs] \cup {Unknown}

VARIABLES
  log,        \* the topic partition
  committed,  \* the offset the group has committed: messages 1..committed
  pos,        \* messages 1..pos have been polled by this incarnation or skipped
  phase,      \* "polling", or "committing" between the write and the commit
  running,    \* is the process up
  crashes,    \* crashes so far
  redis,      \* the members of the Redis sets, as <<key, ip>> pairs
  handled,    \* history: the messages whose handler ran at least once
  intact      \* history: pairs last written by an acknowledged delivery

vars == <<log, committed, pos, phase, running, crashes, redis, handled, intact>>

TypeOK ==
  /\ log \in Seq(Messages)
  /\ committed \in 0 .. Len(log)
  /\ pos \in 0 .. Len(log)
  /\ phase \in {"polling", "committing"}
  /\ running \in BOOLEAN
  /\ crashes \in 0 .. MaxCrashes
  /\ redis \subseteq Pairs
  /\ handled \subseteq 1 .. Len(log)
  /\ intact \subseteq Pairs

Init ==
  /\ log = << >>
  /\ committed = 0
  /\ pos = 0
  /\ phase = "polling"
  /\ running = TRUE
  /\ crashes = 0
  /\ redis = {}
  /\ handled = {}
  /\ intact = {}

---------------------------------------------------------------------------
(* A producer appends a message; nothing orders it with the consumer. *)
Produce ==
  /\ Len(log) < MaxLog
  /\ \E m \in Messages : log' = Append(log, m)
  /\ UNCHANGED <<committed, pos, phase, running, crashes, redis, handled, intact>>

(* What storage.Add (SADD) and storage.Remove (SREM) do to the sets. *)
EffectOnlyAdds(m) == redis \cup {m.on}
Effect(m) == IF m.op = "register" THEN redis \cup {m.on} ELSE redis \ {m.on}

(* consumer.Poll hands over the next message and moves the position past it. *)
Poll ==
  /\ running
  /\ phase = "polling"
  /\ pos < Len(log)
  /\ pos' = pos + 1
  /\ handled' = handled \cup {pos'}

Polled == log[pos + 1]

(* Undecodable or unrecognised: logged, and the loop continues. *)
Ignore ==
  /\ Poll
  /\ Polled = Unknown
  /\ UNCHANGED <<log, committed, phase, running, crashes, redis, intact>>

(* Redis acknowledged the write: the offset is to be committed next. *)
Apply ==
  /\ Poll
  /\ Polled # Unknown
  /\ redis' = Effect(Polled)
  /\ phase' = "committing"
  /\ intact' = intact \cup {Polled.on}
  /\ UNCHANGED <<log, committed, running, crashes>>

(* Redis returned an error, the write done or not: logged, not committed,  *)
(* and the loop goes on to the NEXT message.                               *)
ApplyFails ==
  /\ Poll
  /\ Polled # Unknown
  /\ redis' \in {redis, Effect(Polled)}
  /\ intact' = intact \ {Polled.on}
  /\ UNCHANGED <<log, committed, phase, running, crashes>>

(* CommitMessage commits the message's offset + 1; its error is ignored. *)
CommitOffsetPast == pos + 1
CommitOffset == pos

Commit ==
  /\ running
  /\ phase = "committing"
  /\ committed' \in {committed, CommitOffset}
  /\ phase' = "polling"
  /\ UNCHANGED <<log, pos, running, crashes, redis, handled, intact>>

(* The process stops anywhere: killed, os.Exit, or a panic in an RPC. *)
Crash ==
  /\ running
  /\ crashes < MaxCrashes
  /\ crashes' = crashes + 1
  /\ running' = FALSE
  /\ phase' = "polling"
  /\ UNCHANGED <<log, committed, pos, redis, handled, intact>>

(* Same group.id, auto.offset.reset = earliest, auto-commit off. *)
ResumeAtEarliest == 0
ResumeAtLatest == Len(log)
ResumeAt == committed

Restart ==
  /\ ~running
  /\ running' = TRUE
  /\ pos' = ResumeAt
  /\ UNCHANGED <<log, committed, phase, crashes, redis, handled, intact>>

(* A Register or Deregister RPC of this or another replica writes too. *)
RpcWrite ==
  /\ \E p \in GrpcNames \X Ips :
        /\ redis' \in {redis \cup {p}, redis \ {p}}
        /\ intact' = intact \ {p}
  /\ UNCHANGED <<log, committed, pos, phase, running, crashes, handled>>

Deliver == Ignore \/ Apply \/ ApplyFails

Next ==
  \/ Produce
  \/ Ignore
  \/ Apply
  \/ ApplyFails
  \/ Commit
  \/ Crash
  \/ Restart
  \/ RpcWrite

(* The poll loop never stops by itself and a crashed pod is restarted. *)
Fairness == WF_vars(Deliver) /\ WF_vars(Commit) /\ WF_vars(Restart)

Spec == Init /\ [][Next]_vars /\ Fairness

---------------------------------------------------------------------------
(* Message i speaks of pair p, and no message up to the position does so   *)
(* after it.                                                               *)
About(i, p) == log[i] # Unknown /\ log[i].on = p
Latest(i, p) == About(i, p) /\ \A j \in i + 1 .. pos : ~About(j, p)

(* Whatever was delivered twice, in however many incarnations: once the    *)
(* consumer is past everything any incarnation handled, an address is in   *)
(* its Redis set exactly when the last message about it is a registration, *)
(* unless Redis failed on that message or an RPC wrote the address since   *)
(* (consumer.go:72-93: apply, then commit, in offset order).               *)
ReplayConverges ==
  (\A i \in handled : i <= pos) =>
     \A p \in intact : \A i \in 1 .. pos :
        Latest(i, p) => (p \in redis <=> log[i].op = "register")

(* No crash, restart or failed write makes the group pass over a message   *)
(* that no incarnation ever looked at (enable.auto.commit = false and      *)
(* auto.offset.reset = earliest, consumer.go:35-40).                       *)
NothingSkipped == 1 .. committed \subseteq handled

(* The committed offset never moves backwards: a restart cannot make the   *)
(* next commit undo an earlier one (consumer.go:80,89).                    *)
CommitsAdvance == [][committed' >= committed]_vars

(* Every message produced is handled, if only the crashes stop             *)
(* (consumer.go:56-110: the loop leaves no message behind).                *)
EveryMessageHandled ==
  \A i \in 1 .. MaxLog : (Len(log) >= i) ~> (i \in handled)
===========================================================================
