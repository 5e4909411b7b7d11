--------------------------- MODULE CircuitBreaker ---------------------------
(***************************************************************************)
(* The circuit breaker (common/circuitbreaker/circuitbreaker.go).  Do asks *)
(* the breaker registered for a resource whether it is open, reading its   *)
(* errors and then its calls without a lock, and counts the call on the    *)
(* breaker Do was called on.  requestVolumne and sleepTime are never read: *)
(* a breaker may open after one call, and stays open.                      *)
(***************************************************************************)
EXTENDS Integers

CONSTANTS
  Goroutines, Resources, Breakers,
  NoBreaker,
  LimitErrors,     \* the limit: so many errors
  LimitCalls,      \* in so many calls do not open a breaker
  MaxCalls         \* bound of what each breaker counts

ASSUME BreakerAssumption ==
  /\ NoBreaker \notin Breakers
  /\ LimitErrors \in Nat
  /\ LimitCalls \in Nat \ {0}
  /\ MaxCalls \in Nat

VARIABLES
  resources,   \* the registered breakers
  st,          \* of each breaker
  errors,      \* its errors within the time window
  totalCalls,  \* its calls, ever
  stage,       \* of each caller: idle, st read, errors read, in the action
  of, on,      \* the breaker it asks, and the one it counts on
  read,        \* the errors it counted
  high         \* history: did the rate exceed the limit at that moment

breakerVars == <<resources, st, errors, totalCalls, stage, of, on, read, high>>

(* A breaker's state before it opens: the zero value of a string. *)
Unset == ""

BreakerTypeOK ==
  /\ resources \in [Resources -> Breakers \cup {NoBreaker}]
  /\ st \in [Breakers -> {Unset, "OPEN"}]
  /\ totalCalls \in [Breakers -> 0 .. MaxCalls]
  /\ errors \in [Breakers -> 0 .. MaxCalls]
  /\ \A b \in Breakers : errors[b] <= totalCalls[b]
  /\ stage \in [Goroutines -> {"idle", "isOpen", "rate", "action"}]
  /\ of \in [Goroutines -> Breakers \cup {NoBreaker}]
  /\ on \in [Goroutines -> Breakers \cup {NoBreaker}]
  /\ read \in [Goroutines -> 0 .. MaxCalls]
  /\ high \in [Goroutines -> BOOLEAN]

NoneRegistered == [r \in Resources |-> NoBreaker]
AllUnset == [b \in Breakers |-> Unset]
NoCalls == [b \in Breakers |-> 0]
AllIdle == [c \in Goroutines |-> "idle"]

BreakerInit ==
  /\ resources = NoneRegistered
  /\ st = AllUnset
  /\ errors = NoCalls
  /\ totalCalls = NoCalls
  /\ stage = AllIdle
  /\ of = [c \in Goroutines |-> NoBreaker]
  /\ on = [c \in Goroutines |-> NoBreaker]
  /\ read = [c \in Goroutines |-> 0]
  /\ high = [c \in Goroutines |-> FALSE]

At(c, from, to) == stage[c] = from /\ stage' = [stage EXCEPT ![c] = to]

(* float32(failed)/float32(calls)*100 > errorRatePercentage.  Rounding     *)
(* keeps the order of quotients, so there is a greatest one that does not  *)
(* exceed the percentage: 1/2 at the default of 50, but less than 3/10 at  *)
(* 30, for 3 errors in 10 calls are 30.000002 %.  That quotient is the     *)
(* limit.  0/0 exceeds nothing, 1/0 everything.                            *)
Exceeds(failed, calls) == failed * LimitCalls > LimitErrors * calls

---------------------------------------------------------------------------
Register(r, b) ==
  /\ resources[r] = NoBreaker
  /\ resources' = [resources EXCEPT ![r] = b]
  /\ UNCHANGED <<st, errors, totalCalls, stage, of, on, read, high>>

(* An open breaker is not looked at again: isOpen answers false. *)
Do(c, r, b) ==
  /\ resources[r] # NoBreaker
  /\ At(c, "idle", IF st[resources[r]] = "OPEN" THEN "action" ELSE "isOpen")
  /\ of' = [of EXCEPT ![c] = resources[r]]
  /\ on' = [on EXCEPT ![c] = b]
  /\ UNCHANGED <<resources, st, errors, totalCalls, read, high>>

(* Do reads the map without Register's lock: when Go sees one of them read *)
(* and the other write, it ends the process, and the next begins anew.     *)
RaceEnds(c, r) ==
  /\ stage[c] = "idle"
  /\ resources[r] = NoBreaker
  /\ resources' = NoneRegistered
  /\ st' = AllUnset
  /\ errors' = NoCalls
  /\ totalCalls' = NoCalls
  /\ stage' = AllIdle
  /\ UNCHANGED <<of, on, read, high>>

CountErrors(c) ==
  /\ At(c, "isOpen", "rate")
  /\ read' = [read EXCEPT ![c] = errors[of[c]]]
  /\ high' = [high EXCEPT ![c] = Exceeds(errors[of[c]], totalCalls[of[c]])]
  /\ UNCHANGED <<resources, st, errors, totalCalls, of, on>>

NotBelow(c) == read[c] * LimitCalls >= LimitErrors * totalCalls[of[c]]
RateExceeded(c) == Exceeds(read[c], totalCalls[of[c]])

Trip(c) ==
  /\ At(c, "rate", "idle")
  /\ RateExceeded(c)
  /\ st' = [st EXCEPT ![of[c]] = "OPEN"]
  /\ UNCHANGED <<resources, errors, totalCalls, of, on, read, high>>

LetThrough(c) ==
  /\ At(c, "rate", "action")
  /\ ~RateExceeded(c)
  /\ UNCHANGED <<resources, st, errors, totalCalls, of, on, read, high>>

(* Under the lock of the breaker Do was called on. *)
ErrorOnly(b, failed) == IF failed THEN totalCalls[b] ELSE totalCalls[b] + 1
CallsAfter(b, failed) == totalCalls[b] + 1

Count(c, failed) ==
  /\ At(c, "action", "idle")
  /\ totalCalls[on[c]] < MaxCalls
  /\ totalCalls' = [totalCalls EXCEPT ![on[c]] = CallsAfter(on[c], failed)]
  /\ errors' = [errors EXCEPT ![on[c]] = IF failed THEN @ + 1 ELSE @]
  /\ UNCHANGED <<resources, st, of, on, read, high>>

(* The oldest error leaves the window. *)
Age(b) ==
  /\ errors[b] > 0
  /\ errors' = [errors EXCEPT ![b] = @ - 1]
  /\ UNCHANGED <<resources, st, totalCalls, stage, of, on, read, high>>

BreakerNext ==
  \/ \E r \in Resources, b \in Breakers :
       Register(r, b) \/ \E c \in Goroutines : Do(c, r, b)
  \/ \E c \in Goroutines, r \in Resources : RaceEnds(c, r)
  \/ \E c \in Goroutines :
       CountErrors(c) \/ Trip(c) \/ LetThrough(c) \/ \E failed \in BOOLEAN : Count(c, failed)
  \/ \E b \in Breakers : Age(b)

BreakerSpec == BreakerInit /\ [][BreakerNext]_breakerVars

---------------------------------------------------------------------------
(* No breaker opens that was never bad: though errors and calls are read   *)
(* at different moments and without a lock, while other callers count and  *)
(* errors age, whoever opens a breaker would have opened it, too, had it   *)
(* read the calls at the moment it counted the errors: calls only grow     *)
(* until it reads them.  The rate is the one line 85 computes, rounding    *)
(* included (circuitbreaker.go:78-87).                                     *)
TripsJustified ==
  [][\A c \in Goroutines :
       stage[c] = "rate" /\ stage'[c] = "idle" /\ st'[of[c]] = "OPEN" => high[c]]_breakerVars
=============================================================================
