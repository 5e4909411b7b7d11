---------------------------- MODULE RateLimiter2 ----------------------------
(***************************************************************************)
(* The in-process limiter (common/ratelimiter/ratelimiter2.go): goroutines *)
(* that acquire a token, from a counter under a mutex and a condition      *)
(* variable (Accquire) or from a buffered channel (Accquire2), and the two *)
(* goroutines that refill them.                                            *)
(*                                                                         *)
(* A critical section of the mutex is one step.  The counter is refilled   *)
(* by a timer, which fires once; the channel by a ticker, whose channel    *)
(* holds one tick and drops the rest.                                      *)
(***************************************************************************)
EXTENDS Naturals

CONSTANTS
  Callers,  \* goroutines, each making one call after the other
  Cap       \* the limiter's capacity

ASSUME CapAssumption == Cap \in Nat

VARIABLES
  pc,       \* of each caller: outside, at the lock, in cond.Wait, at <-tokensChan
  tokens,   \* the counter
  timer,    \* refill's timer: set, fired, or over
  queued,   \* tokens in tokensChan
  ticked,   \* is a tick in the ticker's channel
  toSend,   \* tokens refill2 has still to send in its loop
  granted,  \* history: calls of Accquire that returned
  burst     \* history: calls of Accquire2 that returned since refill2 last woke

counter == <<tokens, timer, granted>>
channel == <<queued, ticked, toSend, burst>>
vars == <<pc, counter, channel>>

TypeOK ==
  /\ pc \in [Callers -> {"out", "locking", "asleep", "receiving"}]
  /\ tokens \in 0 .. Cap
  /\ timer \in {"set", "fired", "over"}
  /\ queued \in 0 .. Cap
  /\ ticked \in BOOLEAN
  /\ toSend \in 0 .. Cap
  /\ granted \in 0 .. Cap + 1
  /\ burst \in 0 .. Cap

Init ==
  /\ pc = [c \in Callers |-> "out"]
  /\ tokens = Cap
  /\ timer = "set"
  /\ queued = Cap
  /\ ticked = FALSE
  /\ toSend = 0
  /\ granted = 0
  /\ burst = 0

Goto(c, p) == pc' = [pc EXCEPT ![c] = p]
Asleep == {c \in Callers : pc[c] = "asleep"}
Locking == {c \in Callers : pc[c] = "locking"}

---------------------------------------------------------------------------
(* Accquire. *)
Lock(c) ==
  /\ pc[c] = "out"
  /\ Goto(c, "locking")
  /\ UNCHANGED <<counter, channel>>

TakeNone == tokens' = tokens
TakeOne == tokens' = tokens - 1

Take(c) ==
  /\ pc[c] = "locking"
  /\ tokens # 0
  /\ TakeOne
  /\ granted' = granted + 1
  /\ Goto(c, "out")
  /\ UNCHANGED <<timer, channel>>

(* cond.Wait gives the lock up and sleeps; whoever is woken asks again. *)
Wait(c) ==
  /\ pc[c] = "locking"
  /\ tokens = 0
  /\ Goto(c, "asleep")
  /\ UNCHANGED <<counter, channel>>

(* refill: after the only tick of its timer it waits for another for ever. *)
TimerFires ==
  /\ timer = "set"
  /\ timer' = "fired"
  /\ UNCHANGED <<pc, tokens, granted, channel>>

AnyLevel == TRUE
BelowCap == tokens < Cap

SignalNobody == pc' = pc
Signal ==
  \/ Asleep = {} /\ pc' = pc
  \/ \E c \in Asleep : Goto(c, "locking")

Refill ==
  /\ timer = "fired"
  /\ timer' = "over"
  /\ \/ BelowCap /\ tokens' = tokens + 1 /\ Signal
     \/ ~BelowCap /\ UNCHANGED <<tokens, pc>>
  /\ UNCHANGED <<granted, channel>>

---------------------------------------------------------------------------
(* Accquire2. *)
Receive(c) ==
  /\ pc[c] = "out"
  /\ Goto(c, "receiving")
  /\ UNCHANGED <<counter, channel>>

Received(c) ==
  /\ pc[c] = "receiving"
  /\ queued > 0
  /\ queued' = queued - 1
  /\ burst' = burst + 1
  /\ Goto(c, "out")
  /\ UNCHANGED <<counter, ticked, toSend>>

(* refill2: it reads the channel's length once, and sends what was missing *)
(* one by one while callers receive.                                       *)
Ticks == ~ticked
TickerFires ==
  /\ Ticks
  /\ ticked' = TRUE
  /\ UNCHANGED <<pc, counter, queued, toSend, burst>>

MissingInCap == Cap - Cap
MissingUncounted == Cap
Missing == Cap - queued

BeginRefill2 ==
  /\ toSend = 0
  /\ ticked
  /\ ticked' = FALSE
  /\ toSend' = Missing
  /\ burst' = 0
  /\ UNCHANGED <<pc, counter, queued>>

Send ==
  /\ toSend > 0
  /\ queued < Cap
  /\ queued' = queued + 1
  /\ toSend' = toSend - 1
  /\ UNCHANGED <<pc, counter, ticked, burst>>

---------------------------------------------------------------------------
Call(c) == Lock(c) \/ Receive(c)
CallStep(c) == Take(c) \/ Wait(c)
Refiller2 == TickerFires \/ BeginRefill2 \/ Send

Next ==
  \/ \E c \in Callers : Call(c) \/ CallStep(c) \/ Received(c)
  \/ TimerFires \/ Refill
  \/ Refiller2

Spec == Init /\ [][Next]_vars

(* Goroutines run, timers fire, mutex and channel serve in order; nobody   *)
(* has to call.                                                            *)
FairSpec ==
  /\ Spec
  /\ WF_vars(TimerFires) /\ WF_vars(Refill)
  /\ WF_vars(TickerFires) /\ WF_vars(BeginRefill2) /\ WF_vars(Send)
  /\ \A c \in Callers : WF_vars(CallStep(c)) /\ SF_vars(Received(c))

---------------------------------------------------------------------------
(* No wake-up is lost: when there is a token and somebody sleeps for one,  *)
(* somebody is on the way to the lock (ratelimiter2.go:17-24, 44-53).      *)
NoLostWakeup == Asleep # {} /\ tokens > 0 => Locking # {}

(* Accquire grants the capacity and one token more, ever, and hands out no *)
(* token twice: its refill is a timer and not a ticker (line 45).          *)
GrantsBounded ==
  granted + tokens <= Cap + (IF timer = "over" THEN 1 ELSE 0)

(* From one start of refill2's loop to the next Accquire2 grants what was  *)
(* in the channel or is sent in between, the capacity in all, though the   *)
(* length is read without a lock.  So the loop never meets a full channel  *)
(* (lines 60-69).                                                          *)
BurstBounded == queued + toSend + burst = Cap

(* Whoever waits at the channel gets a token. *)
ReceiversServed == \A c \in Callers : pc[c] = "receiving" ~> pc[c] = "out"
=============================================================================
