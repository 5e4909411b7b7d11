---------------------------- MODULE CommonProofs ----------------------------
(***************************************************************************)
(* What holds of the small libraries of the Go directory common/, for      *)
(* every value of their constants: the limiter with a condition variable,  *)
(* the circuit breaker, the limiter in Redis.  They share no state; the    *)
(* module takes them together as the directory does.                       *)
(***************************************************************************)
EXTENDS RateLimiter2, RedisRateLimiter, CircuitBreaker, FiniteSetTheorems, TLAPS

---------------------------------------------------------------------------
(* 1. The limiter with a condition variable.                               *)
TypeInv ==
  /\ pc \in [Callers -> {"out", "locking", "asleep", "receiving"}]
  /\ tokens \in Nat
  /\ timer \in {"set", "fired", "over"}
  /\ queued \in Nat
  /\ ticked \in BOOLEAN
  /\ toSend \in Nat
  /\ granted \in Nat
  /\ burst \in Nat

(* Callers fall asleep on an empty counter, and one refill is all that     *)
(* comes: while somebody sleeps there is at most one token, and the call   *)
(* that was woken for it, or one that came between, is at the lock.        *)
SleepInv ==
  Asleep # {} =>
     /\ tokens <= 1
     /\ timer # "over" => tokens = 0
     /\ tokens = 1 => Locking # {}

Inv == TypeInv /\ tokens <= Cap /\ SleepInv /\ GrantsBounded /\ BurstBounded

LEMMA InitInv == Init => Inv
<1> SUFFICES ASSUME Init PROVE Inv
  OBVIOUS
<1>1. Asleep = {}
  BY DEF Init, Asleep
<1>2. TypeInv
  BY CapAssumption DEF Init, TypeInv
<1>3. GrantsBounded /\ BurstBounded /\ tokens <= Cap
  BY CapAssumption DEF Init, GrantsBounded, BurstBounded
<1> QED
  BY <1>1, <1>2, <1>3 DEF Inv, SleepInv

(* A caller that moves, and where it was seen before and is seen after.    *)
LEMMA GotoSets ==
  ASSUME TypeInv, NEW c \in Callers, NEW p, Goto(c, p),
         p \in {"out", "locking", "asleep", "receiving"}
  PROVE  /\ pc' \in [Callers -> {"out", "locking", "asleep", "receiving"}]
         /\ p = "asleep" => Asleep' = Asleep \cup {c}
         /\ p # "asleep" => Asleep' = Asleep \ {c}
         /\ p = "locking" => Locking' = Locking \cup {c}
         /\ p # "locking" => Locking' = Locking \ {c}
BY DEF TypeInv, Goto, Asleep, Locking

LEMMA CounterStep ==
  ASSUME Inv, NEW c \in Callers, Take(c) \/ Wait(c)
  PROVE  Inv'
<1>0. TypeInv
  BY DEF Inv
<1>1. CASE Take(c)
  <2>1. /\ tokens # 0 /\ tokens' = tokens - 1 /\ granted' = granted + 1
        /\ UNCHANGED <<timer, queued, ticked, toSend, burst>>
    BY <1>1 DEF Take, TakeOne, channel
  <2>2. Asleep' = Asleep \ {c} /\ Locking' = Locking \ {c}
        /\ pc' \in [Callers -> {"out", "locking", "asleep", "receiving"}]
    BY <1>0, <1>1, GotoSets DEF Take
  <2>3. TypeInv' /\ (tokens <= Cap)'
    BY <2>1, <2>2, CapAssumption DEF Inv, TypeInv
  <2>4. SleepInv'
    BY <2>1, <2>2 DEF Inv, TypeInv, SleepInv
  <2>5. GrantsBounded' /\ BurstBounded'
    BY <2>1, CapAssumption DEF Inv, TypeInv, GrantsBounded, BurstBounded
  <2> QED
    BY <2>3, <2>4, <2>5 DEF Inv
<1>2. CASE Wait(c)
  <2>1. tokens = 0 /\ UNCHANGED <<tokens, timer, granted, queued, ticked, toSend, burst>>
    BY <1>2 DEF Wait, counter, channel
  <2>2. pc' \in [Callers -> {"out", "locking", "asleep", "receiving"}]
    BY <1>0, <1>2, GotoSets DEF Wait
  <2>3. SleepInv'
    BY <2>1 DEF SleepInv
  <2> QED
    BY <2>1, <2>2, <2>3 DEF Inv, TypeInv, GrantsBounded, BurstBounded
<1> QED
  BY <1>1, <1>2

LEMMA RefillStep ==
  ASSUME Inv, Refill
  PROVE  Inv'
<1>0. TypeInv /\ timer = "fired" /\ timer' = "over" /\ UNCHANGED <<granted, queued, ticked, toSend, burst>>
  BY DEF Inv, Refill, channel
<1>1. CASE BelowCap /\ tokens' = tokens + 1 /\ Signal
  <2>1. tokens < Cap
    BY <1>1 DEF BelowCap
  <2>2. CASE Asleep = {} /\ pc' = pc
    <3>1. Asleep' = {}
      BY <2>2 DEF Asleep
    <3> QED
      BY <1>0, <1>1, <2>1, <2>2, <3>1, CapAssumption
         DEF Inv, TypeInv, SleepInv, GrantsBounded, BurstBounded
  <2>3. ASSUME NEW c \in Asleep, Goto(c, "locking")
        PROVE  Inv'
    <3>1. /\ pc' \in [Callers -> {"out", "locking", "asleep", "receiving"}]
          /\ Locking' = Locking \cup {c}
      BY <1>0, <2>3, GotoSets DEF Asleep
    <3>2. tokens = 0
      BY <1>0, <2>3 DEF Inv, SleepInv
    <3>3. SleepInv'
      BY <1>0, <1>1, <3>1, <3>2 DEF SleepInv
    <3> QED
      BY <1>0, <1>1, <2>1, <3>1, <3>3, CapAssumption DEF Inv, TypeInv, GrantsBounded, BurstBounded
  <2> QED
    BY <1>1, <2>2, <2>3 DEF Signal
<1>2. CASE ~BelowCap /\ UNCHANGED <<tokens, pc>>
  <2>1. Asleep' = Asleep /\ Locking' = Locking
    BY <1>2 DEF Asleep, Locking
  <2>2. SleepInv'
    BY <1>0, <1>2, <2>1 DEF Inv, SleepInv
  <2> QED
    BY <1>0, <1>2, <2>2, CapAssumption DEF Inv, TypeInv, GrantsBounded, BurstBounded
<1> QED
  BY <1>1, <1>2 DEF Refill

LEMMA ChannelStep ==
  ASSUME Inv, TickerFires \/ BeginRefill2 \/ Send \/ \E c \in Callers : Received(c)
  PROVE  TypeInv' /\ BurstBounded'
<1>1. CASE TickerFires
  BY <1>1 DEF TickerFires, counter, Inv, TypeInv, BurstBounded
<1>2. CASE BeginRefill2
  <2>1. /\ UNCHANGED <<pc, tokens, timer, granted, queued>>
        /\ ticked' = FALSE /\ toSend' = Cap - queued /\ burst' = 0
    BY <1>2 DEF BeginRefill2, Missing, counter
  <2>2. queued \in Nat /\ burst \in Nat /\ toSend \in Nat /\ queued + toSend + burst = Cap
    BY DEF Inv, TypeInv, BurstBounded
  <2>3. toSend' \in Nat /\ queued + toSend' + 0 = Cap
    BY <2>1, <2>2, CapAssumption
  <2> QED
    BY <2>1, <2>3 DEF Inv, TypeInv, BurstBounded
<1>3. CASE Send
  BY <1>3, CapAssumption DEF Send, counter, Inv, TypeInv, BurstBounded
<1>4. ASSUME NEW c \in Callers, Received(c)
      PROVE  TypeInv' /\ BurstBounded'
  <2>1. pc' \in [Callers -> {"out", "locking", "asleep", "receiving"}]
    BY <1>4, GotoSets DEF Received, Inv
  <2> QED
    BY <1>4, <2>1, CapAssumption DEF Received, counter, Inv, TypeInv, BurstBounded
<1> QED
  BY <1>1, <1>2, <1>3, <1>4

LEMMA InvStep == Inv /\ [Next]_vars => Inv'
<1> SUFFICES ASSUME Inv, [Next]_vars PROVE Inv'
  OBVIOUS
<1>1. ASSUME NEW c \in Callers, Call(c)
      PROVE  Inv'
  <2>1. UNCHANGED <<tokens, timer, granted, queued, ticked, toSend, burst>> /\ pc[c] = "out"
    BY <1>1 DEF Call, Lock, Receive, counter, channel
  <2>2. /\ pc' \in [Callers -> {"out", "locking", "asleep", "receiving"}]
        /\ Asleep' = Asleep \ {c} /\ Locking \subseteq Locking'
    BY <1>1, <2>1, GotoSets DEF Call, Lock, Receive, Inv, Locking
  <2>3. SleepInv'
    BY <2>1, <2>2 DEF Inv, SleepInv
  <2> QED
    BY <2>1, <2>2, <2>3 DEF Inv, TypeInv, GrantsBounded, BurstBounded
<1>2. ASSUME NEW c \in Callers, CallStep(c)
      PROVE  Inv'
  BY <1>2, CounterStep DEF CallStep
<1>3. CASE TimerFires
  <2>1. Asleep' = Asleep /\ Locking' = Locking
    BY <1>3 DEF TimerFires, Asleep, Locking
  <2>2. SleepInv'
    BY <1>3, <2>1 DEF TimerFires, Inv, SleepInv
  <2> QED
    BY <1>3, <2>2 DEF TimerFires, channel, Inv, TypeInv, GrantsBounded, BurstBounded
<1>4. CASE Refill
  BY <1>4, RefillStep
<1>5. CASE Refiller2 \/ \E c \in Callers : Received(c)
  <2>1. TypeInv' /\ BurstBounded'
    BY <1>5, ChannelStep DEF Refiller2
  <2>2. /\ UNCHANGED <<tokens, timer, granted>>
        /\ Asleep' = Asleep /\ Locking' = Locking
    <3>1. CASE Refiller2
      BY <3>1 DEF Refiller2, TickerFires, BeginRefill2, Send, counter, Asleep, Locking
    <3>2. ASSUME NEW c \in Callers, Received(c)
          PROVE  /\ UNCHANGED <<tokens, timer, granted>>
                 /\ Asleep' = Asleep /\ Locking' = Locking
      BY <3>2, GotoSets DEF Received, counter, Inv, Asleep, Locking
    <3> QED
      BY <1>5, <3>1, <3>2
  <2>3. SleepInv' /\ GrantsBounded' /\ (tokens <= Cap)'
    BY <2>2 DEF Inv, SleepInv, GrantsBounded
  <2> QED
    BY <2>1, <2>3 DEF Inv
<1>6. CASE UNCHANGED vars
  BY <1>6 DEF vars, counter, channel, Inv, TypeInv, SleepInv, GrantsBounded, BurstBounded, Asleep, Locking
<1> QED
  BY <1>1, <1>2, <1>3, <1>4, <1>5, <1>6 DEF Next

(* The counter stays within the capacity, the channel within its buffer,   *)
(* and no more than the capacity and one token is granted by Accquire.     *)
THEOREM TypeCorrect == Spec => []TypeOK
<1>1. Inv => TypeOK
  BY CapAssumption DEF Inv, TypeInv, GrantsBounded, BurstBounded, TypeOK
<1> QED
  BY <1>1, InitInv, InvStep, PTL DEF Spec

(* A token never lies there while all who want it sleep.                   *)
THEOREM NobodySleepsBesideAToken == Spec => []NoLostWakeup
<1>1. Inv => NoLostWakeup
  BY DEF Inv, TypeInv, SleepInv, NoLostWakeup
<1> QED
  BY <1>1, InitInv, InvStep, PTL DEF Spec

(* However many call, Accquire returns at most Cap + 1 times.              *)
THEOREM GrantsAreBounded == Spec => []GrantsBounded
<1>1. Inv => GrantsBounded
  BY DEF Inv
<1> QED
  BY <1>1, InitInv, InvStep, PTL DEF Spec

(* Accquire2 grants at most the capacity per round, and refill2 is never   *)
(* stuck at a full channel in its loop.                                    *)
THEOREM BurstsAreBounded == Spec => [](BurstBounded /\ (toSend > 0 => queued < Cap))
<1>1. Inv => BurstBounded /\ (toSend > 0 => queued < Cap)
  BY CapAssumption DEF Inv, TypeInv, BurstBounded
<1> QED
  BY <1>1, InitInv, InvStep, PTL DEF Spec

---------------------------------------------------------------------------
(* 2. The circuit breaker.  Whoever is between two reads holds a breaker   *)
(* that was registered, and its errors exceed the rate against calls that  *)
(* only grow: if they still do, they did when it counted them.             *)
Holds ==
  \A c \in Goroutines :
     /\ stage[c] \in {"isOpen", "rate"} => of[c] \in Breakers
     /\ stage[c] # "idle" => on[c] \in Breakers

Justified ==
  \A c \in Goroutines :
     stage[c] = "rate" /\ Exceeds(read[c], totalCalls[of[c]]) => high[c]

BreakerInv == BreakerTypeOK /\ Holds /\ Justified

(* More calls do not make a rate exceed.                                   *)
LEMMA ExceedsFalls ==
  ASSUME NEW failed \in Nat, NEW m \in Nat, NEW n \in Nat, m <= n, Exceeds(failed, n)
  PROVE  Exceeds(failed, m)
<1>1. LimitErrors * m <= LimitErrors * n
  BY BreakerAssumption
<1>2. /\ LimitErrors * m \in Nat /\ LimitErrors * n \in Nat
      /\ failed * LimitCalls \in Nat
  BY BreakerAssumption
<1> QED
  BY <1>1, <1>2 DEF Exceeds

LEMMA BreakerInitInv == BreakerInit => BreakerInv
<1> SUFFICES ASSUME BreakerInit PROVE BreakerInv
  OBVIOUS
<1>1. 0 \in 0 .. MaxCalls
  BY BreakerAssumption
<1>2. BreakerTypeOK
  BY <1>1 DEF BreakerInit, NoneRegistered, AllUnset, NoCalls, AllIdle, BreakerTypeOK
<1> QED
  BY <1>2 DEF BreakerInit, AllIdle, BreakerInv, Holds, Justified

(* The steps that ask: which breaker, its errors, its calls.               *)
LEMMA AskStep ==
  ASSUME BreakerInv, NEW c \in Goroutines,
         \/ \E r \in Resources, b \in Breakers : Do(c, r, b)
         \/ CountErrors(c) \/ Trip(c) \/ LetThrough(c)
  PROVE  BreakerInv'
<1> USE DEF BreakerInv
<1>1. ASSUME NEW r \in Resources, NEW b \in Breakers, Do(c, r, b)
      PROVE  BreakerInv'
  <2>1. resources[r] \in Breakers /\ stage'[c] \in {"action", "isOpen"}
    BY <1>1 DEF Do, At, BreakerTypeOK
  <2>2. BreakerTypeOK'
    BY <1>1, <2>1 DEF Do, At, BreakerTypeOK
  <2>3. Holds' /\ Justified'
    BY <1>1, <2>1 DEF Do, At, BreakerTypeOK, Holds, Justified
  <2> QED
    BY <2>2, <2>3
<1>2. CASE CountErrors(c)
  <2>1. /\ of[c] \in Breakers /\ on[c] \in Breakers
        /\ stage' = [stage EXCEPT ![c] = "rate"]
        /\ read' = [read EXCEPT ![c] = errors[of[c]]]
        /\ high' = [high EXCEPT ![c] = Exceeds(errors[of[c]], totalCalls[of[c]])]
        /\ UNCHANGED <<resources, st, errors, totalCalls, of, on>>
    BY <1>2 DEF CountErrors, At, Holds
  <2>2. high' \in [Goroutines -> BOOLEAN]
    <3>1. Exceeds(errors[of[c]], totalCalls[of[c]]) \in BOOLEAN
      BY DEF Exceeds
    <3> QED
      BY <2>1, <3>1, Zenon DEF BreakerTypeOK
  <2>3. BreakerTypeOK'
    BY <2>1, <2>2 DEF BreakerTypeOK
  <2>4. Holds'
    BY <2>1 DEF BreakerTypeOK, Holds
  <2>5. Justified'
    <3> SUFFICES ASSUME NEW q \in Goroutines,
                        stage'[q] = "rate", Exceeds(read'[q], totalCalls'[of'[q]])
                 PROVE  high'[q]
      BY DEF Justified, Exceeds
    <3>1. CASE q = c
      <4>1. read'[c] = errors[of[c]]
        BY <2>1 DEF BreakerTypeOK
      <4>2. high'[c] = Exceeds(errors[of[c]], totalCalls[of[c]])
        BY <2>1, Zenon DEF BreakerTypeOK
      <4>3. Exceeds(errors[of[c]], totalCalls[of[c]])
        BY <2>1, <3>1, <4>1
      <4> QED
        BY <3>1, <4>2, <4>3, Zenon
    <3>2. CASE q # c
      <4>1. stage[q] = "rate" /\ read'[q] = read[q]
        BY <2>1, <3>2 DEF BreakerTypeOK
      <4>2. high'[q] = high[q]
        BY <2>1, <3>2, Zenon DEF BreakerTypeOK
      <4>3. Exceeds(read[q], totalCalls[of[q]])
        BY <2>1, <4>1
      <4>4. high[q]
        BY <4>1, <4>3 DEF Justified
      <4> QED
        BY <4>2, <4>4, Zenon
    <3> QED
      BY <3>1, <3>2
  <2> QED
    BY <2>3, <2>4, <2>5
<1>3. CASE Trip(c)
  <2>1. /\ of[c] \in Breakers
        /\ stage' = [stage EXCEPT ![c] = "idle"]
        /\ st' = [st EXCEPT ![of[c]] = "OPEN"]
        /\ UNCHANGED <<resources, errors, totalCalls, of, on, read, high>>
    BY <1>3 DEF Trip, At, Holds
  <2> QED
    BY <2>1 DEF BreakerTypeOK, Holds, Justified
<1>4. CASE LetThrough(c)
  <2>1. stage' = [stage EXCEPT ![c] = "action"]
        /\ UNCHANGED <<resources, st, errors, totalCalls, of, on, read, high>>
    BY <1>4 DEF LetThrough, At
  <2>2. on[c] \in Breakers
    BY <1>4 DEF LetThrough, At, Holds
  <2> QED
    BY <2>1, <2>2 DEF BreakerTypeOK, Holds, Justified
<1> QED
  BY <1>1, <1>2, <1>3, <1>4

(* The steps that count: a call and its error on the breaker Do was called *)
(* on, a registration, an error that ages.                                 *)
LEMMA CountStep ==
  ASSUME BreakerInv, NEW c \in Goroutines, NEW failed \in BOOLEAN, Count(c, failed)
  PROVE  BreakerInv'
<1> DEFINE b == on[c]
<1>1. /\ b \in Breakers
      /\ stage' = [stage EXCEPT ![c] = "idle"]
      /\ totalCalls[b] < MaxCalls
      /\ totalCalls' = [totalCalls EXCEPT ![b] = totalCalls[b] + 1]
      /\ errors' = [errors EXCEPT ![b] = IF failed THEN errors[b] + 1 ELSE errors[b]]
      /\ UNCHANGED <<resources, st, of, on, read, high>>
  BY DEF BreakerInv, Holds, Count, At, CallsAfter
<1>2. BreakerTypeOK'
  <2>1. /\ totalCalls[b] \in 0 .. MaxCalls /\ errors[b] \in 0 .. MaxCalls
        /\ errors[b] <= totalCalls[b]
    BY <1>1 DEF BreakerInv, BreakerTypeOK
  <2>2. /\ totalCalls[b] + 1 \in 0 .. MaxCalls
        /\ errors'[b] \in 0 .. MaxCalls /\ errors'[b] <= totalCalls[b] + 1
    BY <1>1, <2>1, BreakerAssumption DEF BreakerInv, BreakerTypeOK
  <2>3. \A a \in Breakers \ {b} : errors'[a] = errors[a] /\ totalCalls'[a] = totalCalls[a]
    BY <1>1 DEF BreakerInv, BreakerTypeOK
  <2>4. /\ totalCalls' \in [Breakers -> 0 .. MaxCalls]
        /\ errors' \in [Breakers -> 0 .. MaxCalls]
        /\ totalCalls'[b] = totalCalls[b] + 1
    BY <1>1, <2>1, <2>2 DEF BreakerInv, BreakerTypeOK
  <2>5. \A a \in Breakers : errors'[a] <= totalCalls'[a]
    BY <2>2, <2>3, <2>4 DEF BreakerInv, BreakerTypeOK
  <2>6. stage' \in [Goroutines -> {"idle", "isOpen", "rate", "action"}]
    BY <1>1 DEF BreakerInv, BreakerTypeOK
  <2> QED
    BY <1>1, <2>4, <2>5, <2>6 DEF BreakerInv, BreakerTypeOK
<1>3. Holds'
  BY <1>1 DEF BreakerInv, BreakerTypeOK, Holds
<1>4. Justified'
  <2> SUFFICES ASSUME NEW q \in Goroutines,
                      stage'[q] = "rate", Exceeds(read'[q], totalCalls'[of'[q]])
               PROVE  high'[q]
    BY DEF Justified, Exceeds
  <2>1. /\ stage[q] = "rate" /\ q # c /\ of[q] \in Breakers
        /\ read'[q] = read[q] /\ of'[q] = of[q] /\ read[q] \in Nat
    BY <1>1 DEF BreakerInv, BreakerTypeOK, Holds
  <2>2. /\ totalCalls[of[q]] \in Nat /\ totalCalls'[of[q]] \in Nat
        /\ totalCalls[of[q]] <= totalCalls'[of[q]]
    BY <1>1, <2>1 DEF BreakerInv, BreakerTypeOK
  <2>3. Exceeds(read[q], totalCalls[of[q]])
    BY <2>1, <2>2, ExceedsFalls
  <2> QED
    BY <1>1, <2>1, <2>3 DEF BreakerInv, Justified
<1> QED
  BY <1>2, <1>3, <1>4 DEF BreakerInv

LEMMA BreakerInvStep == BreakerInv /\ [BreakerNext]_breakerVars => BreakerInv'
<1> SUFFICES ASSUME BreakerInv, [BreakerNext]_breakerVars PROVE BreakerInv'
  OBVIOUS
<1>1. ASSUME NEW r \in Resources, NEW b \in Breakers, Register(r, b)
      PROVE  BreakerInv'
  BY <1>1 DEF Register, BreakerInv, BreakerTypeOK, Holds, Justified, Exceeds
<1>2. ASSUME NEW c \in Goroutines,
             \/ \E r \in Resources, b \in Breakers : Do(c, r, b)
             \/ CountErrors(c) \/ Trip(c) \/ LetThrough(c)
      PROVE  BreakerInv'
  BY <1>2, AskStep
<1>3. ASSUME NEW c \in Goroutines, NEW failed \in BOOLEAN, Count(c, failed)
      PROVE  BreakerInv'
  BY <1>3, CountStep
<1>4. ASSUME NEW b \in Breakers, Age(b)
      PROVE  BreakerInv'
  <2>1. /\ errors[b] > 0 /\ errors' = [errors EXCEPT ![b] = errors[b] - 1]
        /\ UNCHANGED <<resources, st, totalCalls, stage, of, on, read, high>>
    BY <1>4 DEF Age
  <2>2. errors[b] \in 0 .. MaxCalls /\ errors[b] - 1 \in 0 .. MaxCalls
    BY <2>1, BreakerAssumption DEF BreakerInv, BreakerTypeOK
  <2>3. BreakerTypeOK'
    BY <2>1, <2>2, BreakerAssumption DEF BreakerInv, BreakerTypeOK
  <2> QED
    BY <2>1, <2>3 DEF BreakerInv, Holds, Justified, Exceeds
<1>5. ASSUME NEW c \in Goroutines, NEW r \in Resources, RaceEnds(c, r)
      PROVE  BreakerInv'
  <2>1. \A q \in Goroutines : stage'[q] = "idle"
    BY <1>5 DEF RaceEnds, AllIdle
  <2>2. 0 \in 0 .. MaxCalls
    BY BreakerAssumption
  <2>3. BreakerTypeOK'
    BY <1>5, <2>2 DEF RaceEnds, NoneRegistered, AllUnset, NoCalls, AllIdle, BreakerInv,
                      BreakerTypeOK
  <2> QED
    BY <2>1, <2>3 DEF BreakerInv, Holds, Justified
<1>6. CASE UNCHANGED breakerVars
  BY <1>6 DEF breakerVars, BreakerInv, BreakerTypeOK, Holds, Justified, Exceeds
<1> QED
  BY <1>1, <1>2, <1>3, <1>4, <1>5, <1>6 DEF BreakerNext

LEMMA BreakerInvariance == BreakerSpec => []BreakerInv
BY BreakerInitInv, BreakerInvStep, PTL DEF BreakerSpec

(* No breaker counts more errors than calls, and whoever asks one asks a   *)
(* registered one.                                                         *)
THEOREM BreakerTypeCorrect == BreakerSpec => []BreakerTypeOK
<1>1. BreakerInv => BreakerTypeOK
  BY DEF BreakerInv
<1> QED
  BY <1>1, BreakerInvariance, PTL

(* However reads without the lock interleave with counting, no breaker     *)
(* opens whose rate, as line 85 computes it, was not too high when its     *)
(* errors were counted, whatever quotient the percentage and the rounding  *)
(* of float32 make the limit (circuitbreaker.go:78-87).                    *)
THEOREM TripsAreJustified == BreakerSpec => TripsJustified
<1>1. ASSUME BreakerInv, [BreakerNext]_breakerVars,
             NEW c \in Goroutines, stage[c] = "rate", stage'[c] = "idle",
             st'[of[c]] = "OPEN"
      PROVE  high[c]
  <2>0. \A q \in Goroutines, r \in Resources : ~RaceEnds(q, r)
    BY <1>1 DEF RaceEnds, AllUnset, Unset, BreakerInv, Holds
  <2>1. Trip(c)
    <3>1. \A q \in Goroutines : \A from, to : At(q, from, to) /\ q # c => stage'[c] = "rate"
      BY <1>1 DEF At, BreakerInv, BreakerTypeOK
    <3>2. \A from, to : At(c, from, to) => from = "rate" /\ to = "idle"
      BY <1>1 DEF At, BreakerInv, BreakerTypeOK
    <3> QED
      BY <1>1, <2>0, <3>1, <3>2
         DEF BreakerNext, breakerVars, Register, Do, CountErrors, LetThrough, Count, Age, Trip
  <2> QED
    BY <1>1, <2>1 DEF Trip, RateExceeded, BreakerInv, Justified
<1>2. BreakerInv /\ [BreakerNext]_breakerVars =>
        [\A c \in Goroutines :
           stage[c] = "rate" /\ stage'[c] = "idle" /\ st'[of[c]] = "OPEN" => high[c]]_breakerVars
  BY <1>1
<1> QED
  BY <1>2, BreakerInvariance, PTL DEF BreakerSpec, TripsJustified

---------------------------------------------------------------------------
(* 3. The limiter in Redis.  The set is counted before it is purged and    *)
(* forgotten when the key expires; still, what it does not hold is older   *)
(* than a window, seen from some later admission.                          *)
Clocked ==
  /\ \A c \in Clients : now[c] <= clock
  /\ admitted \subseteq 1 .. clock
  /\ zset \subseteq admitted

(* The key outlives every admission by the window and the grace, ...       *)
Lifetime == \A u \in admitted : u + Window + Grace <= expires

(* ... a member is never missing while it counts, ...                      *)
Kept == orderly => \A u \in admitted \ zset : \E v \in admitted : u <= v - Window

(* ... and the key does not outlive its oldest member by much.             *)
Young == orderly => \A u \in zset : expires < u + 2 * (Window + Grace)

RedisInv ==
  RedisTypeOK /\ Clocked /\ Lifetime /\ Kept /\ Young /\ WindowBounded

LEMMA TimesFinite ==
  ASSUME NEW S \in SUBSET Times
  PROVE  IsFiniteSet(S) /\ Cardinality(S) \in Nat
<1>1. IsFiniteSet(Times)
  BY FS_Interval, LimiterAssumption DEF Times
<1> QED
  BY <1>1, FS_Subset, FS_CardinalityType

(* The window that ends at s, of the times in A.                           *)
Within(A, s) == {u \in A : s - Window < u /\ u <= s}

LEMMA WindowDef ==
  /\ WindowBounded <=> (orderly => \A s \in admitted : Cardinality(Within(admitted, s)) <= Volume)
  /\ WindowBounded' <=> (orderly' => \A s \in admitted' : Cardinality(Within(admitted', s)) <= Volume)
BY DEF WindowBounded, Within

LEMMA RedisInitInv == RedisInit => RedisInv
<1> SUFFICES ASSUME RedisInit PROVE RedisInv
  OBVIOUS
<1>1. Cardinality({}) = 0
  BY FS_EmptySet
<1>2. RedisTypeOK
  BY <1>1, LimiterAssumption DEF RedisInit, RedisTypeOK, Times
<1> QED
  BY <1>2 DEF RedisInit, RedisInv, Clocked, Lifetime, Kept, Young, WindowBounded, None

(* What an admission does: the set stays within the limit, and whatever is *)
(* not in it lies a window before the time let in.                         *)
LEMMA AdmitFacts ==
  ASSUME RedisInv, NEW c \in Clients, now[c] # None, Admit(c)
  PROVE  /\ now[c] \in Times /\ now[c] <= clock /\ now[c] \in zset'
         /\ zset' \subseteq admitted' /\ admitted' = admitted \cup {now[c]}
         /\ Cardinality(zset') <= Volume
         /\ orderly' => /\ orderly
                        /\ \A u \in admitted : u <= now[c]
                        /\ clock - now[c] <= Grace
                        /\ \A u \in admitted' \ zset' : \E v \in admitted' : u <= v - Window
         /\ \A u \in zset' : u > now[c] - Window
         /\ expires' = clock + Window + Grace
<1> DEFINE t == now[c]
<1> USE LimiterAssumption
<1>1. t \in Times /\ t <= clock /\ clock \in Times /\ t \in Nat /\ clock \in Nat
  BY DEF RedisInv, RedisTypeOK, Clocked, Times, None
<1>2. /\ HasRoom
      /\ zset' = (Members \cup {t}) \ (0 .. t - Window)
      /\ expires' = clock + Window + Grace
      /\ admitted' = admitted \cup {t}
      /\ orderly' => /\ orderly
                     /\ \A u \in admitted : u <= t
                     /\ clock - t <= Grace
  BY DEF Admit, Purged, Expiry
<1>3. Members \subseteq zset /\ zset \subseteq admitted /\ admitted \subseteq Times
  BY DEF Members, RedisInv, RedisTypeOK, Clocked
<1>4. t \in zset' /\ zset' \subseteq admitted'
  <2>1. t \notin 0 .. t - Window
    BY <1>1
  <2>2. t \in zset'
    BY <1>2, <2>1
  <2>3. zset' \subseteq Members \cup {t}
    BY <1>2
  <2> QED
    BY <1>2, <1>3, <2>2, <2>3
<1>5. \A u \in zset' : u > t - Window
  BY <1>1, <1>2, <1>3 DEF Times
<1>6. Cardinality(zset') <= Volume
  <2>1. Cardinality(Members) < Volume /\ IsFiniteSet(Members) /\ Cardinality(Members) \in Nat
    BY <1>2, <1>3, TimesFinite DEF HasRoom
  <2>2. /\ IsFiniteSet(Members \cup {t})
        /\ Cardinality(Members \cup {t}) <= Volume
        /\ Cardinality(Members \cup {t}) \in Nat
    BY <2>1, FS_AddElement
  <2>3. zset' \in SUBSET (Members \cup {t})
    BY <1>2
  <2>4. Cardinality(zset') <= Cardinality(Members \cup {t}) /\ IsFiniteSet(zset')
    BY <2>2, <2>3, FS_Subset
  <2>5. Cardinality(zset') \in Nat
    BY <2>4, FS_CardinalityType
  <2> QED
    BY <2>2, <2>4, <2>5
<1>7. ASSUME orderly', NEW u \in admitted' \ zset'
      PROVE  \E v \in admitted' : u <= v - Window
  <2>1. u \in admitted /\ u \in Nat /\ u \in Times
    BY <1>2, <1>3, <1>4, <1>7 DEF Times
  <2>2. CASE u <= t - Window
    BY <1>2, <2>2
  <2>3. CASE ~(u <= t - Window)
    <3>1. u \notin Members
      BY <1>1, <1>2, <1>7, <2>1, <2>3
    <3>2. CASE u \notin zset
      BY <1>2, <1>7, <2>1, <3>2 DEF RedisInv, Kept
    <3>3. CASE ~(clock < expires)
      <4>1. u + Window + Grace <= expires
        BY <2>1 DEF RedisInv, Lifetime
      <4>2. clock - t <= Grace /\ expires \in Nat
        BY <1>2, <1>7 DEF RedisInv, RedisTypeOK
      <4> QED
        BY <1>1, <2>1, <2>3, <3>3, <4>1, <4>2
    <3> QED
      BY <3>1, <3>2, <3>3 DEF Members
  <2> QED
    BY <2>2, <2>3
<1> QED
  BY <1>1, <1>2, <1>4, <1>5, <1>6, <1>7

LEMMA AdmitStep ==
  ASSUME RedisInv, NEW c \in Clients, now[c] # None, Admit(c)
  PROVE  /\ RedisTypeOK' <=> (now' \in [Clients -> Times \cup {None}] /\ clock' \in Times
                              /\ got' \in [Clients -> {"none", "true", "false", "error"}])
         /\ Lifetime' /\ Kept' /\ Young' /\ WindowBounded'
         /\ zset' \subseteq admitted' /\ admitted' \subseteq 1 .. clock
<1> DEFINE t == now[c]
<1> USE LimiterAssumption
<1>1. /\ t \in Nat /\ t \in Times /\ clock \in Nat /\ t <= clock
      /\ admitted \subseteq 1 .. clock /\ admitted \subseteq Times
  BY AdmitFacts DEF RedisInv, RedisTypeOK, Clocked, Times
<1>2. /\ admitted' = admitted \cup {t} /\ zset' \subseteq admitted' /\ t \in zset'
      /\ expires' = clock + Window + Grace
  BY AdmitFacts
<1>3. admitted' \subseteq 1 .. clock /\ admitted' \subseteq Times /\ zset' \subseteq Times
  <2>1. t \in 1 .. clock
    BY <1>1 DEF Times
  <2> QED
    BY <1>1, <1>2, <2>1
<1>4. RedisTypeOK' <=> (now' \in [Clients -> Times \cup {None}] /\ clock' \in Times
                        /\ got' \in [Clients -> {"none", "true", "false", "error"}])
  <2>1. orderly' \in BOOLEAN
    BY DEF Admit
  <2>2. Cardinality(zset') <= Volume /\ expires' \in Nat
    BY <1>1, <1>2, AdmitFacts
  <2> QED
    BY <1>3, <2>1, <2>2 DEF RedisTypeOK
<1>5. Lifetime'
  BY <1>1, <1>2, <1>3 DEF Lifetime
<1>6. Kept'
  BY AdmitFacts DEF Kept
<1>7. Young'
  <2> SUFFICES ASSUME orderly', NEW u \in zset'
               PROVE  expires' < u + 2 * (Window + Grace)
    BY DEF Young
  <2>1. u \in Nat /\ u > t - Window /\ clock - t <= Grace
    BY <1>3, AdmitFacts DEF Times
  <2> QED
    BY <1>1, <1>2, <2>1
<1>8. WindowBounded'
  <2> SUFFICES ASSUME orderly', NEW s \in admitted'
               PROVE  Cardinality(Within(admitted', s)) <= Volume
    BY WindowDef
  <2>1. /\ orderly /\ \A u \in admitted : u <= t
        /\ \A u \in admitted' \ zset' : \E v \in admitted' : u <= v - Window
    BY AdmitFacts
  <2>2. CASE s = t
    <3>1. Within(admitted', t) \subseteq zset'
      <4> SUFFICES ASSUME NEW u \in admitted' \ zset', t - Window < u PROVE FALSE
        BY DEF Within
      <4>1. PICK v \in admitted' : u <= v - Window
        BY <2>1
      <4>2. v <= t /\ v \in Nat /\ u \in Nat
        BY <1>1, <1>2, <1>3, <2>1 DEF Times
      <4> QED
        BY <1>1, <4>1, <4>2
    <3>2. /\ IsFiniteSet(zset') /\ Cardinality(zset') \in Nat
          /\ Cardinality(Within(admitted', t)) \in Nat
      BY <1>3, <3>1, TimesFinite
    <3>3. Cardinality(Within(admitted', t)) <= Cardinality(zset')
      BY <3>1, <3>2, FS_Subset
    <3> QED
      BY <2>2, <3>2, <3>3, AdmitFacts
  <2>3. CASE s # t
    <3>1. s \in admitted /\ s <= t /\ s \in Nat
      BY <1>1, <1>2, <1>3, <2>1, <2>3
    <3>2. Within(admitted', s) = Within(admitted, s)
      BY <1>1, <1>2, <2>3, <3>1 DEF Within
    <3> QED
      BY <2>1, <3>1, <3>2, WindowDef DEF RedisInv
  <2> QED
    BY <2>2, <2>3
<1> QED
  BY <1>2, <1>3, <1>4, <1>5, <1>6, <1>7, <1>8

(* A call's answer changes only what the caller knows.                     *)
LEMMA AnswerType ==
  ASSUME RedisTypeOK, NEW c \in Clients, NEW result \in {"true", "false", "error"},
         Answer(c, result)
  PROVE  /\ now' \in [Clients -> Times \cup {None}]
         /\ got' \in [Clients -> {"none", "true", "false", "error"}]
         /\ \A d \in Clients : now'[d] = now[d] \/ now'[d] = None
BY DEF RedisTypeOK, Answer

LEMMA RedisInvStep == RedisInv /\ [RedisNext]_redisVars => RedisInv'
<1> SUFFICES ASSUME RedisInv, [RedisNext]_redisVars PROVE RedisInv'
  OBVIOUS
<1> USE LimiterAssumption
<1>1. ASSUME NEW c \in Clients, now[c] # None, Admit(c), Answer(c, "true"), clock' = clock
      PROVE  RedisInv'
  <2>1. /\ now' \in [Clients -> Times \cup {None}]
        /\ got' \in [Clients -> {"none", "true", "false", "error"}]
        /\ \A d \in Clients : now'[d] = now[d] \/ now'[d] = None
    BY <1>1, AnswerType DEF RedisInv
  <2>2. RedisTypeOK' /\ Lifetime' /\ Kept' /\ Young' /\ WindowBounded'
    BY <1>1, <2>1, AdmitStep DEF RedisInv, RedisTypeOK
  <2>3. Clocked'
    BY <1>1, <2>1, AdmitStep DEF RedisInv, RedisTypeOK, Clocked, Times, None
  <2> QED
    BY <2>2, <2>3 DEF RedisInv
<1>2. ASSUME UNCHANGED <<zset, expires, admitted, orderly>>,
             clock' \in Times, clock <= clock',
             now' \in [Clients -> Times \cup {None}],
             got' \in [Clients -> {"none", "true", "false", "error"}],
             \A d \in Clients : now'[d] <= clock'
      PROVE  RedisInv'
  <2>1. RedisTypeOK'
    BY <1>2 DEF RedisInv, RedisTypeOK
  <2>2. Clocked'
    BY <1>2 DEF RedisInv, RedisTypeOK, Clocked, Times
  <2>3. Lifetime' /\ Kept' /\ Young' /\ WindowBounded'
    BY <1>2 DEF RedisInv, Lifetime, Kept, Young, WindowBounded
  <2> QED
    BY <2>1, <2>2, <2>3 DEF RedisInv
<1>3. /\ clock \in Times /\ now \in [Clients -> Times \cup {None}]
      /\ got \in [Clients -> {"none", "true", "false", "error"}]
      /\ \A d \in Clients : now[d] <= clock
      /\ None <= clock /\ \A n \in Times : n \in Nat
  BY DEF RedisInv, RedisTypeOK, Clocked, Times, None
<1>4. ASSUME NEW c \in Clients, Accquire(c)
      PROVE  RedisInv'
  BY <1>2, <1>3, <1>4 DEF Accquire
<1>5. ASSUME NEW c \in Clients, LuaScript(c)
      PROVE  RedisInv'
  <2>1. CASE Admit(c) /\ Answer(c, "true")
    BY <1>1, <1>5, <2>1 DEF LuaScript
  <2>2. CASE Reject /\ Answer(c, "false")
    <3>1. /\ now' \in [Clients -> Times \cup {None}]
          /\ got' \in [Clients -> {"none", "true", "false", "error"}]
          /\ \A d \in Clients : now'[d] = now[d] \/ now'[d] = None
      BY <2>2, AnswerType DEF RedisInv
    <3> QED
      BY <1>2, <1>3, <1>5, <2>2, <3>1 DEF LuaScript, Reject
  <2> QED
    BY <1>5, <2>1, <2>2 DEF LuaScript
<1>6. ASSUME NEW c \in Clients, Fail(c)
      PROVE  RedisInv'
  BY <1>2, <1>3, <1>6 DEF Fail
<1>7. CASE Tick
  <2>1. clock' \in Times /\ clock <= clock' /\ UNCHANGED <<zset, expires, now, got, admitted, orderly>>
    BY <1>3, <1>7 DEF Tick, Times
  <2>2. \A d \in Clients : now'[d] <= clock'
    BY <1>3, <2>1 DEF Times, None
  <2> QED
    BY <1>2, <1>3, <2>1, <2>2
<1>8. CASE UNCHANGED redisVars
  BY <1>2, <1>3, <1>8 DEF redisVars
<1> QED
  BY <1>4, <1>5, <1>6, <1>7, <1>8 DEF RedisNext

LEMMA RedisInvariance == RedisSpec => []RedisInv
BY RedisInitInv, RedisInvStep, PTL DEF RedisSpec

(* The set never holds more than the limit, whatever is late or repeated.  *)
THEOREM RedisTypeCorrect == RedisSpec => []RedisTypeOK
<1>1. RedisInv => RedisTypeOK
  BY DEF RedisInv
<1> QED
  BY <1>1, RedisInvariance, PTL

(* No window has more milliseconds let in than the limit, for every        *)
(* window, limit and number of callers (ratelimiter_redis.go:12-22).       *)
THEOREM WindowsAreBounded == RedisSpec => []WindowBounded
<1>1. RedisInv => WindowBounded
  BY DEF RedisInv
<1> QED
  BY <1>1, RedisInvariance, PTL

(* A refusal is never the fault of stale members alone: as many as the     *)
(* limit were let in lately.                                               *)
THEOREM RefusalsAreExplained == RedisSpec => RefusalsExplained
<1>1. ASSUME RedisInv, [RedisNext]_redisVars,
             NEW c \in Clients, Refused(c), orderly
      PROVE  Cardinality(Recent) >= Volume
  <2> USE LimiterAssumption
  <2>1. Reject
    <3>1. now[c] # None /\ now'[c] = None /\ got'[c] = "false" /\ now \in [Clients -> Times \cup {None}]
          /\ got \in [Clients -> {"none", "true", "false", "error"}]
      BY <1>1 DEF Refused, RedisInv, RedisTypeOK
    <3>2. \A d \in Clients : ~Accquire(d) /\ ~Fail(d)
      BY <3>1 DEF Accquire, Fail, None, Times
    <3>3. \A d \in Clients : ~(LuaScript(d) /\ Answer(d, "true"))
      BY <3>1 DEF LuaScript, Answer
    <3>4. ~Tick /\ ~UNCHANGED redisVars
      BY <3>1 DEF Tick, redisVars
    <3> QED
      BY <1>1, <3>2, <3>3, <3>4 DEF RedisNext, LuaScript
  <2>2. ~(Cardinality(Members) < Volume)
    BY <2>1 DEF Reject, HasRoom
  <2>3. Members \subseteq Recent
    <3> SUFFICES ASSUME NEW u \in Members PROVE u \in Recent
      OBVIOUS
    <3>1. clock < expires /\ u \in zset
      BY DEF Members
    <3>2. expires < u + 2 * (Window + Grace) /\ u \in admitted
      BY <1>1, <3>1 DEF RedisInv, Young, Clocked
    <3>3. u \in Nat /\ clock \in Nat /\ expires \in Nat
      BY <1>1, <3>1 DEF RedisInv, RedisTypeOK, Times
    <3> QED
      BY <3>1, <3>2, <3>3 DEF Recent
  <2>4. Members \subseteq Times /\ Recent \subseteq Times
    BY <1>1 DEF RedisInv, RedisTypeOK, Members, Recent
  <2>5. /\ Cardinality(Members) \in Nat /\ Cardinality(Recent) \in Nat
        /\ IsFiniteSet(Recent)
    BY <2>4, TimesFinite
  <2>6. Cardinality(Members) <= Cardinality(Recent)
    BY <2>3, <2>5, FS_Subset
  <2> QED
    BY <2>2, <2>5, <2>6
<1>2. RedisInv /\ [RedisNext]_redisVars =>
        [\A c \in Clients : Refused(c) /\ orderly => Cardinality(Recent) >= Volume]_redisVars
  BY <1>1
<1> QED
  BY <1>2, RedisInvariance, PTL DEF RedisSpec, RefusalsExplained
=============================================================================
