------------------------ MODULE RetryTransportProofs ------------------------
(***************************************************************************)
(* What holds of a call, whatever the options and the width of a duration. *)
(* The provers know nothing of powers of two; the library does: they count *)
(* the subsets of 1 .. n.                                                  *)
(***************************************************************************)
EXTENDS RetryTransport, FiniteSetTheorems, TLAPS

(* A request sent after the context's end is still out, has just failed,   *)
(* or was the last.                                                        *)
LateInv ==
  /\ late <= 1
  /\ ~ended => late = 0
  /\ pc \in {"limit", "waiting"} => late = 0

(* Only a call with a retry left waits.                                    *)
WaitInv == pc = "waiting" => i < MaxRetries

Inv == TypeOK /\ BodiesSettled /\ LateInv /\ WaitInv

---------------------------------------------------------------------------
LEMMA Powers ==
  ASSUME NEW n \in Nat
  PROVE  2^n \in Nat /\ 2^n > 0
<1>1. IsFiniteSet(1 .. n) /\ Cardinality(1 .. n) = n
  BY FS_Interval
<1>2. IsFiniteSet(SUBSET (1 .. n)) /\ Cardinality(SUBSET (1 .. n)) = 2^n
  BY <1>1, FS_SUBSET
<1>3. SUBSET (1 .. n) # {}
  OBVIOUS
<1> QED
  BY <1>2, <1>3, FS_CardinalityType, FS_EmptySet

LEMMA PowersGrow ==
  ASSUME NEW m \in Nat, NEW n \in Nat, m <= n
  PROVE  2^m <= 2^n
<1>1. /\ IsFiniteSet(1 .. m) /\ Cardinality(1 .. m) = m
      /\ IsFiniteSet(1 .. n) /\ Cardinality(1 .. n) = n
  BY FS_Interval
<1>2. /\ Cardinality(SUBSET (1 .. m)) = 2^m
      /\ IsFiniteSet(SUBSET (1 .. n)) /\ Cardinality(SUBSET (1 .. n)) = 2^n
  BY <1>1, FS_SUBSET
<1>3. SUBSET (1 .. m) \in SUBSET (SUBSET (1 .. n))
  OBVIOUS
<1> QED
  BY <1>2, <1>3, FS_Subset

LEMMA WrapType ==
  ASSUME NEW x \in Int
  PROVE  Wrap(x) \in Int
<1>1. 2^Width \in Nat /\ 2^Width > 0
  BY Powers, RetryAssumption
<1>2. x % 2^Width \in Int
  BY <1>1
<1> QED
  BY <1>1, <1>2 DEF Wrap

(* What fits the word below its sign bit is not changed by wrapping.       *)
LEMMA WrapFits ==
  ASSUME NEW x \in Nat, x < 2^(Width - 1)
  PROVE  Wrap(x) = x
<1>1. Width \in Nat /\ Width - 1 \in Nat /\ Width - 1 <= Width
  BY RetryAssumption
<1>2. /\ 2^Width \in Nat /\ 2^(Width - 1) \in Nat
      /\ 2^(Width - 1) <= 2^Width
  BY <1>1, Powers, PowersGrow
<1>3. x % 2^Width = x
  BY <1>2
<1> QED
  BY <1>3 DEF Wrap

LEMMA BackoffType ==
  ASSUME Delay \in Nat, NEW n \in Nat
  PROVE  Backoff(n) \in Int
<1>1. 2^n \in Int
  BY Powers
<1>2. Wrap(2^n) \in Int
  BY <1>1, WrapType
<1>3. Delay * Wrap(2^n) \in Int
  BY <1>2
<1>4. Wrap(Delay * Wrap(2^n)) \in Int
  BY <1>3, WrapType
<1> QED
  BY <1>4, RetryAssumption DEF Backoff, BackoffOf

(* As long as the product fits the word, so do its factors, and the code   *)
(* computes what its comment says.                                         *)
LEMMA BackoffFits ==
  ASSUME Delay \in Nat, NEW n \in Nat, Fits(n)
  PROVE  Backoff(n) = IF Delay * 2^n > Cap THEN Cap ELSE Delay * 2^n
<1>1. 2^n \in Nat /\ Delay * 2^n \in Nat
  BY Powers
<1>2. Delay * 2^n < 2^(Width - 1)
  BY DEF Fits
<1>3. Delay * Wrap(2^n) = Delay * 2^n
  <2>1. CASE Delay = 0
    <3>1. Wrap(2^n) \in Int
      BY <1>1, WrapType
    <3> QED
      BY <1>1, <2>1, <3>1
  <2>2. CASE Delay # 0
    <3>1. 2^n <= Delay * 2^n
      BY <1>1, <2>2
    <3>2. 2^(Width - 1) \in Nat
      BY Powers, RetryAssumption
    <3>3. 2^n < 2^(Width - 1)
      BY <1>1, <1>2, <3>1, <3>2
    <3> QED
      BY <1>1, <3>3, WrapFits
  <2> QED
    BY <2>1, <2>2
<1>4. Wrap(Delay * Wrap(2^n)) = Delay * 2^n
  BY <1>1, <1>2, <1>3, WrapFits
<1> QED
  BY <1>4 DEF Backoff, BackoffOf

---------------------------------------------------------------------------
LEMMA InitInv == Init => Inv
<1> SUFFICES ASSUME Init PROVE Inv
  OBVIOUS
<1>1. 0 \in Attempts /\ NoBodies \in [Attempts -> {"none", "open", "closed"}]
  BY RetryAssumption DEF Attempts, NoBodies
<1>2. BodiesSettled
  BY DEF Init, NoBodies, BodiesSettled
<1> QED
  BY <1>1, <1>2 DEF Init, Inv, TypeOK, LateInv, WaitInv

(* Closing the body of the attempt at hand leaves every other as it was.   *)
LEMMA CloseFacts ==
  ASSUME TypeOK, CloseBody
  PROVE  /\ body' \in [Attempts -> {"none", "open", "closed"}]
         /\ body'[i] # "open"
         /\ \A n \in Attempts \ {i} : body'[n] = body[n]
BY DEF TypeOK, CloseBody

(* The steps before and in the network.                                    *)
LEMMA SendStep ==
  ASSUME Inv, Admit \/ Refuse \/ Succeed \/ Fail
  PROVE  Inv'
<1> USE DEF Inv, TypeOK, BodiesSettled, LateInv, WaitInv
<1>1. CASE Admit
  BY <1>1 DEF Admit
<1>2. CASE Refuse
  BY <1>2 DEF Refuse, Return, StopTimer
<1>3. CASE Succeed
  BY <1>3 DEF Succeed, Return, StopTimer
<1>4. CASE Fail
  <2>1. PICK b \in {"open", "none"} : body' = [body EXCEPT ![i] = b]
    BY <1>4 DEF Fail
  <2> QED
    BY <1>4, <2>1 DEF Fail
<1> QED
  BY <1>1, <1>2, <1>3, <1>4

(* The steps after a failure, and the caller's: each closes the body.      *)
LEMMA SettleStep ==
  ASSUME Inv, GiveUp \/ RunOut \/ BackOff \/ Decode
  PROVE  Inv'
<1> USE DEF Inv, LateInv, WaitInv
<1>1. CloseBody /\ UNCHANGED <<i, ended, late>>
  BY DEF GiveUp, RunOut, BackOff, Decode, CloseOnExit, CloseAnswer
<1>2. BodiesSettled'
  BY <1>1, CloseFacts DEF BodiesSettled
<1>3. CASE GiveUp
  BY <1>1, <1>2, <1>3, CloseFacts DEF GiveUp, Return, StopTimer, TypeOK
<1>4. CASE RunOut
  BY <1>1, <1>2, <1>4, CloseFacts DEF RunOut, Return, StopTimer, TypeOK
<1>5. CASE BackOff
  <2>1. i < MaxRetries
    <3>1. i \in 0 .. MaxRetries /\ i # MaxRetries
      BY <1>5 DEF BackOff, LastTry, TypeOK, Attempts
    <3> QED
      BY <3>1, RetryAssumption
  <2>2. pc' \in {"waiting", "panicked"} /\ ~ended /\ result' = result
    BY <1>5 DEF BackOff, SeesEnd
  <2>3. timer' \in {"nil", "running", "tick", "idle"}
    BY <1>5 DEF BackOff, Armed, StopTimer, TypeOK
  <2>4. backoff' \in Int
    <3>1. Delay \in Nat /\ i \in Nat
      BY RetryAssumption DEF TypeOK, Attempts
    <3> QED
      BY <1>5, <3>1, BackoffType DEF BackOff
  <2>5. UNCHANGED <<Delay, outcome>>
    BY <1>5 DEF BackOff
  <2> QED
    BY <1>1, <1>2, <2>1, <2>2, <2>3, <2>4, <2>5, CloseFacts DEF TypeOK
<1>6. CASE Decode
  BY <1>1, <1>2, <1>6, CloseFacts DEF Decode, TypeOK
<1> QED
  BY <1>3, <1>4, <1>5, <1>6

(* The wait and its two ends, the timer and the context.                   *)
LEMMA WaitStep ==
  ASSUME Inv, Retry \/ Abandon \/ Tick \/ End
  PROVE  Inv'
<1> USE DEF Inv, TypeOK, BodiesSettled, LateInv, WaitInv
<1>1. CASE Retry
  <2>1. i + 1 \in Attempts
    BY <1>1, RetryAssumption DEF Retry, Attempts
  <2> QED
    BY <1>1, <2>1 DEF Retry
<1>2. CASE Abandon
  BY <1>2 DEF Abandon, Return, StopTimer
<1>3. CASE Tick
  BY <1>3 DEF Tick
<1>4. CASE End
  BY <1>4 DEF End
<1> QED
  BY <1>1, <1>2, <1>3, <1>4

LEMMA InvStep == Inv /\ [Next]_vars => Inv'
<1> SUFFICES ASSUME Inv, [Next]_vars PROVE Inv'
  OBVIOUS
<1>1. CASE Next
  BY <1>1, SendStep, SettleStep, WaitStep DEF Next, Step
<1>2. CASE UNCHANGED vars
  BY <1>2 DEF vars, Inv, TypeOK, BodiesSettled, LateInv, WaitInv
<1> QED
  BY <1>1, <1>2

(* Only BackOff computes a wait, and the loop does not go on before the    *)
(* wait is over.                                                           *)
LEMMA ExponentialStep == Inv /\ Exponential /\ [Next]_vars => Exponential'
<1> SUFFICES ASSUME Inv, Exponential, [Next]_vars PROVE Exponential'
  OBVIOUS
<1>1. CASE BackOff
  <2>1. Delay \in Nat /\ i \in Nat /\ Cap \in Nat
    BY RetryAssumption DEF Inv, TypeOK, Attempts
  <2>2. /\ UNCHANGED <<Delay, i>>
        /\ backoff' = Backoff(i)
        /\ pc' = "panicked" => backoff' + 1 <= 0
    BY <1>1 DEF BackOff
  <2>3. SUFFICES ASSUME Fits(i)
                 PROVE  /\ pc' # "panicked"
                        /\ backoff' = IF Delay * 2^i > Cap THEN Cap ELSE Delay * 2^i
    BY <2>2 DEF Exponential, Fits
  <2>4. backoff' = IF Delay * 2^i > Cap THEN Cap ELSE Delay * 2^i
    BY <2>1, <2>2, <2>3, BackoffFits
  <2>5. Delay * 2^i \in Nat
    BY <2>1, Powers
  <2> QED
    BY <2>1, <2>2, <2>4, <2>5
<1>2. CASE Tick \/ End
  BY <1>2 DEF Tick, End, Exponential, Fits
<1>3. CASE Step /\ ~BackOff
  BY <1>3 DEF Step, Admit, Refuse, Succeed, Fail, GiveUp, RunOut, Retry, Abandon,
              Decode, Return, Exponential
<1>4. CASE UNCHANGED vars
  BY <1>4 DEF vars, Exponential, Fits
<1> QED
  BY <1>1, <1>2, <1>3, <1>4 DEF Next

LEMMA Invariance == Spec => [](Inv /\ Exponential)
<1>1. Init => Exponential
  BY DEF Init, Exponential
<1> QED
  BY <1>1, InitInv, InvStep, ExponentialStep, PTL DEF Spec

---------------------------------------------------------------------------
(* Every variable keeps its type: the back-off is a number in whatever     *)
(* width, and the loop's counter names an attempt.                         *)
THEOREM TypeCorrect == Spec => []TypeOK
<1>1. Inv => TypeOK
  BY DEF Inv
<1> QED
  BY <1>1, Invariance, PTL

(* No path out of the call leaves a response body open: early return, end  *)
(* of the context, last retry, back-off or decoding.                       *)
THEOREM NoLeak == Spec => []BodiesSettled
<1>1. Inv => BodiesSettled
  BY DEF Inv
<1> QED
  BY <1>1, Invariance, PTL

(* However the context's end races the timer, at most one more request is  *)
(* sent.                                                                   *)
THEOREM StopsAfterEnd == Spec => []EndStops
<1>1. Inv => EndStops
  BY DEF Inv, LateInv, EndStops
<1> QED
  BY <1>1, Invariance, PTL

(* Each wait is bounded by Delay * 2^i and by the cap, for every width in  *)
(* which the product fits (client.go:145-151).                             *)
THEOREM WaitsAreExponential == Spec => []Exponential
BY Invariance, PTL

(* Options whose longest wait fits the word never make the client panic,   *)
(* whatever the network, the limiter and the context do (client.go:155).   *)
LongestFits == Delay * 2^MaxRetries < 2^(Width - 1)
THEOREM NoPanic == Spec => [](LongestFits => pc # "panicked")
<1>1. ASSUME Inv, Exponential, LongestFits
      PROVE  pc # "panicked"
  <2>1. /\ Delay \in Nat /\ i \in Nat /\ MaxRetries \in Nat /\ i <= MaxRetries
        /\ Width - 1 \in Nat
    BY <1>1, RetryAssumption DEF Inv, TypeOK, Attempts
  <2>2. 2^i \in Nat /\ 2^MaxRetries \in Nat /\ 2^(Width - 1) \in Nat
    BY <2>1, Powers
  <2>3. 2^i <= 2^MaxRetries
    BY <2>1, PowersGrow
  <2>4. Delay * 2^i <= Delay * 2^MaxRetries
    BY <2>1, <2>2, <2>3
  <2>5. Delay * 2^i \in Nat /\ Delay * 2^MaxRetries \in Nat
    BY <2>1, <2>2
  <2>6. Fits(i)
    BY <1>1, <2>2, <2>4, <2>5 DEF LongestFits, Fits
  <2> QED
    BY <1>1, <2>6 DEF Exponential
<1>2. Inv /\ Exponential => (LongestFits => pc # "panicked")
  BY <1>1
<1> QED
  BY <1>2, Invariance, PTL
=============================================================================
