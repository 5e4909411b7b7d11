--------------------------- MODULE RetryTransport ---------------------------
(***************************************************************************)
(* A call of the config client (clients/config/client.go): GetConfig or    *)
(* ListVersions, and under it RoundTrip, a loop of attempts with a         *)
(* back-off between them, while the call's context may end at any time     *)
(* (the caller gives up, or http.Client's Timeout passes).                 *)
(*                                                                         *)
(* Durations are counted in a unit in which Delays and Cap are whole, and  *)
(* computed in Width bits as the code computes them in 64; how long a wait *)
(* takes below its bound (the jitter) is left open.  The limiter comes     *)
(* from another repository: it allows, refuses or fails.                   *)
(***************************************************************************)
EXTENDS Integers

CONSTANTS
  MaxRetries,
  Delays,   \* what WithRetries may be given as the first wait
  Cap,      \* five seconds
  Width     \* bits of a time.Duration

ASSUME RetryAssumption ==
  /\ MaxRetries \in Nat
  /\ Delays \subseteq Nat
  /\ Cap \in Nat
  /\ Width \in Nat \ {0}

VARIABLES
  Delay,    \* the option, fixed
  pc,       \* before the limiter, in the network, after a failure, ...
  i,        \* the loop's counter
  ended,    \* has the context ended
  body,     \* of each attempt: no body, an open one, a closed one
  timer,    \* nil, running, with a tick in its channel, or idle
  backoff,  \* bound of the last wait
  result,   \* what RoundTrip returned
  outcome,  \* what the caller of GetConfig or ListVersions got
  late      \* history: attempts that began after the context's end

vars == <<Delay, pc, i, ended, body, timer, backoff, result, outcome, late>>

Attempts == 0 .. MaxRetries
NoBodies == [n \in Attempts |-> "none"]

TypeOK ==
  /\ Delay \in Delays
  /\ pc \in {"limit", "send", "failed", "waiting", "returned", "panicked", "done"}
  /\ i \in Attempts
  /\ ended \in BOOLEAN
  /\ body \in [Attempts -> {"none", "open", "closed"}]
  /\ timer \in {"nil", "running", "tick", "idle"}
  /\ backoff \in Int
  /\ result \in {"none", "answer", "refused", "exhausted", "error", "cancelled"}
  /\ outcome \in {"none", "config", "error"}
  /\ late \in Nat

Init ==
  /\ Delay \in Delays
  /\ pc = "limit"
  /\ i = 0
  /\ ended \in BOOLEAN
  /\ body = NoBodies
  /\ timer = "nil"
  /\ backoff = 0
  /\ result = "none"
  /\ outcome = "none"
  /\ late = 0

(* Every return runs the deferred timer.Stop. *)
StopTimer == timer' = IF timer = "nil" THEN "nil" ELSE "idle"
Return(r) ==
  /\ pc' = "returned"
  /\ result' = r
  /\ StopTimer

---------------------------------------------------------------------------
(* 1. The limiter is asked before every attempt: allowed, ... *)
Admit ==
  /\ pc = "limit"
  /\ pc' = "send"
  /\ late' = IF ended THEN late + 1 ELSE late
  /\ UNCHANGED <<Delay, i, ended, body, timer, backoff, result, outcome>>

(* ... a made-up 429, or an error of the limiter's own. *)
Refuse ==
  /\ pc = "limit"
  /\ \E r \in {"refused", "error"} : Return(r)
  /\ UNCHANGED <<Delay, i, ended, body, backoff, outcome, late>>

(* 2. The network answers below 500, and RoundTrip is over, ... *)
Succeed ==
  /\ pc = "send"
  /\ body' = [body EXCEPT ![i] = "open"]
  /\ Return("answer")
  /\ UNCHANGED <<Delay, i, ended, backoff, outcome, late>>

(* ... or with a 5xx and its body, or not at all. *)
Fail ==
  /\ pc = "send"
  /\ \E b \in {"open", "none"} : body' = [body EXCEPT ![i] = b]
  /\ pc' = "failed"
  /\ UNCHANGED <<Delay, i, ended, timer, backoff, result, outcome, late>>

---------------------------------------------------------------------------
(* 3. After a failure: the context first, the body on every path. *)
CloseBody == body' = [body EXCEPT ![i] = IF @ = "open" THEN "closed" ELSE @]
LeaveBody == body' = body
CloseOnExit == CloseBody

NeverSeen == FALSE
SeesEnd == ended

GiveUp ==
  /\ pc = "failed"
  /\ SeesEnd
  /\ CloseOnExit
  /\ Return("cancelled")
  /\ UNCHANGED <<Delay, i, ended, backoff, outcome, late>>

OneMore == i > MaxRetries
LastTry == i = MaxRetries

(* The retries are used up: the last 5xx, its body closed, or its error. *)
RunOut ==
  /\ pc = "failed"
  /\ ~SeesEnd
  /\ LastTry
  /\ CloseBody
  /\ Return(IF body[i] = "open" THEN "exhausted" ELSE "error")
  /\ UNCHANGED <<Delay, i, ended, backoff, outcome, late>>

(* Two's complement in Width bits. *)
Wrap(x) ==
  LET m == x % 2^Width IN IF m < 2^(Width - 1) THEN m ELSE m - 2^Width
BackoffOf(n) ==
  LET p == Wrap(Delay * Wrap(2^n)) IN IF p > Cap THEN Cap ELSE p
BackoffLate(n) == BackoffOf(n + 1)
Backoff(n) == BackoffOf(n)

KeepRunning == IF timer = "nil" THEN "running" ELSE timer
Armed == "running"

(* rand.Int64N panics unless its argument, backoff + 1, is positive. *)
BackOff ==
  /\ pc = "failed"
  /\ ~SeesEnd
  /\ ~LastTry
  /\ CloseBody
  /\ backoff' = Backoff(i)
  /\ \/ backoff' + 1 > 0 /\ pc' = "waiting" /\ timer' = Armed
     \/ backoff' + 1 <= 0 /\ pc' = "panicked" /\ StopTimer
  /\ UNCHANGED <<Delay, i, ended, result, outcome, late>>

(* select: with both ready, either. *)
Retry ==
  /\ pc = "waiting"
  /\ timer = "tick"
  /\ timer' = "idle"
  /\ i' = i + 1
  /\ pc' = "limit"
  /\ UNCHANGED <<Delay, ended, body, backoff, result, outcome, late>>

Abandon ==
  /\ pc = "waiting"
  /\ ended
  /\ Return("cancelled")
  /\ UNCHANGED <<Delay, i, ended, body, backoff, outcome, late>>

---------------------------------------------------------------------------
(* GetConfig and ListVersions: a config only out of a 200 whose body       *)
(* decodes; the deferred Close takes the body of every response.           *)
OnlyOfConfig == IF outcome' = "config" THEN CloseBody ELSE LeaveBody
CloseAnswer == CloseBody

Decode ==
  /\ pc = "returned"
  /\ pc' = "done"
  /\ outcome' \in IF result = "answer" THEN {"config", "error"} ELSE {"error"}
  /\ CloseAnswer
  /\ UNCHANGED <<Delay, i, ended, timer, backoff, result, late>>

---------------------------------------------------------------------------
Tick ==
  /\ timer = "running"
  /\ timer' = "tick"
  /\ UNCHANGED <<Delay, pc, i, ended, body, backoff, result, outcome, late>>

End ==
  /\ pc \notin {"panicked", "done"}
  /\ ~ended
  /\ ended' = TRUE
  /\ UNCHANGED <<Delay, pc, i, body, timer, backoff, result, outcome, late>>

---------------------------------------------------------------------------
Step ==
  \/ Admit \/ Refuse
  \/ Succeed \/ Fail
  \/ GiveUp \/ RunOut \/ BackOff
  \/ Retry \/ Abandon
  \/ Decode

Next == Step \/ Tick \/ End

Spec == Init /\ [][Next]_vars

(* The goroutine runs, its timer fires, and the network answers or gives up. *)
FairSpec == Spec /\ WF_vars(Step) /\ WF_vars(Tick)

---------------------------------------------------------------------------
(* No connection leaks: a body is open only until its failure is handled,  *)
(* or the answer it belongs to is decoded; when the call has returned to   *)
(* its caller, on whatever path, none is open (client.go:126-142, 183-236).*)
BodiesSettled ==
  \A n \in Attempts : body[n] = "open" =>
     n = i /\ (pc = "failed" \/ (pc = "returned" /\ result = "answer"))

(* Once its context has ended a call sends at most one more request: the   *)
(* one whose back-off ended in the same instant (client.go:132, 163-167).  *)
EndStops == late <= 1

(* A wait is bounded by Delay * 2^i, up to five seconds: "Calculate        *)
(* exponential backoff", "Cap the maximum backoff" (client.go:145-151), as *)
(* long as the product fits the word.  Past it the code panics, or does    *)
(* not wait.                                                               *)
Fits(n) == Delay * 2^n < 2^(Width - 1)
Exponential ==
  pc \in {"waiting", "panicked"} /\ Fits(i) =>
     /\ pc # "panicked"
     /\ backoff = IF Delay * 2^i > Cap THEN Cap ELSE Delay * 2^i

(* Every call ends: no wait for a timer that will not fire.                *)
CallsReturn == <>(pc \in {"done", "panicked"})
=============================================================================
